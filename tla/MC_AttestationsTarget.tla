----------------------- MODULE MC_AttestationsTarget -----------------------
(***************************************************************************)
(* Block trees for the attestation-target service.  A checkpoint holds 2   *)
(* or 3 verified signers for an ancestor against a required count of 3,    *)
(* so both a met and a failed initial target occur.                        *)
(*                                                                         *)
(* The fork tree:                                                         *)
(*   G <- b1 <- b2 <- b3 <- b4                                             *)
(*          \      \-- d3   (d3 in thread T1, the rest in T0)              *)
(*           \-- c2                                                        *)
(* b2 and c2 are a fork; b3 may resolve it for b2 and needs b4 to have its *)
(* own target met, so the secondary (resolved-fork) path is reachable.     *)
(* Finalizing b2 puts c2 at the cutoff.  b1 looks two generations down,    *)
(* the others one; d3, one generation below b2 but in another thread, is   *)
(* no checkpoint of b2.                                                    *)
(*                                                                         *)
(* The short tree is the fork tree without b4 and d3: b1 and b2 both have  *)
(* b3 as checkpoint, b3 has none (its chain is too short).                 *)
(***************************************************************************)
EXTENDS AttestationsTarget

MCAttestationCounts == {2, 3}

ForkBlocks == {"b1", "b2", "b3", "b4", "c2", "d3"}

ForkParent == [b \in ForkBlocks |->
                 CASE b = "b1" -> "G"
                   [] b = "b2" -> "b1"
                   [] b = "b3" -> "b2"
                   [] b = "b4" -> "b3"
                   [] b = "c2" -> "b1"
                   [] b = "d3" -> "b2"]

ForkThreadOf == [b \in ForkBlocks |-> IF b = "d3" THEN "T1" ELSE "T0"]

ForkTarget == [b \in ForkBlocks |->
                 [descendant_generations |-> IF b = "b1" THEN 2 ELSE 1,
                  count |-> 3]]

ShortBlocks == ForkBlocks \ {"b4", "d3"}
ShortParent == [b \in ShortBlocks |-> ForkParent[b]]
ShortThreadOf == [b \in ShortBlocks |-> "T0"]
ShortTarget == [b \in ShortBlocks |-> ForkTarget[b]]

=============================================================================
