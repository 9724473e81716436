------------------------- MODULE MC_BlockKeeperEpoch -------------------------
(***************************************************************************)
(* Two keepers: e1 (wallet 1) finishes at 0, e2 (wallet 2) at 1.  Block 1  *)
(* rotates index 1 to a new epoch e3, finishing at 2, by removing and      *)
(* adding index 1 in one block; block 3 removes index 2 and adds e4,       *)
(* whose storage has no _stake field, so no keeper is added.  The clock    *)
(* runs to 8, past every finish plus the 5 s retry delay.                  *)
(***************************************************************************)
EXTENDS BlockKeeperEpoch

MCEpochs == {"e1", "e2", "e3", "e4"}
AllFields == {"_bls_pubkey", "_walletId", "_unixtimeFinish", "_stake"}
MCStorage == ("e1" :> [fields |-> AllFields, walletId |-> 1, finish |-> 0])
          @@ ("e2" :> [fields |-> AllFields, walletId |-> 2, finish |-> 1])
          @@ ("e3" :> [fields |-> AllFields, walletId |-> 1, finish |-> 2])
          @@ ("e4" :> [fields |-> AllFields \ {"_stake"}, walletId |-> 3, finish |-> 0])
MCInitialSet == (1 :> "e1") @@ (2 :> "e2")
MCBlocks == << [seq |-> 1, removed |-> {1}, added |-> <<"e3">>],
               [seq |-> 3, removed |-> {2}, added |-> <<"e4">>] >>
=============================================================================
