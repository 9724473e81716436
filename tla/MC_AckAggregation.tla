------------------------- MODULE MC_AckAggregation -------------------------
(***************************************************************************)
(* Two block ids, two signers and up to three buffered envelopes: enough   *)
(* for an envelope that adds a signer after one that does not, for a        *)
(* repeated envelope, and for envelopes of two blocks interleaved.         *)
(***************************************************************************)
EXTENDS AckAggregation

MCBlockIds == {"B1", "B2"}
MCSigners == {0, 1}
=============================================================================
