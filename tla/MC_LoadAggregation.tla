------------------------ MODULE MC_LoadAggregation ------------------------
(***************************************************************************)
(* A window of five slots and queue lengths 0 to 2: resets can fall at    *)
(* every cursor position, before and after the first wrap, and a ready    *)
(* value can mix samples of several wraps.                                *)
(***************************************************************************)
EXTENDS LoadAggregation

MCLoads == 0 .. 2
=============================================================================
