--------------------------- MODULE MC_ProxyManager ---------------------------
(***************************************************************************)
(* Three connections: c1 and c2 with outer urls u1 and u2, c3 without an   *)
(* outer part.  c1 is enabled at the start; the chain first lists u1, then *)
(* adds u2, so the manager has one connection to enable and one reload to  *)
(* make.  The proxy is signalled through docker.                           *)
(***************************************************************************)
EXTENDS ProxyManager, TLC

CONSTANTS c1, c2, c3, u1, u2

MCConns == {c1, c2, c3}
MCUrls == {u1, u2}
MCOuter == (c1 :> u1) @@ (c2 :> u2) @@ (c3 :> NoOuter)
MCPublished == <<{u1}, {u1, u2}>>

=============================================================================
