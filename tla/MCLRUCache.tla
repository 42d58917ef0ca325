----------------------------- MODULE MCLRUCache -----------------------------
(***************************************************************************)
(* Model checking of LRUCache.                                             *)
(***************************************************************************)
EXTENDS LRUCache

CONSTANTS k1, k2, k3, k4, v1, v2, n1, n2, n3, n4
=============================================================================
