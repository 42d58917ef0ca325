-------------------------- MODULE MCKeyDistribution --------------------------
(***************************************************************************)
(* Model checking of KeyDistribution.                                      *)
(***************************************************************************)
EXTENDS KeyDistribution

CONSTANTS v1, v2
=============================================================================
