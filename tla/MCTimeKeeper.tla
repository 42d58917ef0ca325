---------------------------- MODULE MCTimeKeeper ----------------------------
(***************************************************************************)
(* Model checking of TimeKeeper.                                           *)
(***************************************************************************)
EXTENDS TimeKeeper

CONSTANT s1
=============================================================================
