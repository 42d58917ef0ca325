---------------------------- MODULE MCSmartData ----------------------------
(***************************************************************************)
(* Model checking of SmartData: interests of two components of the own     *)
(* agent and of one component of each of two others.                       *)
(***************************************************************************)
EXTENDS SmartData, TLC

CONSTANTS me, other1, other2, c1, c2, o1, o2

MCAgentOf == c1 :> me @@ c2 :> me @@ o1 :> other1 @@ o2 :> other2
=============================================================================
