-------------------------- MODULE MCAgentLifecycle --------------------------
(***************************************************************************)
(* Model checking of AgentLifecycle: a vehicle with two components.        *)
(***************************************************************************)
EXTENDS AgentLifecycle

MCInterests == <<0, 1>>

\* Responses to other agents only hold a buffer for a moment: one is enough.
MCMaxSends == [interest |-> 0, internal |-> 2, external |-> 1]
=============================================================================
