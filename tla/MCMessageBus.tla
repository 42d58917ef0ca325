---------------------------- MODULE MCMessageBus ----------------------------
(***************************************************************************)
(* Model checking of MessageBus: an agent with two components.             *)
(***************************************************************************)
EXTENDS MessageBus

CONSTANTS s1, worker

MCPortOf == <<1, 2>>

\* A verified frame of another agent; and with it one of another protocol, a
\* synchronization frame of an RSU, and one without data.
PassFrames == {[class |-> "pass", len |-> 1]}
AllFrames == {[class |-> "pass", len |-> 1], [class |-> "alien", len |-> 1],
              [class |-> "drop", len |-> 0], [class |-> "short", len |-> 0]}
=============================================================================
