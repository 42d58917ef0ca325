---------------------------- MODULE MCSemaphore ----------------------------
(***************************************************************************)
(* Model checking of Semaphore.                                            *)
(***************************************************************************)
EXTENDS Semaphore

CONSTANTS t1, t2, t3, t4
=============================================================================
