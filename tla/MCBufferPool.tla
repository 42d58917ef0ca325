---------------------------- MODULE MCBufferPool ----------------------------
(***************************************************************************)
(* Model checking of BufferPool: three interchangeable threads.            *)
(***************************************************************************)
EXTENDS BufferPool, TLC

CONSTANTS t1, t2, t3

MCThreads == {t1, t2, t3}
Symmetry == Permutations(MCThreads)
=============================================================================
