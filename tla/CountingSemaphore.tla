------------------------- MODULE CountingSemaphore -------------------------
(***************************************************************************)
(* What the users of Semaphore (header/semaphore.h) rely on: a counting    *)
(* semaphore.  A thread that has asked for a token waits until there is    *)
(* one; a token is given to one thread; and as long as there are tokens,   *)
(* waiting threads are let through.                                        *)
(***************************************************************************)
EXTENDS Integers

CONSTANTS
  Threads,
  Initial    \* the tokens there are at first

VARIABLES
  tokens,    \* tokens nobody has taken
  waiting    \* threads that have asked for one

vars == <<tokens, waiting>>

TypeOK == tokens \in Nat /\ waiting \subseteq Threads

Init == tokens = Initial /\ waiting = {}

Ask(t) ==
  /\ t \notin waiting
  /\ waiting' = waiting \cup {t}
  /\ UNCHANGED tokens

Grant(t) ==
  /\ t \in waiting /\ tokens > 0
  /\ tokens' = tokens - 1
  /\ waiting' = waiting \ {t}

\* A thread may also take a token without waiting for one.
Take == tokens > 0 /\ tokens' = tokens - 1 /\ UNCHANGED waiting

Signal == tokens' = tokens + 1 /\ UNCHANGED waiting

Next == (\E t \in Threads : Ask(t) \/ Grant(t)) \/ Take \/ Signal

Spec == Init /\ [][Next]_vars

\* As long as there are tokens, waiting threads are let through.
Fairness == WF_vars(\E t \in Threads : Grant(t))

FairSpec == Spec /\ Fairness
=============================================================================
