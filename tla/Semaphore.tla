----------------------------- MODULE Semaphore -----------------------------
(***************************************************************************)
(* Semaphore (source/semaphore.cpp): a counter under a mutex, with a       *)
(* condition variable for the threads that find it at zero.                *)
(*                                                                         *)
(* p() takes the mutex, and goes to sleep on the condition variable as     *)
(* long as the counter is zero, releasing the mutex as it falls asleep and *)
(* taking it again when it wakes.  v() increments the counter under the    *)
(* mutex but notifies after it has released it, and notify_one wakes one   *)
(* sleeping thread, if there is one; a thread may also wake by itself.     *)
(* try_p() gives up when it does not get the mutex at once.                *)
(***************************************************************************)
EXTENDS Integers, FiniteSets

CONSTANTS
  Threads,
  Triers,     \* those that call try_p()
  Initial,    \* the argument of the constructor
  MaxCount,   \* bound on the counter, for the calls of v()
  None        \* nobody holds the mutex

ASSUME SemaphoreAssumption ==
  /\ IsFiniteSet(Threads) /\ Triers \subseteq Threads
  /\ None \notin Threads
  /\ Initial \in Nat
  /\ MaxCount \in Nat

VARIABLES
  count,    \* _count
  mutex,    \* the thread that holds _mutex
  pc        \* where each thread is in p() or v()

vars == <<count, mutex, pc>>

Places == {"idle", "p_lock", "p_test", "asleep", "v_lock", "v_inc", "v_notify"}

At(place) == {t \in Threads : pc[t] = place}

\* The threads in p() that are not asleep.
Awake == At("p_lock") \cup At("p_test")

TypeOK ==
  /\ count \in Nat
  /\ mutex \in Threads \cup {None}
  /\ pc \in [Threads -> Places]

Init ==
  /\ count = Initial
  /\ mutex = None
  /\ pc = [t \in Threads |-> "idle"]

-----------------------------------------------------------------------------
Goto(t, place) == pc' = [pc EXCEPT ![t] = place]

Call(t) ==
  /\ pc[t] = "idle"
  /\ \/ Goto(t, "p_lock")
     \/ Goto(t, "v_lock") /\ count + Cardinality(At("v_lock") \cup At("v_inc")) < MaxCount
  /\ UNCHANGED <<count, mutex>>

\* p() and v() get the mutex: a thread that calls p() or wakes up in it tests the
\* counter next, a thread that calls v() increments it.
Lock(t) ==
  /\ pc[t] \in {"p_lock", "v_lock"}
  /\ mutex = None
  /\ mutex' = t
  /\ Goto(t, IF pc[t] = "p_lock" THEN "p_test" ELSE "v_inc")
  /\ UNCHANGED count

\* A slip in p(): going on with the mutex, whatever the counter says.
TestNothing(t) ==
  /\ pc[t] = "p_test"
  /\ mutex' = None
  /\ count' = count - 1
  /\ Goto(t, "idle")

\* p(): the predicate of wait() holds and the thread takes a token, or it does
\* not and the thread falls asleep.
Test(t) ==
  /\ pc[t] = "p_test"
  /\ mutex' = None
  /\ \/ /\ count > 0
        /\ count' = count - 1
        /\ Goto(t, "idle")
     \/ /\ count = 0
        /\ Goto(t, "asleep")
        /\ UNCHANGED count

\* The condition variable may wake a thread nobody has notified.
WakeSpuriously(t) ==
  /\ pc[t] = "asleep"
  /\ Goto(t, "p_lock")
  /\ UNCHANGED <<count, mutex>>

\* A slip in v(): notifying only when the counter leaves zero.
IncrementThenMaybeNotify(t) ==
  /\ pc[t] = "v_inc"
  /\ count' = count + 1
  /\ mutex' = None
  /\ Goto(t, IF count = 0 THEN "v_notify" ELSE "idle")

\* v(): the increment, and the end of the critical section.
Increment(t) ==
  /\ pc[t] = "v_inc"
  /\ count' = count + 1
  /\ mutex' = None
  /\ Goto(t, "v_notify")

\* v(): notify_one, without the mutex.
NotifyOne(t) ==
  /\ pc[t] = "v_notify"
  /\ \/ \E u \in At("asleep") :
          pc' = [pc EXCEPT ![t] = "idle", ![u] = "p_lock"]
     \/ At("asleep") = {} /\ Goto(t, "idle")
  /\ UNCHANGED <<count, mutex>>

\* try_p() that gets the mutex and finds a token; a call that does not changes
\* nothing.
TryP(t) ==
  /\ t \in Triers /\ pc[t] = "idle"
  /\ mutex = None
  /\ count > 0
  /\ count' = count - 1
  /\ UNCHANGED <<mutex, pc>>

Step(t) == Lock(t) \/ Test(t) \/ Increment(t) \/ NotifyOne(t)

Next == \E t \in Threads : Call(t) \/ Step(t) \/ WakeSpuriously(t) \/ TryP(t)

Spec == Init /\ [][Next]_vars

(***************************************************************************)
(* A thread inside p() or v() goes on when it can.  Nothing makes a thread *)
(* call, or wake up by itself.                                             *)
(***************************************************************************)
FairSpec == Spec /\ \A t \in Threads : WF_vars(Step(t))

-----------------------------------------------------------------------------
(***************************************************************************)
(* No wakeup is lost: when there is a token and a thread is asleep in p(), *)
(* somebody is on the way: a v() that has still to notify, or a thread in  *)
(* p() that is awake.                                                      *)
(***************************************************************************)
NoLostWakeup ==
  count > 0 /\ At("asleep") # {} => At("v_notify") # {} \/ Awake # {}

(***************************************************************************)
(* Semaphore is a counting semaphore: its counter is the tokens, and the   *)
(* threads inside p(), asleep or not, are waiting for one.                 *)
(***************************************************************************)
Abstract == INSTANCE CountingSemaphore WITH
  tokens <- count,
  waiting <- Awake \cup At("asleep")

IsCountingSemaphore == Abstract!Spec

(***************************************************************************)
(* And it is live: as long as there are tokens, threads that wait are let  *)
(* through, though v() notifies without holding the mutex and wakes one    *)
(* thread only.  Only threads that take tokens by try_p() again and again  *)
(* can keep the others from the mutex for ever.                            *)
(***************************************************************************)
LetsWaitersThrough ==
  []<><<\E t \in Threads : TryP(t)>>_vars \/ Abstract!Fairness
=============================================================================
