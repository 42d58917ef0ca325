-------------------------- MODULE SemaphoreProofs --------------------------
(***************************************************************************)
(* Proofs about Semaphore, for any finite set of threads.                  *)
(*                                                                         *)
(* NoLostWakeup is not inductive: it would be lost when the last thread on *)
(* the way takes a token and leaves others behind.  The invariant that is, *)
(* counts: while anybody is asleep there are no more tokens than threads   *)
(* on the way to take one or to wake somebody up.                          *)
(***************************************************************************)
EXTENDS Semaphore, FiniteSetTheorems, TLAPS

OnTheWay == {t \in Threads : pc[t] \in {"v_notify", "p_lock", "p_test"}}

TokensHaveTakers ==
  At("asleep") # {} => count <= Cardinality(OnTheWay)

IInv == TypeOK /\ TokensHaveTakers

LEMMA OnTheWayFinite ==
  IsFiniteSet(OnTheWay) /\ Cardinality(OnTheWay) \in Nat
<1>1. OnTheWay \subseteq Threads
  BY DEF OnTheWay
<1> QED  BY <1>1, FS_Subset, FS_CardinalityType, SemaphoreAssumption

\* The size of OnTheWay when a thread joins or leaves it.
LEMMA JoinLeave ==
  ASSUME NEW t
  PROVE  /\ t \notin OnTheWay =>
              Cardinality(OnTheWay \cup {t}) = Cardinality(OnTheWay) + 1
         /\ t \in OnTheWay =>
              Cardinality(OnTheWay \ {t}) = Cardinality(OnTheWay) - 1
BY OnTheWayFinite, FS_AddElement, FS_RemoveElement

LEMMA InitIInv == Init => IInv
BY SemaphoreAssumption
   DEF Init, IInv, TypeOK, TokensHaveTakers, At, Places

LEMMA StepIInv == IInv /\ [Next]_vars => IInv'
<1> SUFFICES ASSUME TypeOK, TokensHaveTakers, [Next]_vars
             PROVE  IInv'
  BY DEF IInv
<1> USE SemaphoreAssumption, OnTheWayFinite DEF Goto
<1>1. ASSUME NEW t \in Threads, Call(t)
      PROVE  IInv'
  <2>1. TypeOK'
    BY <1>1 DEF Call, TypeOK, Places
  <2>2. At("asleep")' = At("asleep")
    BY <1>1 DEF Call, TypeOK, At
  <2>3. OnTheWay' = OnTheWay \cup {t} \/ OnTheWay' = OnTheWay
    BY <1>1 DEF Call, TypeOK, OnTheWay
  <2>4. t \notin OnTheWay /\ count' = count
    BY <1>1 DEF Call, OnTheWay
  <2>5. TokensHaveTakers'
    BY <2>2, <2>3, <2>4, JoinLeave DEF TokensHaveTakers, TypeOK
  <2> QED  BY <2>1, <2>5 DEF IInv
<1>2. ASSUME NEW t \in Threads, Lock(t)
      PROVE  IInv'
  <2>1. TypeOK'
    BY <1>2 DEF Lock, TypeOK, Places
  <2>2. At("asleep")' = At("asleep") /\ OnTheWay' = OnTheWay /\ count' = count
    BY <1>2 DEF Lock, TypeOK, At, OnTheWay
  <2> QED  BY <2>1, <2>2 DEF IInv, TokensHaveTakers
<1>3. ASSUME NEW t \in Threads, Test(t)
      PROVE  IInv'
  <2>1. TypeOK'
    BY <1>3 DEF Test, TypeOK, Places
  <2>2. t \in OnTheWay /\ OnTheWay' = OnTheWay \ {t}
    BY <1>3 DEF Test, TypeOK, OnTheWay
  <2>3. Cardinality(OnTheWay') = Cardinality(OnTheWay) - 1
    BY <2>2, JoinLeave
  <2>4. Cardinality(OnTheWay') \in Nat
    BY <2>2, FS_RemoveElement, FS_CardinalityType
  <2>5. CASE count > 0
    <3>1. count' = count - 1 /\ At("asleep")' = At("asleep")
      BY <1>3, <2>5 DEF Test, TypeOK, At
    <3> QED  BY <2>1, <2>3, <3>1 DEF IInv, TokensHaveTakers, TypeOK
  <2>6. CASE count = 0
    <3>1. count' = 0
      BY <1>3, <2>6 DEF Test, TypeOK
    <3> QED  BY <2>1, <2>4, <3>1 DEF IInv, TokensHaveTakers
  <2> QED  BY <2>5, <2>6 DEF TypeOK
<1>4. ASSUME NEW t \in Threads, WakeSpuriously(t)
      PROVE  IInv'
  <2>1. TypeOK'
    BY <1>4 DEF WakeSpuriously, TypeOK, Places
  <2>2. t \notin OnTheWay /\ OnTheWay' = OnTheWay \cup {t}
    BY <1>4 DEF WakeSpuriously, TypeOK, OnTheWay
  <2>3. At("asleep") # {} /\ count' = count
    BY <1>4 DEF WakeSpuriously, At
  <2> QED  BY <2>1, <2>2, <2>3, JoinLeave DEF IInv, TokensHaveTakers, TypeOK
<1>5. ASSUME NEW t \in Threads, Increment(t)
      PROVE  IInv'
  <2>1. TypeOK'
    BY <1>5 DEF Increment, TypeOK, Places
  <2>2. t \notin OnTheWay /\ OnTheWay' = OnTheWay \cup {t}
    BY <1>5 DEF Increment, TypeOK, OnTheWay
  <2>3. At("asleep")' = At("asleep") /\ count' = count + 1
    BY <1>5 DEF Increment, TypeOK, At
  <2> QED  BY <2>1, <2>2, <2>3, JoinLeave DEF IInv, TokensHaveTakers, TypeOK
<1>6. ASSUME NEW t \in Threads, NotifyOne(t)
      PROVE  IInv'
  <2>1. CASE At("asleep") = {}
    <3>1. pc' = [pc EXCEPT ![t] = "idle"]
      BY <1>6, <2>1 DEF NotifyOne
    <3>2. At("asleep")' = {}
      BY <2>1, <3>1 DEF At, TypeOK
    <3>3. TypeOK'
      BY <1>6, <3>1 DEF NotifyOne, TypeOK, Places
    <3> QED  BY <3>2, <3>3 DEF IInv, TokensHaveTakers
  \* The notified thread takes the place of the one that notified it.
  <2>2. CASE At("asleep") # {}
    <3>1. PICK u \in At("asleep") :
            pc' = [pc EXCEPT ![t] = "idle", ![u] = "p_lock"]
      BY <1>6, <2>2 DEF NotifyOne
    <3>2. u \in Threads /\ pc[u] = "asleep" /\ pc[t] = "v_notify"
      BY <1>6, <3>1 DEF NotifyOne, At
    <3>3. /\ t \in OnTheWay /\ u \notin OnTheWay \ {t}
          /\ OnTheWay' = (OnTheWay \ {t}) \cup {u}
      BY <3>1, <3>2 DEF OnTheWay, TypeOK
    <3>4. Cardinality(OnTheWay') = Cardinality(OnTheWay)
      <4>1. /\ IsFiniteSet(OnTheWay \ {t})
            /\ Cardinality(OnTheWay \ {t}) = Cardinality(OnTheWay) - 1
        BY <3>3, FS_RemoveElement
      <4>2. Cardinality((OnTheWay \ {t}) \cup {u}) = Cardinality(OnTheWay \ {t}) + 1
        BY <3>3, <4>1, FS_AddElement
      <4> QED  BY <3>3, <4>1, <4>2
    <3>5. TypeOK'
      BY <1>6, <3>1, <3>2 DEF NotifyOne, TypeOK, Places
    <3>6. count' = count
      BY <1>6 DEF NotifyOne
    <3> QED  BY <2>2, <3>4, <3>5, <3>6 DEF IInv, TokensHaveTakers
  <2> QED  BY <2>1, <2>2
<1>7. ASSUME NEW t \in Threads, TryP(t)
      PROVE  IInv'
  <2>1. TypeOK'
    BY <1>7 DEF TryP, TypeOK
  <2>2. At("asleep")' = At("asleep") /\ OnTheWay' = OnTheWay /\ count' = count - 1
    BY <1>7 DEF TryP, At, OnTheWay
  <2> QED  BY <2>1, <2>2 DEF IInv, TokensHaveTakers, TypeOK
<1>8. CASE UNCHANGED vars
  BY <1>8 DEF vars, IInv, TypeOK, TokensHaveTakers, At, OnTheWay
<1> QED  BY <1>1, <1>2, <1>3, <1>4, <1>5, <1>6, <1>7, <1>8 DEF Next, Step

LEMMA Inductive == Spec => []IInv
<1> QED  BY InitIInv, StepIInv, PTL DEF Spec

(***************************************************************************)
(* The counter never goes below zero.                                      *)
(***************************************************************************)
THEOREM TypeCorrect == Spec => []TypeOK
<1>1. IInv => TypeOK
  BY DEF IInv
<1> QED  BY <1>1, Inductive, PTL

(***************************************************************************)
(* No wakeup is lost between v()'s increment and its notify_one.           *)
(***************************************************************************)
THEOREM WakeupsAreNotLost == Spec => []NoLostWakeup
<1>1. IInv => NoLostWakeup
  <2> SUFFICES ASSUME IInv, count > 0, At("asleep") # {}
               PROVE  At("v_notify") # {} \/ Awake # {}
    BY DEF NoLostWakeup
  <2>1. Cardinality(OnTheWay) > 0
    BY OnTheWayFinite DEF IInv, TypeOK, TokensHaveTakers
  <2>2. OnTheWay # {}
    BY <2>1, FS_EmptySet
  <2> QED  BY <2>2 DEF OnTheWay, Awake, At
<1> QED  BY <1>1, Inductive, PTL

-----------------------------------------------------------------------------
LEMMA InitImplements == Init => Abstract!Init
BY DEF Init, Abstract!Init, Awake, At

\* Every step of the semaphore is a step of the abstract one, or none.
LEMMA StepImplements == IInv /\ [Next]_vars => [Abstract!Next]_(Abstract!vars)
<1> DEFINE Waiting == Awake \cup At("asleep")
<1> SUFFICES ASSUME TypeOK, [Next]_vars
             PROVE  Abstract!Next \/ (count' = count /\ Waiting' = Waiting)
  BY DEF IInv, Abstract!vars
<1>0. Waiting = {t \in Threads : pc[t] \in {"p_lock", "p_test", "asleep"}}
  BY DEF Awake, At
<1>0a. Waiting' = {t \in Threads : pc'[t] \in {"p_lock", "p_test", "asleep"}}
  BY DEF Awake, At
<1> HIDE DEF Waiting
<1> USE DEF Goto
<1>1. ASSUME NEW t \in Threads, Call(t)
      PROVE  Abstract!Next \/ (count' = count /\ Waiting' = Waiting)
  <2>1. CASE pc' = [pc EXCEPT ![t] = "p_lock"]
    <3>1. t \notin Waiting /\ Waiting' = Waiting \cup {t} /\ count' = count
      BY <1>0, <1>0a, <1>1, <2>1 DEF Call, TypeOK
    <3> QED  BY <3>1 DEF Abstract!Next, Abstract!Ask, Waiting
  <2>2. CASE pc' = [pc EXCEPT ![t] = "v_lock"]
    BY <1>0, <1>0a, <1>1, <2>2 DEF Call, TypeOK
  <2> QED  BY <1>1, <2>1, <2>2 DEF Call
<1>2. ASSUME NEW t \in Threads, Lock(t)
      PROVE  count' = count /\ Waiting' = Waiting
  BY <1>0, <1>0a, <1>2 DEF Lock, TypeOK
<1>3. ASSUME NEW t \in Threads, Test(t)
      PROVE  Abstract!Next \/ (count' = count /\ Waiting' = Waiting)
  <2>1. CASE pc' = [pc EXCEPT ![t] = "asleep"] /\ count' = count
    BY <1>0, <1>0a, <1>3, <2>1 DEF Test, TypeOK
  <2>2. CASE count > 0 /\ count' = count - 1 /\ pc' = [pc EXCEPT ![t] = "idle"]
    <3>1. t \in Waiting /\ Waiting' = Waiting \ {t}
      BY <1>0, <1>0a, <1>3, <2>2 DEF Test, TypeOK
    <3> QED  BY <2>2, <3>1 DEF Abstract!Next, Abstract!Grant, Waiting
  <2> QED  BY <1>3, <2>1, <2>2 DEF Test
<1>4. ASSUME NEW t \in Threads, WakeSpuriously(t)
      PROVE  count' = count /\ Waiting' = Waiting
  BY <1>0, <1>0a, <1>4 DEF WakeSpuriously, TypeOK
<1>5. ASSUME NEW t \in Threads, Increment(t)
      PROVE  Abstract!Next
  <2>1. count' = count + 1 /\ Waiting' = Waiting
    BY <1>0, <1>0a, <1>5 DEF Increment, TypeOK
  <2> QED  BY <2>1 DEF Abstract!Next, Abstract!Signal, Waiting
<1>6. ASSUME NEW t \in Threads, NotifyOne(t)
      PROVE  count' = count /\ Waiting' = Waiting
  <2>1. CASE pc' = [pc EXCEPT ![t] = "idle"]
    BY <1>0, <1>0a, <1>6, <2>1 DEF NotifyOne, TypeOK
  <2>2. ASSUME NEW u \in At("asleep"),
               pc' = [pc EXCEPT ![t] = "idle", ![u] = "p_lock"]
        PROVE  count' = count /\ Waiting' = Waiting
    BY <1>0, <1>0a, <1>6, <2>2 DEF NotifyOne, TypeOK, At
  <2> QED  BY <1>6, <2>1, <2>2 DEF NotifyOne
<1>7. ASSUME NEW t \in Threads, TryP(t)
      PROVE  Abstract!Next
  <2>1. count > 0 /\ count' = count - 1 /\ Waiting' = Waiting
    BY <1>0, <1>0a, <1>7 DEF TryP
  <2> QED  BY <2>1 DEF Abstract!Next, Abstract!Take, Waiting
<1>8. CASE UNCHANGED vars
  BY <1>0, <1>0a, <1>8 DEF vars
<1> QED  BY <1>1, <1>2, <1>3, <1>4, <1>5, <1>6, <1>7, <1>8 DEF Next, Step

(***************************************************************************)
(* The mutex and the condition variable together implement a counting      *)
(* semaphore.                                                              *)
(***************************************************************************)
THEOREM Implements == Spec => IsCountingSemaphore
<1> QED  BY InitImplements, StepImplements, Inductive, PTL
         DEF Spec, IsCountingSemaphore, Abstract!Spec
=============================================================================
