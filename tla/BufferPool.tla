----------------------------- MODULE BufferPool -----------------------------
(***************************************************************************)
(* The pool of frame buffers a NIC owns (header/buffer_pool.h), with the   *)
(* reference counter each buffer carries (header/buffer.h).                *)
(*                                                                         *)
(* alloc and free each take two steps that other threads can come between: *)
(* alloc waits on the semaphore _free_buffers and only then locks _mutex   *)
(* to claim a slot; free gives the slot back under _mutex and signals      *)
(* _free_buffers after it has released the lock.  Each critical section    *)
(* is one step, and so is each operation of the semaphore.                 *)
(*                                                                         *)
(* The clients are any threads that keep the contract of the pool: whoever *)
(* holds a buffer alone may set its counter to the number of threads it is *)
(* about to hand it to, and each of those frees it once.  `owed' counts    *)
(* the calls of free that the clients still have to make; it is a history  *)
(* variable, like `stops' and `nulls'.                                     *)
(***************************************************************************)
EXTENDS Integers, FiniteSets

CONSTANTS
  Threads,   \* the threads that allocate and free buffers
  SIZE,      \* the number of buffers
  MaxRefs,   \* bound on the argument of set_reference_counter
  MaxStops   \* bound on the number of calls of stop

ASSUME PoolAssumption ==
  /\ IsFiniteSet(Threads)
  /\ SIZE \in Nat \ {0}
  /\ MaxRefs \in Nat
  /\ MaxStops \in Nat

VARIABLES
  in_use,             \* _in_use
  reference_counter,  \* _buffers[i]->_reference_counter
  free_buffers,       \* the count of the semaphore _free_buffers
  pc,                 \* where a thread is in alloc ("scan") or free ("signal")
  owed,               \* per slot, calls of free the clients have yet to make
  stops,              \* calls of stop so far
  nulls               \* calls of alloc that returned nullptr so far

vars == <<in_use, reference_counter, free_buffers, pc, owed, stops, nulls>>

Slots == 0 .. SIZE - 1

FreeSlots == {i \in Slots : ~ in_use[i]}
Scanning  == {t \in Threads : pc[t] = "scan"}
Signaling == {t \in Threads : pc[t] = "signal"}

TypeOK ==
  /\ in_use \in [Slots -> BOOLEAN]
  /\ reference_counter \in [Slots -> Int]
  /\ free_buffers \in Nat
  /\ pc \in [Threads -> {"idle", "scan", "signal"}]
  /\ owed \in [Slots -> Nat]
  /\ stops \in 0 .. MaxStops
  /\ nulls \in Nat

-----------------------------------------------------------------------------
Init ==
  /\ in_use = [i \in Slots |-> FALSE]
  /\ reference_counter = [i \in Slots |-> 0]
  /\ free_buffers = SIZE
  /\ pc = [t \in Threads |-> "idle"]
  /\ owed = [i \in Slots |-> 0]
  /\ stops = 0
  /\ nulls = 0

\* A plausible slip in alloc: going on without waiting for a free buffer.
AllocWaitUnguarded(t) ==
  /\ pc[t] = "idle"
  /\ free_buffers' = free_buffers - 1
  /\ pc' = [pc EXCEPT ![t] = "scan"]
  /\ UNCHANGED <<in_use, reference_counter, owed, stops, nulls>>

\* alloc: _free_buffers.p() returns.
AllocWait(t) ==
  /\ pc[t] = "idle"
  /\ free_buffers > 0
  /\ free_buffers' = free_buffers - 1
  /\ pc' = [pc EXCEPT ![t] = "scan"]
  /\ UNCHANGED <<in_use, reference_counter, owed, stops, nulls>>

\* The slot the loop of alloc stops at.
FirstFree(i) == ~ in_use[i] /\ \A j \in 0 .. i - 1 : in_use[j]

\* alloc: the scan for a free slot under _mutex, which claims the first one ...
AllocScan(t) ==
  /\ pc[t] = "scan"
  /\ \E i \in Slots :
       /\ FirstFree(i)
       /\ in_use' = [in_use EXCEPT ![i] = TRUE]
       /\ reference_counter' = [reference_counter EXCEPT ![i] = 1]
       /\ owed' = [owed EXCEPT ![i] = 1]
  /\ pc' = [pc EXCEPT ![t] = "idle"]
  /\ UNCHANGED <<free_buffers, stops, nulls>>

\* ... and falls through to "return nullptr" when every slot is taken.
AllocNull(t) ==
  /\ pc[t] = "scan"
  /\ FreeSlots = {}
  /\ nulls' = nulls + 1
  /\ pc' = [pc EXCEPT ![t] = "idle"]
  /\ UNCHANGED <<in_use, reference_counter, free_buffers, owed, stops>>

\* Buffer::set_reference_counter, by the only holder of slot i.
SetReferenceCounter(i, n) ==
  /\ reference_counter' = [reference_counter EXCEPT ![i] = n]
  /\ owed[i] = 1
  /\ owed' = [owed EXCEPT ![i] = n]
  /\ UNCHANGED <<in_use, free_buffers, pc, stops, nulls>>

\* Plausible slips in free: giving the slot back while it is still referenced,
\* and signalling although the slot was not given back.
FreeScanEager(t, i) ==
  /\ pc[t] = "idle" /\ owed[i] > 0
  /\ reference_counter' = [reference_counter EXCEPT ![i] = @ - 1]
  /\ owed' = [owed EXCEPT ![i] = @ - 1]
  /\ in_use' = [in_use EXCEPT ![i] = FALSE]
  /\ pc' = [pc EXCEPT ![t] = IF in_use[i] THEN "signal" ELSE "idle"]
  /\ UNCHANGED <<free_buffers, stops, nulls>>

FreeScanAlwaysSignals(t, i) ==
  /\ pc[t] = "idle" /\ owed[i] > 0
  /\ reference_counter' = [reference_counter EXCEPT ![i] = @ - 1]
  /\ owed' = [owed EXCEPT ![i] = @ - 1]
  /\ in_use' = [in_use EXCEPT ![i] = @ /\ reference_counter[i] > 1]
  /\ pc' = [pc EXCEPT ![t] = "signal"]
  /\ UNCHANGED <<free_buffers, stops, nulls>>

\* free: the counter goes down under _mutex and the last reference gives the
\* slot back; was_in_use decides whether a signal is due.
FreeScan(t, i) ==
  /\ pc[t] = "idle"
  /\ reference_counter' = [reference_counter EXCEPT ![i] = @ - 1]
  /\ owed[i] > 0
  /\ owed' = [owed EXCEPT ![i] = @ - 1]
  /\ IF reference_counter[i] - 1 <= 0
       THEN /\ in_use' = [in_use EXCEPT ![i] = FALSE]
            /\ pc' = [pc EXCEPT ![t] = IF in_use[i] THEN "signal" ELSE "idle"]
       ELSE UNCHANGED <<in_use, pc>>
  /\ UNCHANGED <<free_buffers, stops, nulls>>

\* free: _free_buffers.v(), after _mutex was released.
FreeSignal(t) ==
  /\ pc[t] = "signal"
  /\ free_buffers' = free_buffers + 1
  /\ pc' = [pc EXCEPT ![t] = "idle"]
  /\ UNCHANGED <<in_use, reference_counter, owed, stops, nulls>>

\* stop: one signal without a slot, to release a thread blocked in alloc.
Stop ==
  /\ stops < MaxStops
  /\ stops' = stops + 1
  /\ free_buffers' = free_buffers + 1
  /\ UNCHANGED <<in_use, reference_counter, pc, owed, nulls>>

Next ==
  \/ \E t \in Threads : \/ AllocWait(t) \/ AllocScan(t) \/ AllocNull(t)
                        \/ FreeSignal(t)
                        \/ \E i \in Slots : FreeScan(t, i)
  \/ \E i \in Slots, n \in 1 .. MaxRefs : SetReferenceCounter(i, n)
  \/ Stop

Spec == Init /\ [][Next]_vars

-----------------------------------------------------------------------------
(***************************************************************************)
(* A buffer is taken exactly while somebody still has to free it, and its  *)
(* counter is then the exact number of frees to come: it can neither be    *)
(* handed out a second time while a holder reads it nor stay taken after   *)
(* its last holder is done (alloc, free, set_reference_counter).           *)
(***************************************************************************)
ExactReferences ==
  \A i \in Slots : /\ in_use[i] <=> owed[i] > 0
                   /\ in_use[i] => reference_counter[i] = owed[i]

(***************************************************************************)
(* The semaphore never drifts from the slots: its count, plus the threads  *)
(* between its p() and their scan, plus those between giving a slot back   *)
(* and their v(), is the number of free slots, except for the tokens that  *)
(* stop() has added and no failed alloc has used up.                       *)
(***************************************************************************)
Conservation ==
  free_buffers + Cardinality(Scanning) + Cardinality(Signaling) + nulls
    = Cardinality(FreeSlots) + stops

(***************************************************************************)
(* Each call of stop() makes at most one alloc return nullptr, and no      *)
(* alloc does so before: a sender or the receiving thread that sees a null *)
(* buffer can conclude that the NIC is shutting down.                      *)
(***************************************************************************)
NullOnlyByStop == nulls <= stops
=============================================================================
