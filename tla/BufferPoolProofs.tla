-------------------------- MODULE BufferPoolProofs --------------------------
(***************************************************************************)
(* Proofs about BufferPool, for any finite set of threads and any number   *)
(* of buffers.                                                             *)
(*                                                                         *)
(* The inductive invariant is TypeOK /\ ExactReferences /\ Conservation.   *)
(* NullOnlyByStop is not inductive by itself: that a failed alloc uses up  *)
(* a token of stop() follows from Conservation, because a thread that      *)
(* scans a full pool holds a token that no free slot accounts for.         *)
(***************************************************************************)
EXTENDS BufferPool, FiniteSetTheorems, TLAPS

IInv == TypeOK /\ ExactReferences /\ Conservation /\ NullOnlyByStop

\* The sets whose sizes Conservation relates are finite.
LEMMA FiniteParts ==
  /\ IsFiniteSet(Scanning) /\ IsFiniteSet(Signaling) /\ IsFiniteSet(FreeSlots)
  /\ IsFiniteSet(Slots) /\ Cardinality(Slots) = SIZE
  /\ Cardinality(Scanning) \in Nat
  /\ Cardinality(Signaling) \in Nat
  /\ Cardinality(FreeSlots) \in Nat
<1>1. IsFiniteSet(Slots) /\ Cardinality(Slots) = SIZE
  BY FS_Interval, PoolAssumption DEF Slots
<1>2. Scanning \subseteq Threads /\ Signaling \subseteq Threads
  BY DEF Scanning, Signaling
<1>3. FreeSlots \subseteq Slots
  BY DEF FreeSlots
<1>4. IsFiniteSet(Scanning) /\ IsFiniteSet(Signaling) /\ IsFiniteSet(FreeSlots)
  BY <1>1, <1>2, <1>3, FS_Subset, PoolAssumption
<1> QED  BY <1>1, <1>4, FS_CardinalityType

\* What a change of one thread's pc does to the size of the set of threads
\* at place p: one more if it goes there, one less if it comes from there.
LEMMA PcChange ==
  ASSUME pc \in [Threads -> {"idle", "scan", "signal"}], NEW t \in Threads,
         NEW c \in {"idle", "scan", "signal"},
         pc' = [pc EXCEPT ![t] = c], pc[t] # c
  PROVE  /\ pc' \in [Threads -> {"idle", "scan", "signal"}]
         /\ Cardinality(Scanning')
              = CASE c = "scan"     -> Cardinality(Scanning) + 1
                  [] pc[t] = "scan" -> Cardinality(Scanning) - 1
                  [] OTHER          -> Cardinality(Scanning)
         /\ Cardinality(Signaling')
              = CASE c = "signal"     -> Cardinality(Signaling) + 1
                  [] pc[t] = "signal" -> Cardinality(Signaling) - 1
                  [] OTHER            -> Cardinality(Signaling)
<1>1. /\ Cardinality(Scanning \cup {t})
           = IF t \in Scanning THEN Cardinality(Scanning) ELSE Cardinality(Scanning) + 1
      /\ Cardinality(Scanning \ {t})
           = IF t \in Scanning THEN Cardinality(Scanning) - 1 ELSE Cardinality(Scanning)
  BY FiniteParts, FS_AddElement, FS_RemoveElement
<1>2. /\ Cardinality(Signaling \cup {t})
           = IF t \in Signaling THEN Cardinality(Signaling) ELSE Cardinality(Signaling) + 1
      /\ Cardinality(Signaling \ {t})
           = IF t \in Signaling THEN Cardinality(Signaling) - 1 ELSE Cardinality(Signaling)
  BY FiniteParts, FS_AddElement, FS_RemoveElement
<1>3. pc' \in [Threads -> {"idle", "scan", "signal"}]
  OBVIOUS
<1>4. /\ t \in Scanning <=> pc[t] = "scan"
      /\ t \in Signaling <=> pc[t] = "signal"
  BY DEF Scanning, Signaling
<1>5. /\ Scanning' = IF c = "scan" THEN Scanning \cup {t} ELSE Scanning \ {t}
      /\ Signaling' = IF c = "signal" THEN Signaling \cup {t} ELSE Signaling \ {t}
  BY DEF Scanning, Signaling
<1> QED  BY <1>1, <1>2, <1>3, <1>4, <1>5

LEMMA InitIInv == Init => IInv
<1> SUFFICES ASSUME Init PROVE IInv
  OBVIOUS
<1>1. TypeOK
  BY PoolAssumption DEF Init, TypeOK
<1>2. ExactReferences
  BY DEF Init, ExactReferences
<1>3. Scanning = {} /\ Signaling = {} /\ FreeSlots = Slots
  BY DEF Init, Scanning, Signaling, FreeSlots
<1>4. Conservation
  BY <1>3, FiniteParts, FS_EmptySet, PoolAssumption DEF Init, Conservation
<1>5. NullOnlyByStop
  BY DEF Init, NullOnlyByStop
<1> QED  BY <1>1, <1>2, <1>4, <1>5 DEF IInv

LEMMA StepIInv == IInv /\ [Next]_vars => IInv'
<1> SUFFICES ASSUME TypeOK, ExactReferences, Conservation, NullOnlyByStop,
                    [Next]_vars
             PROVE  IInv'
  BY DEF IInv
<1> USE PoolAssumption
<1>1. ASSUME NEW t \in Threads, AllocWait(t)
      PROVE  IInv'
  <2>1. /\ Cardinality(Scanning') = Cardinality(Scanning) + 1
        /\ Cardinality(Signaling') = Cardinality(Signaling)
        /\ pc' \in [Threads -> {"idle", "scan", "signal"}]
    BY <1>1, PcChange, FiniteParts DEF AllocWait, TypeOK
  <2>2. FreeSlots' = FreeSlots
    BY <1>1 DEF AllocWait, FreeSlots
  <2>3. TypeOK'
    BY <1>1, <2>1 DEF AllocWait, TypeOK
  <2>4. ExactReferences' /\ NullOnlyByStop'
    BY <1>1 DEF AllocWait, ExactReferences, NullOnlyByStop
  <2>5. Conservation'
    BY <1>1, <2>1, <2>2, FiniteParts DEF AllocWait, TypeOK, Conservation
  <2> QED  BY <2>3, <2>4, <2>5 DEF IInv
<1>2. ASSUME NEW t \in Threads, AllocScan(t)
      PROVE  IInv'
  <2>1. PICK i \in Slots :
          /\ FirstFree(i)
          /\ in_use' = [in_use EXCEPT ![i] = TRUE]
          /\ reference_counter' = [reference_counter EXCEPT ![i] = 1]
          /\ owed' = [owed EXCEPT ![i] = 1]
    BY <1>2 DEF AllocScan
  <2>2. /\ Cardinality(Scanning') = Cardinality(Scanning) - 1
        /\ Cardinality(Signaling') = Cardinality(Signaling)
        /\ pc' \in [Threads -> {"idle", "scan", "signal"}]
    BY <1>2, PcChange, FiniteParts DEF AllocScan, TypeOK
  <2>3. FreeSlots' = FreeSlots \ {i} /\ i \in FreeSlots
    BY <2>1 DEF FreeSlots, FirstFree, TypeOK
  <2>4. Cardinality(FreeSlots') = Cardinality(FreeSlots) - 1
    BY <2>3, FiniteParts, FS_RemoveElement
  <2>5. TypeOK'
    BY <1>2, <2>1, <2>2 DEF AllocScan, TypeOK
  <2>6. ExactReferences' /\ NullOnlyByStop'
    BY <1>2, <2>1 DEF AllocScan, TypeOK, ExactReferences, NullOnlyByStop
  <2>7. Conservation'
    BY <1>2, <2>2, <2>4, FiniteParts DEF AllocScan, TypeOK, Conservation
  <2> QED  BY <2>5, <2>6, <2>7 DEF IInv
<1>3. ASSUME NEW t \in Threads, AllocNull(t)
      PROVE  IInv'
  <2>1. /\ Cardinality(Scanning') = Cardinality(Scanning) - 1
        /\ Cardinality(Signaling') = Cardinality(Signaling)
        /\ pc' \in [Threads -> {"idle", "scan", "signal"}]
    BY <1>3, PcChange, FiniteParts DEF AllocNull, TypeOK
  <2>2. FreeSlots' = FreeSlots /\ Cardinality(FreeSlots) = 0
    BY <1>3, FS_EmptySet DEF AllocNull, FreeSlots
  \* t holds a token although no slot is free: stop() put it there.
  <2>3. Cardinality(Scanning) >= 1
    <3>1. t \in Scanning
      BY <1>3 DEF AllocNull, Scanning
    <3> QED  BY <3>1, FiniteParts, FS_EmptySet
  <2>4. TypeOK'
    BY <1>3, <2>1 DEF AllocNull, TypeOK
  <2>5. ExactReferences'
    BY <1>3 DEF AllocNull, ExactReferences
  <2>6. Conservation'
    BY <1>3, <2>1, <2>2, FiniteParts DEF AllocNull, TypeOK, Conservation
  <2>7. NullOnlyByStop'
    BY <1>3, <2>2, <2>3, FiniteParts
       DEF AllocNull, TypeOK, Conservation, NullOnlyByStop
  <2> QED  BY <2>4, <2>5, <2>6, <2>7 DEF IInv
<1>4. ASSUME NEW t \in Threads, FreeSignal(t)
      PROVE  IInv'
  <2>1. /\ Cardinality(Scanning') = Cardinality(Scanning)
        /\ Cardinality(Signaling') = Cardinality(Signaling) - 1
        /\ pc' \in [Threads -> {"idle", "scan", "signal"}]
    BY <1>4, PcChange, FiniteParts DEF FreeSignal, TypeOK
  <2>2. FreeSlots' = FreeSlots
    BY <1>4 DEF FreeSignal, FreeSlots
  <2>3. TypeOK'
    BY <1>4, <2>1 DEF FreeSignal, TypeOK
  <2>4. ExactReferences' /\ NullOnlyByStop'
    BY <1>4 DEF FreeSignal, ExactReferences, NullOnlyByStop
  <2>5. Conservation'
    BY <1>4, <2>1, <2>2, FiniteParts DEF FreeSignal, TypeOK, Conservation
  <2> QED  BY <2>3, <2>4, <2>5 DEF IInv
<1>5. ASSUME NEW t \in Threads, NEW i \in Slots, FreeScan(t, i)
      PROVE  IInv'
  <2>1. in_use[i] = TRUE /\ reference_counter[i] = owed[i] /\ owed[i] > 0
    BY <1>5 DEF FreeScan, TypeOK, ExactReferences
  <2>2. CASE owed[i] = 1
    <3>1. /\ in_use' = [in_use EXCEPT ![i] = FALSE]
          /\ pc' = [pc EXCEPT ![t] = "signal"]
      BY <1>5, <2>1, <2>2 DEF FreeScan, TypeOK
    <3>2. /\ Cardinality(Scanning') = Cardinality(Scanning)
          /\ Cardinality(Signaling') = Cardinality(Signaling) + 1
          /\ pc' \in [Threads -> {"idle", "scan", "signal"}]
      BY <1>5, <3>1, PcChange, FiniteParts DEF FreeScan, TypeOK
    <3>3. FreeSlots' = FreeSlots \cup {i} /\ i \notin FreeSlots
      BY <2>1, <3>1 DEF FreeSlots, TypeOK
    <3>4. Cardinality(FreeSlots') = Cardinality(FreeSlots) + 1
      BY <3>3, FiniteParts, FS_AddElement
    <3>5. TypeOK'
      BY <1>5, <3>1, <3>2 DEF FreeScan, TypeOK
    <3>6. ExactReferences' /\ NullOnlyByStop'
      BY <1>5, <2>1, <2>2, <3>1
         DEF FreeScan, TypeOK, ExactReferences, NullOnlyByStop
    <3>7. Conservation'
      BY <1>5, <3>2, <3>4, FiniteParts DEF FreeScan, TypeOK, Conservation
    <3> QED  BY <3>5, <3>6, <3>7 DEF IInv
  <2>3. CASE owed[i] # 1
    <3>1. UNCHANGED <<in_use, pc>> /\ owed[i] > 1
      BY <1>5, <2>1, <2>3 DEF FreeScan, TypeOK
    <3>2. /\ Scanning' = Scanning /\ Signaling' = Signaling
          /\ FreeSlots' = FreeSlots
      BY <3>1 DEF Scanning, Signaling, FreeSlots
    <3>3. TypeOK'
      BY <1>5, <3>1 DEF FreeScan, TypeOK
    <3>4. ExactReferences' /\ NullOnlyByStop'
      BY <1>5, <2>1, <3>1
         DEF FreeScan, TypeOK, ExactReferences, NullOnlyByStop
    <3>5. Conservation'
      BY <1>5, <3>2 DEF FreeScan, Conservation
    <3> QED  BY <3>3, <3>4, <3>5 DEF IInv
  <2> QED  BY <2>2, <2>3
<1>6. ASSUME NEW i \in Slots, NEW n \in 1 .. MaxRefs, SetReferenceCounter(i, n)
      PROVE  IInv'
  <2>1. /\ Scanning' = Scanning /\ Signaling' = Signaling
        /\ FreeSlots' = FreeSlots
    BY <1>6 DEF SetReferenceCounter, Scanning, Signaling, FreeSlots
  <2>2. TypeOK'
    BY <1>6 DEF SetReferenceCounter, TypeOK
  <2>3. ExactReferences' /\ NullOnlyByStop'
    BY <1>6 DEF SetReferenceCounter, TypeOK, ExactReferences, NullOnlyByStop
  <2>4. Conservation'
    BY <1>6, <2>1 DEF SetReferenceCounter, Conservation
  <2> QED  BY <2>2, <2>3, <2>4 DEF IInv
<1>7. ASSUME Stop
      PROVE  IInv'
  <2>1. /\ Scanning' = Scanning /\ Signaling' = Signaling
        /\ FreeSlots' = FreeSlots
    BY <1>7 DEF Stop, Scanning, Signaling, FreeSlots
  <2>2. TypeOK'
    BY <1>7 DEF Stop, TypeOK
  <2>3. ExactReferences' /\ NullOnlyByStop'
    BY <1>7 DEF Stop, TypeOK, ExactReferences, NullOnlyByStop
  <2>4. Conservation'
    BY <1>7, <2>1, FiniteParts DEF Stop, TypeOK, Conservation
  <2> QED  BY <2>2, <2>3, <2>4 DEF IInv
<1>8. CASE UNCHANGED vars
  BY <1>8 DEF vars, IInv, TypeOK, ExactReferences, Conservation,
              NullOnlyByStop, Scanning, Signaling, FreeSlots
<1> QED  BY <1>1, <1>2, <1>3, <1>4, <1>5, <1>6, <1>7, <1>8 DEF Next

\* The inductive invariant holds of every run.
LEMMA Inductive == Spec => []IInv
<1> QED  BY InitIInv, StepIInv, PTL DEF Spec

\* A pool that nobody uses is as it was at first, up to what stop() added.
LEMMA UnusedIsFree ==
  IInv /\ (\A i \in Slots : owed[i] = 0) /\ (\A t \in Threads : pc[t] = "idle")
    /\ nulls = stops => free_buffers = SIZE
<1> SUFFICES ASSUME IInv, \A i \in Slots : owed[i] = 0,
                    \A t \in Threads : pc[t] = "idle", nulls = stops
             PROVE  free_buffers = SIZE
  OBVIOUS
<1>1. Scanning = {} /\ Signaling = {}
  BY DEF Scanning, Signaling
<1>2. FreeSlots = Slots
  BY DEF FreeSlots, IInv, ExactReferences
<1>3. Cardinality(Scanning) = 0 /\ Cardinality(Signaling) = 0
  BY <1>1, FiniteParts, FS_EmptySet
<1>4. Cardinality(FreeSlots) = SIZE
  BY <1>2, FiniteParts
<1>5. free_buffers \in Nat /\ stops \in Nat
  BY PoolAssumption DEF IInv, TypeOK
<1> QED  BY <1>3, <1>4, <1>5, PoolAssumption DEF IInv, Conservation

(***************************************************************************)
(* The state of the pool keeps its types: in particular the semaphore's    *)
(* count and the number of frees still due never go below zero.            *)
(***************************************************************************)
THEOREM TypeCorrect == Spec => []TypeOK
<1>1. IInv => TypeOK
  BY DEF IInv
<1> QED  BY <1>1, Inductive, PTL

(***************************************************************************)
(* alloc, free and set_reference_counter keep every taken buffer's counter *)
(* equal to the frees still due, whatever the interleaving.                *)
(***************************************************************************)
THEOREM ReferencesAreExact == Spec => []ExactReferences
<1>1. IInv => ExactReferences
  BY DEF IInv
<1> QED  BY <1>1, Inductive, PTL

(***************************************************************************)
(* The semaphore of the pool and its slots never drift apart.              *)
(***************************************************************************)
THEOREM TokensAreConserved == Spec => []Conservation
<1>1. IInv => Conservation
  BY DEF IInv
<1> QED  BY <1>1, Inductive, PTL

(***************************************************************************)
(* alloc returns nullptr at most once per call of stop().                  *)
(***************************************************************************)
THEOREM NullsAreStops == Spec => []NullOnlyByStop
<1>1. IInv => NullOnlyByStop
  BY DEF IInv
<1> QED  BY <1>1, Inductive, PTL
=============================================================================
