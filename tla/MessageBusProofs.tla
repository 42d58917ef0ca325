-------------------------- MODULE MessageBusProofs --------------------------
(***************************************************************************)
(* Theorems about MessageBus, for any number of senders, receivers and     *)
(* buffers: its types; that receivers find what they were signalled for;   *)
(* that buffers are not reused under them; that the bus keeps the contract *)
(* of BufferPool, and what follows from the theorems about the pool; that  *)
(* messages come in order; and whose origin they may be given.             *)
(***************************************************************************)
EXTENDS MessageBus, FiniteSetTheorems, SequenceTheorems, TLAPS

-----------------------------------------------------------------------------
\* A thread that needs its message, its buffer's contents or its pair has it.
OutPlaces == {"fill", "raw", "nextid", "map", "notify", "erase", "update", "post"}
FilledPlaces == OutPlaces \ {"fill", "raw"}
PairPlaces == ReceiverPlaces \ {"wait", "remove"}

Equipped ==
  /\ \A t \in Producers : pc[t] \in OutPlaces => out[t] \in Messages
  /\ \A t \in Senders : pc[t] \in {"alloc", "scan"} => out[t] \in Messages
  /\ \A t \in Producers : pc[t] \in FilledPlaces => frame[buf[t]] \in Messages
  /\ \A r \in Receivers : \A j \in DOMAIN queue[r] :
       frame[queue[r][j].slot] \in Messages
  /\ \A r \in Receivers :
       pc[r] \in PairPlaces => /\ pair[r] \in Pairs
                               /\ frame[pair[r].slot] \in Messages

TypeInv == TypeOK /\ Equipped

LEMMA Basics ==
  /\ 0 \in Slots
  /\ Receivers = 1 .. Len(PortOf) /\ IsFiniteSet(Receivers) /\ IsFiniteSet(Producers)
  /\ Receivers \cap Producers = {} /\ Worker \in Producers /\ Worker \notin Senders
  /\ Threads = Producers \cup Receivers /\ Producers = Senders \cup {Worker}
<1>1. /\ Receivers = 1 .. Len(PortOf) /\ Len(PortOf) \in Nat
      /\ 0 \in Slots
  BY BusAssumption DEF Receivers, Slots
<1>2. IsFiniteSet(Receivers)
  BY <1>1, FS_Interval
<1>3. IsFiniteSet(Producers)
  BY BusAssumption, FS_Singleton, FS_Union DEF Producers
<1>. QED
  BY <1>1, <1>2, <1>3, BusAssumption DEF Producers, Threads

LEMMA Taking ==
  ASSUME NEW S, NEW s \in Seq(S), s # <<>>
  PROVE  /\ Head(s) = s[1] /\ 1 \in DOMAIN s
         /\ Tail(s) \in Seq(S) /\ Len(s) = Len(Tail(s)) + 1
         /\ \A j \in DOMAIN Tail(s) : j + 1 \in DOMAIN s /\ Tail(s)[j] = s[j + 1]
<1>1. /\ Len(s) \in Nat \ {0} /\ DOMAIN s = 1 .. Len(s)
  BY EmptySeq, LenProperties
<1>2. /\ Tail(s) \in Seq(S) /\ Len(Tail(s)) = Len(s) - 1
      /\ \A j \in 1 .. Len(Tail(s)) : Tail(s)[j] = s[j + 1]
  BY HeadTailProperties
<1>3. DOMAIN Tail(s) = 1 .. Len(Tail(s)) /\ Len(Tail(s)) \in Nat
  BY <1>2, LenProperties
<1>4. Head(s) = s[1]
  BY <1>1, HeadTailOfSubSeq, SubSeqFull
<1>. QED
  BY <1>1, <1>2, <1>3, <1>4

LEMMA Adding ==
  ASSUME NEW S, NEW s \in Seq(S), NEW e \in S
  PROVE  /\ Append(s, e) \in Seq(S) /\ Len(Append(s, e)) = Len(s) + 1
         /\ \A j \in DOMAIN Append(s, e) :
              \/ j \in DOMAIN s /\ Append(s, e)[j] = s[j]
              \/ j = Len(s) + 1 /\ Append(s, e)[j] = e
         /\ \A j \in DOMAIN s : j \in DOMAIN Append(s, e) /\ Append(s, e)[j] = s[j]
         /\ Len(s) + 1 \in DOMAIN Append(s, e) /\ Append(s, e)[Len(s) + 1] = e
  BY AppendProperties, LenProperties

LEMMA TypeInit == Init => TypeInv
<1>. SUFFICES ASSUME Init PROVE TypeInv
  OBVIOUS
<1>1. PoolOK /\ MapOK /\ SocketOK
  <2>1. PoolOK
    BY BusAssumption DEF Init, PoolOK
  <2>2. MapOK
    BY DEF Init, MapOK
  <2>3. SocketOK
    <3>1. wire \in 0 .. MaxFrames /\ sem \in Nat
      BY BusAssumption DEF Init
    <3>2. sigio \in BOOLEAN /\ missed \in BOOLEAN
      BY Zenon DEF Init
    <3>. QED
      BY <3>1, <3>2 DEF SocketOK
  <2>. QED
    BY <2>1, <2>2, <2>3
<1>2. PlacesOK
  BY Basics DEF Init, PlacesOK, ProducerPlaces, ReceiverPlaces
<1>3. QueuesOK
  BY EmptySeq DEF Init, QueuesOK
<1>4. ProducersOK /\ ReceiversOK
  BY Basics DEF Init, ProducersOK, ReceiversOK
<1>5. frame \in [Slots -> Messages \cup {None}]
  BY DEF Init
<1>6. Equipped
  BY Basics DEF Init, Equipped, OutPlaces, FilledPlaces, PairPlaces, ReceiverPlaces
<1>. QED
  BY <1>1, <1>2, <1>3, <1>4, <1>5, <1>6 DEF TypeInv, TypeOK

-----------------------------------------------------------------------------
\* The steps in which a part of the state changes.

LEMMA PoolChanges ==
  ASSUME [Next]_vars
  PROVE  \/ UNCHANGED pool
         \/ \E t \in Producers : AllocWait(t) \/ AllocScan(t) \/ Notify(t)
         \/ \E t \in Producers : ProducerFree(t)
         \/ \E r \in Receivers : ReceiverFree(r)
         \/ \E t \in Threads : FreeSignal(t)
  BY Basics DEF Next, vars, Send, Work, Receive, Produce, NextId, MapWrite, Update,
     Post, Fill, RawSend, StartSend, Arrive, HandleSignal, Wake, ReceiveFrame,
     ReceiveNothing, Erase, AwaitPost, Remove, Copy, Length, Ignore, GetMessageInfo,
     UseInfo

LEMMA FrameChanges ==
  ASSUME [Next]_vars
  PROVE  \/ UNCHANGED frame
         \/ \E t \in Senders : Fill(t)
         \/ ReceiveFrame(Worker)
  BY DEF Next, vars, Send, Work, Receive, Produce, NextId, MapWrite, Update,
     Post, RawSend, StartSend, Arrive, HandleSignal, Wake, AllocWait, AllocScan,
     Notify, ProducerFree, ReceiverFree, Release, FreeSignal,
     ReceiveNothing, Erase, AwaitPost, Remove, Copy, Length, Ignore, GetMessageInfo,
     UseInfo

LEMMA MapChanges ==
  ASSUME [Next]_vars
  PROVE  \/ UNCHANGED map
         \/ \E t \in Producers : NextId(t) \/ MapWrite(t)
         \/ Erase(Worker)
         \/ \E r \in Receivers : UseInfo(r)
  BY Basics DEF Next, vars, Send, Work, Receive, Produce, Update,
     Post, RawSend, StartSend, Arrive, HandleSignal, Wake, AllocWait, AllocScan,
     Notify, ProducerFree, ReceiverFree, Release, FreeSignal, Fill, ReceiveFrame,
     ReceiveNothing, AwaitPost, Remove, Copy, Length, Ignore, GetMessageInfo

LEMMA QueueChanges ==
  ASSUME [Next]_vars
  PROVE  \/ UNCHANGED queues
         \/ \E t \in Producers : Update(t) \/ Post(t)
         \/ \E r \in Receivers : AwaitPost(r) \/ Remove(r)
  BY Basics DEF Next, vars, Send, Work, Receive, Produce, NextId, MapWrite,
     RawSend, StartSend, Arrive, HandleSignal, Wake, AllocWait, AllocScan,
     Notify, ProducerFree, ReceiverFree, Release, FreeSignal, Fill, ReceiveFrame,
     ReceiveNothing, Erase, Copy, Length, Ignore, GetMessageInfo, UseInfo

LEMMA SocketChanges ==
  ASSUME [Next]_vars
  PROVE  \/ UNCHANGED socket
         \/ Arrive \/ HandleSignal \/ Wake(Worker)
         \/ ReceiveFrame(Worker) \/ ReceiveNothing(Worker)
  BY DEF Next, vars, Send, Work, Receive, Produce, NextId, MapWrite, Update,
     Post, RawSend, StartSend, AllocWait, AllocScan,
     Notify, ProducerFree, ReceiverFree, Release, FreeSignal, Fill,
     Erase, AwaitPost, Remove, Copy, Length, Ignore, GetMessageInfo, UseInfo

-----------------------------------------------------------------------------
LEMMA PoolTypes ==
  ASSUME TypeInv, [Next]_vars
  PROVE  PoolOK'
<1>1. CASE UNCHANGED pool
  BY <1>1 DEF TypeInv, TypeOK, PoolOK, pool
<1>2. ASSUME NEW t \in Producers, AllocWait(t) \/ AllocScan(t)
      PROVE  PoolOK'
  <2>1. CASE AllocWait(t)
    BY <2>1 DEF TypeInv, TypeOK, PoolOK, AllocWait
  <2>2. CASE AllocScan(t)
    BY <2>2 DEF TypeInv, TypeOK, PoolOK, AllocScan
  <2>. QED
    BY <1>2, <2>1, <2>2
<1>3. ASSUME NEW t \in Producers, Notify(t)
      PROVE  PoolOK'
  <2>1. Matching(out[t]) \subseteq Receivers
    BY DEF Matching
  <2>2. Cardinality(Matching(out[t])) \in Nat
    BY <2>1, Basics, FS_Subset, FS_CardinalityType
  <2>3. /\ UNCHANGED <<in_use, free_buffers>>
        /\ \/ UNCHANGED reference_counter
           \/ reference_counter' =
                [reference_counter EXCEPT ![buf[t]] = Cardinality(Matching(out[t]))]
    BY <1>3 DEF Notify
  <2>. QED
    BY <2>2, <2>3 DEF TypeInv, TypeOK, PoolOK, Slots
<1>4. ASSUME NEW t \in Threads, NEW i \in Slots, Release(t, i)
      PROVE  PoolOK'
  BY <1>4 DEF TypeInv, TypeOK, PoolOK, Release
<1>5. ASSUME NEW t \in Threads, FreeSignal(t)
      PROVE  PoolOK'
  BY <1>5 DEF TypeInv, TypeOK, PoolOK, FreeSignal
<1>6. \A t \in Producers : buf[t] \in Slots
  BY DEF TypeInv, TypeOK, ProducersOK
<1>7. \A r \in Receivers : ReceiverFree(r) => pair[r].slot \in Slots
  BY DEF TypeInv, Equipped, PairPlaces, ReceiverPlaces, Pairs, ReceiverFree, Release
<1>. QED
  BY <1>1, <1>2, <1>3, <1>4, <1>5, <1>6, <1>7, PoolChanges, Basics
  DEF ProducerFree, ReceiverFree

\* What the worker finds in the socket.
LEMMA Finds ==
  ASSUME TypeInv, ReceiveFrame(Worker)
  PROVE  \E m \in Messages :
           /\ frame' = [frame EXCEPT ![buf[Worker]] = m]
           /\ out' = [out EXCEPT ![Worker] = m]
           /\ pc' \in {[pc EXCEPT ![Worker] = "free"], [pc EXCEPT ![Worker] = "nextid"]}
<1>. DEFINE M(k, to) == [from |-> Worker, n |-> sent[Worker] + 1, to |-> to,
                         len |-> k.len,
                         scope |-> IF k.class = "alien" THEN "alien" ELSE "external"]
<1>1. PICK k \in FrameKinds, to \in Destinations :
        /\ frame' = [frame EXCEPT ![buf[Worker]] = M(k, to)]
        /\ out' = [out EXCEPT ![Worker] = M(k, to)]
        /\ pc' = [pc EXCEPT ![Worker] = IF k.class = "drop" THEN "free" ELSE "nextid"]
  BY DEF ReceiveFrame, Goto
<1>2. sent[Worker] + 1 \in Nat
  BY Basics DEF TypeInv, TypeOK, ProducersOK
<1>3. M(k, to) \in Messages
  BY <1>2, Basics DEF Messages
<1>. QED
  BY <1>1, <1>3

LEMMA FrameTypes ==
  ASSUME TypeInv, [Next]_vars
  PROVE  frame' \in [Slots -> Messages \cup {None}]
<1>1. CASE UNCHANGED frame
  BY <1>1 DEF TypeInv, TypeOK
<1>2. ASSUME NEW t \in Senders, Fill(t)
      PROVE  frame' \in [Slots -> Messages \cup {None}]
  BY <1>2, Basics DEF TypeInv, TypeOK, Equipped, OutPlaces, Fill
<1>3. CASE ReceiveFrame(Worker)
  <2>1. PICK m \in Messages : frame' = [frame EXCEPT ![buf[Worker]] = m]
    BY <1>3, Finds
  <2>. QED
    BY <2>1 DEF TypeInv, TypeOK
<1>. QED
  BY <1>1, <1>2, <1>3, FrameChanges

LEMMA MapTypes ==
  ASSUME TypeInv, [Next]_vars
  PROVE  MapOK'
<1>1. CASE UNCHANGED map
  BY <1>1 DEF TypeInv, TypeOK, MapOK, map
<1>2. ASSUME NEW t \in Producers, NextId(t)
      PROVE  MapOK'
  <2>1. \A u \in Producers : u = t \/ Exposed(u) => out[u] \in Messages
    BY <1>2 DEF TypeInv, Equipped, OutPlaces, NextId, Exposed
  <2>2. rivals' \subseteq SUBSET Messages
    <3>1. \A u \in {p \in Producers \ {t} : Exposed(p)} : {out[t], out[u]} \subseteq Messages
      BY <2>1
    <3>. QED
      BY <1>2, <3>1 DEF NextId, Meets, TypeInv, TypeOK, MapOK
  <2>. QED
    BY <1>2, <2>2 DEF TypeInv, TypeOK, MapOK, NextId
<1>3. ASSUME NEW t \in Producers, MapWrite(t)
      PROVE  MapOK'
  BY <1>3 DEF TypeInv, TypeOK, MapOK, Equipped, OutPlaces, MapWrite, Assign
<1>4. CASE Erase(Worker)
  BY <1>4 DEF TypeInv, TypeOK, MapOK, Erase, Without
<1>5. ASSUME NEW r \in Receivers, UseInfo(r)
      PROVE  MapOK'
  <2>1. pair[r].id \in Nat /\ info[r] \in Messages \cup {None}
    BY <1>5 DEF TypeInv, TypeOK, ReceiversOK, Equipped, UseInfo, PairPlaces,
       ReceiverPlaces, Pairs
  <2>. QED
    BY <1>5, <2>1 DEF TypeInv, TypeOK, MapOK, UseInfo, Assign
<1>. QED
  BY <1>1, <1>2, <1>3, <1>4, <1>5, MapChanges

LEMMA SocketTypes ==
  ASSUME TypeInv, [Next]_vars
  PROVE  SocketOK'
<1>1. CASE UNCHANGED socket
  BY <1>1 DEF TypeInv, TypeOK, SocketOK, socket
<1>2. CASE Arrive \/ HandleSignal
  <2>1. wire \in Nat /\ sent[Worker] \in Nat /\ MaxFrames \in Nat
    BY Basics, BusAssumption DEF TypeInv, TypeOK, SocketOK, ProducersOK
  <2>2. CASE Arrive
    BY <2>1, <2>2 DEF TypeInv, TypeOK, SocketOK, Arrive
  <2>3. CASE HandleSignal
    <3>1. wire' \in 0 .. MaxFrames /\ sem' \in Nat
      BY <2>3 DEF HandleSignal, TypeInv, TypeOK, SocketOK
    <3>2. sigio' \in BOOLEAN /\ missed' \in BOOLEAN
      BY <2>3, Zenon DEF HandleSignal, TypeInv, TypeOK, SocketOK
    <3>. QED
      BY <3>1, <3>2 DEF SocketOK
  <2>. QED
    BY <1>2, <2>2, <2>3
<1>3. CASE Wake(Worker)
  BY <1>3 DEF TypeInv, TypeOK, SocketOK, Wake
<1>4. CASE ReceiveFrame(Worker) \/ ReceiveNothing(Worker)
  <2>1. /\ wire' = wire \/ (wire > 0 /\ wire' = wire - 1)
        /\ UNCHANGED <<sem, sigio>>
    <3>1. CASE ReceiveFrame(Worker)
      BY <3>1 DEF ReceiveFrame
    <3>2. CASE ReceiveNothing(Worker)
      <4>1. CASE UNCHANGED <<wire, sent>>
        BY <3>2, <4>1 DEF ReceiveNothing
      <4>2. CASE wire > 0 /\ wire' = wire - 1
        BY <3>2, <4>2 DEF ReceiveNothing
      <4>. QED
        BY <3>2, <4>1, <4>2 DEF ReceiveNothing
    <3>. QED
      BY <1>4, <3>1, <3>2
  <2>3. missed' \in BOOLEAN
    BY <1>4 DEF TypeInv, TypeOK, SocketOK, ReceiveFrame, ReceiveNothing
  <2>2. wire' \in 0 .. MaxFrames
    BY <2>1, BusAssumption DEF TypeInv, TypeOK, SocketOK
  <2>. QED
    BY <2>1, <2>2, <2>3 DEF TypeInv, TypeOK, SocketOK
<1>. QED
  BY <1>1, <1>2, <1>3, <1>4, SocketChanges

\* What is appended to a queue, and to which one.
LEMMA Updates ==
  ASSUME TypeInv, NEW t \in Producers, Update(t)
  PROVE  \E r \in Receivers, p \in Pairs :
           /\ pc[t] = "update" /\ First(r, rest[t])
           /\ p = [id |-> id[t], slot |-> buf[t], msg |-> out[t]]
           /\ queue' = [queue EXCEPT ![r] = Append(@, p)]
           /\ semaphore' = semaphore
  BY DEF TypeInv, TypeOK, ProducersOK, Equipped, OutPlaces, Update, Pairs

LEMMA QueueTypes ==
  ASSUME TypeInv, [Next]_vars
  PROVE  QueuesOK'
<1>0. QueuesOK
  BY DEF TypeInv, TypeOK
<1>1. CASE UNCHANGED queues
  BY <1>0, <1>1 DEF QueuesOK, queues
<1>2. ASSUME NEW t \in Producers, Update(t)
      PROVE  QueuesOK'
  <2>1. PICK r \in Receivers, p \in Pairs :
          /\ queue' = [queue EXCEPT ![r] = Append(@, p)]
          /\ semaphore' = semaphore
    BY <1>2, Updates
  <2>2. Append(queue[r], p) \in Seq(Pairs)
    BY <1>0, Adding DEF QueuesOK
  <2>. QED
    BY <1>0, <2>1, <2>2 DEF QueuesOK
<1>3. ASSUME NEW t \in Producers, Post(t)
      PROVE  QueuesOK'
  <2>1. PICK r \in Receivers : semaphore' = [semaphore EXCEPT ![r] = @ + 1]
    BY <1>3 DEF Post
  <2>. QED
    BY <1>0, <1>3, <2>1 DEF QueuesOK, Post
<1>4. ASSUME NEW r \in Receivers, AwaitPost(r)
      PROVE  QueuesOK'
  BY <1>0, <1>4 DEF QueuesOK, AwaitPost
<1>5. ASSUME NEW r \in Receivers, Remove(r)
      PROVE  QueuesOK'
  <2>1. Tail(queue[r]) \in Seq(Pairs)
    BY <1>0, <1>5, Taking DEF QueuesOK, Remove
  <2>. QED
    BY <1>0, <1>5, <2>1 DEF QueuesOK, Remove
<1>. QED
  BY <1>1, <1>2, <1>3, <1>4, <1>5, QueueChanges

-----------------------------------------------------------------------------
\* The threads: where they are, and what they keep.

LEMMA Going ==
  ASSUME PlacesOK, NEW t \in Threads, NEW place, Goto(t, place),
         t \in Producers => place \in ProducerPlaces,
         t \in Receivers => place \in ReceiverPlaces
  PROVE  PlacesOK'
  BY Basics DEF PlacesOK, Goto

ThreadsOK == PlacesOK /\ ProducersOK /\ ReceiversOK

LEMMA Returning ==
  ASSUME ThreadsOK, NEW t \in Threads, Return(t)
  PROVE  ThreadsOK'
<1>1. CASE t \in Receivers
  <2>1. PlacesOK'
    BY <1>1, Basics, Going DEF ThreadsOK, Return, ReceiverPlaces
  <2>2. ProducersOK' /\ ReceiversOK'
    BY <1>1 DEF ThreadsOK, Return, ProducersOK, ReceiversOK, producer
  <2>. QED
    BY <2>1, <2>2 DEF ThreadsOK
<1>2. CASE t \notin Receivers
  <2>1. PlacesOK'
    BY <1>2, Basics, Going DEF ThreadsOK, Return, ProducerPlaces
  <2>2. /\ out' = [out EXCEPT ![t] = None]
        /\ buf' = [buf EXCEPT ![t] = 0]
        /\ rest' = [rest EXCEPT ![t] = {}]
        /\ id' = [id EXCEPT ![t] = 0]
        /\ sent' = sent
    BY <1>2 DEF Return
  <2>3. rest' \in [Producers -> SUBSET Receivers]
    BY <2>2 DEF ThreadsOK, ProducersOK
  <2>4. buf' \in [Producers -> Slots] /\ id' \in [Producers -> Nat]
    BY <2>2, Basics DEF ThreadsOK, ProducersOK
  <2>5. out' \in [Producers -> Messages \cup {None}] /\ sent' \in [Producers -> Nat]
    BY <2>2 DEF ThreadsOK, ProducersOK
  <2>6. ReceiversOK'
    BY <1>2 DEF ThreadsOK, Return, ReceiversOK, receiver
  <2>. QED
    BY <2>1, <2>3, <2>4, <2>5, <2>6 DEF ThreadsOK, ProducersOK
<1>. QED
  BY <1>1, <1>2

LEMMA Freed ==
  ASSUME ThreadsOK, NEW t \in Threads, AfterFree(t)
  PROVE  ThreadsOK'
<1>1. CASE t \in Receivers
  <2>1. PlacesOK'
    BY <1>1, Basics, Going DEF ThreadsOK, AfterFree, ReceiverPlaces
  <2>. QED
    BY <1>1, <2>1 DEF ThreadsOK, AfterFree, ProducersOK, ReceiversOK, producer, receiver
<1>. QED
  BY <1>1, Returning DEF AfterFree

\* Steps that change nothing of a thread but its place.
LEMMA OnlyGoing ==
  ASSUME ThreadsOK, UNCHANGED <<producer, receiver>>, PlacesOK'
  PROVE  ThreadsOK'
  BY DEF ThreadsOK, ProducersOK, ReceiversOK, producer, receiver

LEMMA ProducerTypes ==
  ASSUME TypeInv, NEW t \in Producers, Produce(t) \/ Fill(t) \/ RawSend(t) \/ Erase(t)
  PROVE  ThreadsOK'
<1>0. ThreadsOK
  BY DEF TypeInv, TypeOK, ThreadsOK
<1>1. CASE AllocWait(t) \/ Update(t) \/ NextId(t) \/ MapWrite(t) \/ Fill(t)
           \/ RawSend(t) \/ Erase(t)
  <2>1. /\ UNCHANGED <<producer, receiver>>
        /\ \E place \in ProducerPlaces : Goto(t, place)
    BY <1>1 DEF AllocWait, Update, NextId, MapWrite, Fill, RawSend, Erase,
       ProducerPlaces
  <2>. QED
    BY <1>0, <2>1, Going, OnlyGoing, Basics DEF ThreadsOK
<1>2. CASE AllocScan(t)
  <2>1. PlacesOK'
    BY <1>0, <1>2, Going, Basics DEF ThreadsOK, AllocScan, ProducerPlaces
  <2>2. ProducersOK' /\ ReceiversOK'
    BY <1>0, <1>2 DEF ThreadsOK, ProducersOK, ReceiversOK, AllocScan, receiver
  <2>. QED
    BY <2>1, <2>2 DEF ThreadsOK
<1>3. CASE Notify(t)
  <2>1. \E place \in ProducerPlaces : Goto(t, place)
    BY <1>3 DEF Notify, ProducerPlaces
  <2>2. PlacesOK'
    BY <1>0, <2>1, Going, Basics DEF ThreadsOK
  <2>3. /\ id' = [id EXCEPT ![t] = attribute_map_id]
        /\ rest' = rest \/ rest' = [rest EXCEPT ![t] = Matching(out[t])]
        /\ UNCHANGED <<sent, out, buf, receiver>>
    BY <1>3 DEF Notify
  <2>4. Matching(out[t]) \subseteq Receivers /\ attribute_map_id \in Nat
    BY DEF Matching, TypeInv, TypeOK, MapOK
  <2>5. ProducersOK' /\ ReceiversOK'
    BY <1>0, <2>3, <2>4 DEF ThreadsOK, ProducersOK, ReceiversOK, receiver
  <2>. QED
    BY <2>2, <2>5 DEF ThreadsOK
<1>4. CASE Post(t)
  <2>1. CASE Return(t)
    BY <1>0, <2>1, Returning, Basics
  <2>2. CASE ~ Return(t)
    <3>1. PICK r \in Receivers :
            /\ rest' = [rest EXCEPT ![t] = @ \ {r}]
            /\ Goto(t, "update")
            /\ UNCHANGED <<sent, out, buf, id, receiver>>
      BY <1>4, <2>2 DEF Post
    <3>2. PlacesOK'
      BY <1>0, <3>1, Going, Basics DEF ThreadsOK, ProducerPlaces
    <3>3. ProducersOK' /\ ReceiversOK'
      BY <1>0, <3>1 DEF ThreadsOK, ProducersOK, ReceiversOK, receiver
    <3>. QED
      BY <3>2, <3>3 DEF ThreadsOK
  <2>. QED
    BY <2>1, <2>2
<1>5. CASE ProducerFree(t) \/ FreeSignal(t)
  <2>1. CASE AfterFree(t)
    BY <1>0, <2>1, Freed, Basics
  <2>2. CASE ~ AfterFree(t)
    BY <1>0, <1>5, <2>2, Going, OnlyGoing, Basics
    DEF ThreadsOK, ProducerFree, Release, FreeSignal, ProducerPlaces
  <2>. QED
    BY <2>1, <2>2
<1>. QED
  BY <1>1, <1>2, <1>3, <1>4, <1>5 DEF Produce

LEMMA WorkerTypes ==
  ASSUME TypeInv, Wake(Worker) \/ ReceiveFrame(Worker) \/ ReceiveNothing(Worker)
  PROVE  ThreadsOK'
<1>0. ThreadsOK
  BY DEF TypeInv, TypeOK, ThreadsOK
<1>1. CASE Wake(Worker)
  BY <1>0, <1>1, Going, OnlyGoing, Basics DEF ThreadsOK, Wake, ProducerPlaces
<1>2. CASE ReceiveFrame(Worker)
  <2>1. PICK m \in Messages :
          /\ out' = [out EXCEPT ![Worker] = m]
          /\ pc' \in {[pc EXCEPT ![Worker] = "free"], [pc EXCEPT ![Worker] = "nextid"]}
    BY <1>2, Finds
  <2>2. /\ sent' = [sent EXCEPT ![Worker] = @ + 1]
        /\ UNCHANGED <<buf, rest, id, receiver>>
    BY <1>2 DEF ReceiveFrame
  <2>3. PlacesOK'
    BY <1>0, <2>1, Going, Basics DEF ThreadsOK, Goto, ProducerPlaces
  <2>4. sent' \in [Producers -> Nat]
    BY <1>0, <2>2, Basics DEF ThreadsOK, ProducersOK
  <2>5. out' \in [Producers -> Messages \cup {None}]
    BY <1>0, <2>1 DEF ThreadsOK, ProducersOK
  <2>6. ReceiversOK'
    BY <1>0, <2>2 DEF ThreadsOK, ReceiversOK, receiver
  <2>. QED
    BY <1>0, <2>2, <2>3, <2>4, <2>5, <2>6 DEF ThreadsOK, ProducersOK
<1>3. CASE ReceiveNothing(Worker)
  <2>1. /\ sent' = sent \/ sent' = [sent EXCEPT ![Worker] = @ + 1]
        /\ out' = [out EXCEPT ![Worker] = None]
        /\ Goto(Worker, "free")
        /\ UNCHANGED <<buf, rest, id, receiver>>
    BY <1>3 DEF ReceiveNothing
  <2>2. PlacesOK'
    BY <1>0, <2>1, Going, Basics DEF ThreadsOK, ProducerPlaces
  <2>3. sent' \in [Producers -> Nat]
    BY <1>0, <2>1, Basics DEF ThreadsOK, ProducersOK
  <2>4. out' \in [Producers -> Messages \cup {None}]
    BY <1>0, <2>1 DEF ThreadsOK, ProducersOK
  <2>5. ReceiversOK'
    BY <1>0, <2>1 DEF ThreadsOK, ReceiversOK, receiver
  <2>. QED
    BY <1>0, <2>1, <2>2, <2>3, <2>4, <2>5 DEF ThreadsOK, ProducersOK
<1>. QED
  BY <1>1, <1>2, <1>3

LEMMA SendTypes ==
  ASSUME TypeInv, NEW t \in Senders, StartSend(t)
  PROVE  /\ ThreadsOK'
         /\ \E m \in Messages : out' = [out EXCEPT ![t] = m]
<1>0. ThreadsOK /\ t \in Producers
  BY Basics DEF TypeInv, TypeOK, ThreadsOK
<1>. DEFINE M(to, len, scope) == [from |-> t, n |-> sent[t] + 1, to |-> to,
                                  len |-> len, scope |-> scope]
<1>1. PICK to \in Destinations, len \in Lengths, scope \in Scopes :
        out' = [out EXCEPT ![t] = M(to, len, scope)]
  BY DEF StartSend
<1>2. sent[t] + 1 \in Nat
  BY <1>0 DEF ThreadsOK, ProducersOK
<1>3. M(to, len, scope) \in Messages
  BY <1>0, <1>2, BusAssumption DEF Messages
<1>4. PlacesOK'
  BY <1>0, Going, Basics DEF ThreadsOK, StartSend, ProducerPlaces
<1>5. ProducersOK' /\ ReceiversOK'
  BY <1>0, <1>1, <1>3 DEF ThreadsOK, ProducersOK, ReceiversOK, StartSend, receiver
<1>. QED
  BY <1>1, <1>3, <1>4, <1>5 DEF ThreadsOK

LEMMA ReceiverTypes ==
  ASSUME TypeInv, NEW r \in Receivers, Receive(r)
  PROVE  ThreadsOK'
<1>0. ThreadsOK /\ r \in Threads /\ r \notin Producers
  BY Basics DEF TypeInv, TypeOK, ThreadsOK
<1>1. CASE AwaitPost(r)
  BY <1>0, <1>1, Going, OnlyGoing DEF ThreadsOK, AwaitPost, ReceiverPlaces
<1>2. CASE Remove(r)
  <2>1. Head(queue[r]) \in Pairs
    BY <1>2, HeadTailProperties DEF TypeInv, TypeOK, QueuesOK, Remove
  <2>2. PlacesOK'
    BY <1>0, <1>2, Going DEF ThreadsOK, Remove, ReceiverPlaces
  <2>3. ProducersOK' /\ ReceiversOK'
    BY <1>0, <1>2, <2>1 DEF ThreadsOK, ProducersOK, ReceiversOK, Remove, producer
  <2>. QED
    BY <2>2, <2>3 DEF ThreadsOK
<1>3. CASE Copy(r)
  <2>1. frame[pair[r].slot] \in Messages
    BY <1>3 DEF TypeInv, Equipped, PairPlaces, ReceiverPlaces, Copy
  <2>2. PlacesOK'
    BY <1>0, <1>3, Going DEF ThreadsOK, Copy, ReceiverPlaces
  <2>3. ProducersOK' /\ ReceiversOK'
    BY <1>0, <1>3, <2>1
    DEF ThreadsOK, ProducersOK, ReceiversOK, Copy, producer, Messages
  <2>. QED
    BY <2>2, <2>3 DEF ThreadsOK
<1>4. CASE ReceiverFree(r) \/ FreeSignal(r)
  <2>1. CASE AfterFree(r)
    BY <1>0, <2>1, Freed
  <2>2. CASE ~ AfterFree(r)
    BY <1>0, <1>4, <2>2, Going, OnlyGoing
    DEF ThreadsOK, ReceiverFree, Release, FreeSignal, ReceiverPlaces
  <2>. QED
    BY <2>1, <2>2
<1>5. CASE Length(r) \/ Ignore(r) \/ UseInfo(r)
  <2>1. CASE Return(r)
    BY <1>0, <2>1, Returning
  <2>2. CASE ~ Return(r)
    BY <1>0, <1>5, <2>2, Going, OnlyGoing
    DEF ThreadsOK, Length, Ignore, UseInfo, ReceiverPlaces
  <2>. QED
    BY <2>1, <2>2
<1>6. CASE GetMessageInfo(r)
  <2>1. PlacesOK'
    BY <1>0, <1>6, Going DEF ThreadsOK, GetMessageInfo, ReceiverPlaces
  <2>2. ProducersOK' /\ ReceiversOK'
    BY <1>0, <1>6 DEF ThreadsOK, ProducersOK, ReceiversOK, GetMessageInfo, producer,
       TypeInv, TypeOK, MapOK
  <2>. QED
    BY <2>1, <2>2 DEF ThreadsOK
<1>. QED
  BY <1>1, <1>2, <1>3, <1>4, <1>5, <1>6 DEF Receive

LEMMA TypeStep ==
  ASSUME TypeInv, [Next]_vars
  PROVE  TypeOK'
<1>1. ThreadsOK'
  <2>1. CASE UNCHANGED vars \/ Arrive \/ HandleSignal
    BY <2>1 DEF TypeInv, TypeOK, ThreadsOK, PlacesOK, ProducersOK, ReceiversOK, vars,
       producer, receiver, Arrive, HandleSignal
  <2>2. ASSUME NEW t \in Senders, StartSend(t) \/ Send(t)
        PROVE  ThreadsOK'
    BY <2>2, SendTypes, ProducerTypes, Basics DEF Send
  <2>3. CASE Work(Worker)
    BY <2>3, WorkerTypes, ProducerTypes, Basics DEF Work
  <2>4. ASSUME NEW r \in Receivers, Receive(r)
        PROVE  ThreadsOK'
    BY <2>4, ReceiverTypes
  <2>. QED
    BY <2>1, <2>2, <2>3, <2>4 DEF Next
<1>. QED
  BY <1>1, PoolTypes, FrameTypes, MapTypes, SocketTypes, QueueTypes
  DEF TypeOK, ThreadsOK

-----------------------------------------------------------------------------
\* A thread changes nothing of another thread.

Acts(t) ==
  \/ t \in Senders /\ (StartSend(t) \/ Send(t))
  \/ t = Worker /\ Work(t)
  \/ t \in Receivers /\ Receive(t)

Same(u) ==
  /\ pc'[u] = pc[u]
  /\ u \in Producers => /\ sent'[u] = sent[u] /\ out'[u] = out[u]
                        /\ buf'[u] = buf[u] /\ rest'[u] = rest[u] /\ id'[u] = id[u]
  /\ u \in Receivers => /\ pair'[u] = pair[u] /\ got'[u] = got[u]
                        /\ info'[u] = info[u] /\ last'[u] = last[u]

LEMMA Steps ==
  ASSUME [Next]_vars
  PROVE  \/ \E t \in Threads : Acts(t)
         \/ UNCHANGED vars \/ Arrive \/ HandleSignal
  BY Basics DEF Next, Acts

LEMMA ReturnLocal ==
  ASSUME ThreadsOK, NEW t \in Threads, Return(t) \/ AfterFree(t),
         NEW u \in Threads \ {t}
  PROVE  Same(u)
<1>1. CASE Return(t)
  BY <1>1, Basics DEF Return, Goto, ThreadsOK, PlacesOK, ProducersOK, ReceiversOK, Same,
     producer, receiver
<1>2. CASE t \in Receivers /\ AfterFree(t)
  BY <1>2, Basics DEF AfterFree, Goto, ThreadsOK, PlacesOK, Same, producer, receiver
<1>. QED
  BY <1>1, <1>2 DEF AfterFree

LEMMA Locality ==
  ASSUME TypeInv, NEW t \in Threads, Acts(t), NEW u \in Threads \ {t}
  PROVE  Same(u)
<1>0. ThreadsOK
  BY DEF TypeInv, TypeOK, ThreadsOK
<1>1. CASE Return(t) \/ AfterFree(t)
  BY <1>0, <1>1, ReturnLocal
<1>2. CASE /\ t \in Senders
           /\ StartSend(t) \/ Fill(t) \/ RawSend(t)
  BY <1>0, <1>2, Basics DEF StartSend, Fill, RawSend, Goto, ThreadsOK, PlacesOK,
     ProducersOK, Same, producer, receiver
<1>3. CASE /\ t = Worker
           /\ Wake(t) \/ ReceiveNothing(t) \/ ReceiveFrame(t) \/ Erase(t)
  <2>1. CASE Wake(t) \/ Erase(t)
    BY <1>0, <1>3, <2>1, Basics DEF Wake, Erase, Goto, ThreadsOK, PlacesOK, Same,
       producer, receiver
  <2>2. CASE ReceiveFrame(t)
    <3>1. /\ \E m : out' = [out EXCEPT ![t] = m]
          /\ pc' \in {[pc EXCEPT ![t] = "free"], [pc EXCEPT ![t] = "nextid"]}
      BY <1>3, <2>2, Finds
    <3>2. sent' = [sent EXCEPT ![t] = @ + 1] /\ UNCHANGED <<buf, rest, id, receiver>>
      BY <2>2 DEF ReceiveFrame
    <3>. QED
      BY <1>0, <1>3, <3>1, <3>2, Basics DEF ThreadsOK, PlacesOK, ProducersOK, Same,
         receiver
  <2>3. CASE ReceiveNothing(t)
    <3>1. /\ sent' = sent \/ sent' = [sent EXCEPT ![t] = @ + 1]
          /\ out' = [out EXCEPT ![t] = None]
          /\ Goto(t, "free")
          /\ UNCHANGED <<buf, rest, id, receiver>>
      BY <2>3 DEF ReceiveNothing
    <3>. QED
      BY <1>0, <1>3, <3>1, Basics DEF Goto, ThreadsOK, PlacesOK, ProducersOK, Same,
         receiver
  <2>. QED
    BY <1>3, <2>1, <2>2, <2>3
<1>4. CASE t \in Producers /\ Produce(t) /\ ~ (Return(t) \/ AfterFree(t))
  <2>1. CASE AllocWait(t) \/ NextId(t) \/ MapWrite(t) \/ Update(t)
    BY <1>0, <1>4, <2>1, Basics DEF AllocWait, NextId, MapWrite, Update, Goto,
       ThreadsOK, PlacesOK, Same, producer, receiver
  <2>2. CASE AllocScan(t) \/ Notify(t)
    BY <1>0, <1>4, <2>2, Basics DEF AllocScan, Notify, Goto,
       ThreadsOK, PlacesOK, ProducersOK, Same, receiver
  <2>3. CASE Post(t)
    <3>1. /\ Goto(t, "update")
          /\ \E r : rest' = [rest EXCEPT ![t] = @ \ {r}]
          /\ UNCHANGED <<sent, out, buf, id, receiver>>
      BY <1>4, <2>3 DEF Post
    <3>. QED
      BY <1>0, <1>4, <3>1, Basics DEF Goto, ThreadsOK, PlacesOK, ProducersOK, Same,
         receiver
  <2>4. CASE ProducerFree(t) \/ FreeSignal(t)
    <3>1. Goto(t, "signal") /\ UNCHANGED <<producer, receiver>>
      BY <1>4, <2>4 DEF ProducerFree, Release, FreeSignal
    <3>. QED
      BY <1>0, <3>1 DEF Goto, ThreadsOK, PlacesOK, Same, producer, receiver
  <2>. QED
    BY <1>4, <2>1, <2>2, <2>3, <2>4 DEF Produce
<1>5. CASE t \in Receivers /\ Receive(t) /\ ~ (Return(t) \/ AfterFree(t))
  <2>1. CASE AwaitPost(t) \/ ReceiverFree(t) \/ FreeSignal(t) \/ Length(t)
    <3>1. /\ \E place : Goto(t, place)
          /\ UNCHANGED <<producer, receiver>>
      BY <1>5, <2>1 DEF AwaitPost, ReceiverFree, Release, FreeSignal, Length
    <3>. QED
      BY <1>0, <3>1 DEF Goto, ThreadsOK, PlacesOK, Same, producer, receiver
  <2>2. CASE Remove(t) \/ Copy(t) \/ GetMessageInfo(t)
    BY <1>0, <1>5, <2>2, Basics DEF Remove, Copy, GetMessageInfo, Goto, ThreadsOK,
       PlacesOK, ReceiversOK, Same, producer
  <2>. QED
    BY <1>5, <2>1, <2>2 DEF Receive, Ignore, UseInfo
<1>. QED
  BY <1>1, <1>2, <1>3, <1>4, <1>5, Basics DEF Acts, Send, Work

LEMMA OthersSame ==
  ASSUME TypeInv, [Next]_vars, NEW u \in Threads, ~ Acts(u)
  PROVE  Same(u)
<1>1. ASSUME NEW t \in Threads, Acts(t)
      PROVE  Same(u)
  BY <1>1, Locality
<1>2. CASE UNCHANGED <<pc, producer, receiver>>
  BY <1>2 DEF Same, producer, receiver
<1>. QED
  BY <1>1, <1>2, Steps DEF vars, Arrive, HandleSignal

-----------------------------------------------------------------------------
\* A thread that goes on still has what it needs.

LEMMA FrameGrows ==
  ASSUME TypeInv, [Next]_vars, NEW i \in Slots, frame[i] \in Messages
  PROVE  frame'[i] \in Messages
<1>1. CASE UNCHANGED frame
  BY <1>1
<1>2. ASSUME NEW t \in Senders, Fill(t)
      PROVE  frame'[i] \in Messages
  BY <1>2, Basics DEF TypeInv, TypeOK, Equipped, OutPlaces, Fill
<1>3. CASE ReceiveFrame(Worker)
  BY <1>3, Finds DEF TypeInv, TypeOK
<1>. QED
  BY <1>1, <1>2, <1>3, FrameChanges

\* What a producer has when it gets where it needs a message.
Ready(t) ==
  /\ pc[t] \in OutPlaces => out[t] \in Messages
  /\ t \in Senders /\ pc[t] \in {"alloc", "scan"} => out[t] \in Messages
  /\ pc[t] \in FilledPlaces => frame[buf[t]] \in Messages

LEMMA ReturnReady ==
  ASSUME ThreadsOK, NEW t \in Producers, Return(t) \/ AfterFree(t)
  PROVE  Ready(t)'
<1>1. pc'[t] \in {"idle", "alloc"} /\ (t \in Senders => pc'[t] = "idle")
  BY Basics DEF Return, AfterFree, Goto, ThreadsOK, PlacesOK
<1>. QED
  BY <1>1 DEF Ready, OutPlaces, FilledPlaces

LEMMA ProducerReady ==
  ASSUME TypeInv, NEW t \in Producers, Acts(t), [Next]_vars
  PROVE  Ready(t)'
<1>0. ThreadsOK /\ Ready(t) /\ t \in Threads /\ t \notin Receivers
  BY Basics DEF TypeInv, TypeOK, ThreadsOK, Equipped, Ready
<1>01. pc[t] \in FilledPlaces => frame'[buf[t]] \in Messages
  BY <1>0, FrameGrows DEF Ready, ThreadsOK, ProducersOK
<1>1. CASE Return(t) \/ AfterFree(t)
  BY <1>0, <1>1, ReturnReady
<1>2. CASE t \in Senders /\ StartSend(t)
  <2>1. out'[t] \in Messages
    BY <1>0, <1>2, SendTypes DEF ThreadsOK, ProducersOK
  <2>2. pc'[t] = "alloc"
    BY <1>0, <1>2 DEF StartSend, Goto, ThreadsOK, PlacesOK
  <2>. QED
    BY <2>1, <2>2 DEF Ready, OutPlaces, FilledPlaces
<1>3. CASE Fill(t)
  <2>1. out[t] \in Messages /\ out' = out /\ buf' = buf
    BY <1>0, <1>3 DEF Fill, Ready, OutPlaces, producer
  <2>2. frame'[buf[t]] \in Messages
    BY <1>0, <1>3, <2>1 DEF Fill, TypeInv, TypeOK, ThreadsOK, ProducersOK
  <2>. QED
    BY <2>1, <2>2 DEF Ready
<1>4. CASE t = Worker /\ ReceiveFrame(t)
  <2>1. out'[t] \in Messages /\ frame'[buf[t]] \in Messages
    BY <1>0, <1>4, Finds DEF TypeInv, TypeOK, ThreadsOK, ProducersOK
  <2>2. buf' = buf
    BY <1>4 DEF ReceiveFrame
  <2>. QED
    BY <2>1, <2>2 DEF Ready
<1>5. CASE RawSend(t) \/ Erase(t) \/ ReceiveNothing(t) \/ Wake(t)
  <2>1. /\ pc'[t] = "free" \/ (pc'[t] = "alloc" /\ t = Worker)
        /\ out'[t] = out[t] \/ pc'[t] = "free"
    <3>1. CASE Wake(t)
      BY <1>0, <3>1 DEF Wake, Goto, ThreadsOK, PlacesOK, producer
    <3>2. CASE RawSend(t) \/ Erase(t)
      BY <1>0, <3>2 DEF RawSend, Erase, Goto, ThreadsOK, PlacesOK
    <3>3. CASE ReceiveNothing(t)
      BY <1>0, <3>3 DEF ReceiveNothing, Goto, ThreadsOK, PlacesOK
    <3>. QED
      BY <1>5, <3>1, <3>2, <3>3
  <2>. QED
    BY <2>1, Basics DEF Ready, OutPlaces, FilledPlaces
<1>6. CASE AllocWait(t) \/ AllocScan(t)
  <2>1. /\ out' = out
        /\ \/ pc[t] = "alloc" /\ pc'[t] = "scan"
           \/ pc[t] = "scan" /\ pc'[t] = (IF t = Worker THEN "recv" ELSE "fill")
    BY <1>0, <1>6 DEF AllocWait, AllocScan, Goto, ThreadsOK, PlacesOK, producer
  <2>. QED
    BY <1>0, <2>1, Basics DEF Ready, OutPlaces, FilledPlaces
<1>7. CASE /\ NextId(t) \/ MapWrite(t) \/ Notify(t) \/ Update(t) \/ Post(t)
           /\ ~ Return(t)
  <2>1. /\ pc[t] \in FilledPlaces /\ out' = out /\ buf' = buf
        /\ pc'[t] \in FilledPlaces \/ pc'[t] = "free"
    BY <1>0, <1>7 DEF NextId, MapWrite, Notify, Update, Post, Goto, ThreadsOK, PlacesOK,
       producer, FilledPlaces, OutPlaces
  <2>. QED
    BY <1>0, <1>01, <2>1 DEF Ready, OutPlaces, FilledPlaces
<1>8. CASE (ProducerFree(t) \/ FreeSignal(t)) /\ ~ AfterFree(t)
  <2>1. pc'[t] = "signal"
    BY <1>0, <1>8 DEF ProducerFree, Release, FreeSignal, Goto, ThreadsOK, PlacesOK
  <2>. QED
    BY <2>1 DEF Ready, OutPlaces, FilledPlaces
<1>. QED
  BY <1>0, <1>1, <1>2, <1>3, <1>4, <1>5, <1>6, <1>7, <1>8 DEF Acts, Send, Work, Produce

Paired(r) ==
  pc[r] \in PairPlaces => pair[r] \in Pairs /\ frame[pair[r].slot] \in Messages

LEMMA ReceiverPaired ==
  ASSUME TypeInv, NEW r \in Receivers, Acts(r), [Next]_vars
  PROVE  Paired(r)'
<1>0. ThreadsOK /\ Paired(r) /\ r \in Threads /\ r \notin Producers /\ Receive(r)
  BY Basics DEF TypeInv, TypeOK, ThreadsOK, Equipped, Paired, Acts
<1>1. CASE Remove(r)
  <2>1. 1 \in DOMAIN queue[r] /\ Head(queue[r]) = queue[r][1] /\ queue[r][1] \in Pairs
    BY <1>1, Taking, ElementOfSeq, LenProperties DEF TypeInv, TypeOK, QueuesOK, Remove
  <2>2. frame[queue[r][1].slot] \in Messages
    BY <2>1 DEF TypeInv, Equipped
  <2>3. pair'[r] = queue[r][1] /\ frame' = frame
    BY <1>0, <1>1, <2>1 DEF Remove, ThreadsOK, ReceiversOK
  <2>. QED
    BY <2>1, <2>2, <2>3 DEF Paired
<1>2. CASE ~ Remove(r)
  <2>1. pc'[r] \in PairPlaces => pc[r] \in PairPlaces /\ pair' = pair
    BY <1>0, <1>2 DEF Receive, AwaitPost, Copy, ReceiverFree, Release, FreeSignal, Length,
       Ignore, GetMessageInfo, UseInfo, Return, AfterFree, Goto, ThreadsOK, PlacesOK,
       PairPlaces, ReceiverPlaces, receiver
  <2>2. pair[r] \in Pairs => pair[r].slot \in Slots
    BY DEF Pairs
  <2>. QED
    BY <1>0, <2>1, <2>2, FrameGrows DEF Paired
<1>. QED
  BY <1>1, <1>2

LEMMA EquippedStep ==
  ASSUME TypeInv, [Next]_vars
  PROVE  Equipped'
<1>0. ThreadsOK
  BY DEF TypeInv, TypeOK, ThreadsOK
<1>1. ASSUME NEW t \in Producers
      PROVE  Ready(t)'
  <2>1. CASE Acts(t)
    BY <2>1, ProducerReady
  <2>2. CASE ~ Acts(t)
    <3>1. pc'[t] = pc[t] /\ out'[t] = out[t] /\ buf'[t] = buf[t]
      BY <2>2, OthersSame, Basics DEF Same
    <3>2. Ready(t) /\ buf[t] \in Slots
      BY <1>0, Basics DEF TypeInv, Equipped, Ready, ThreadsOK, ProducersOK
    <3>. QED
      BY <3>1, <3>2, FrameGrows DEF Ready
  <2>. QED
    BY <2>1, <2>2
<1>2. ASSUME NEW r \in Receivers
      PROVE  Paired(r)'
  <2>1. CASE Acts(r)
    BY <2>1, ReceiverPaired
  <2>2. CASE ~ Acts(r)
    <3>1. pc'[r] = pc[r] /\ pair'[r] = pair[r]
      BY <2>2, OthersSame, Basics DEF Same
    <3>2. Paired(r) /\ (pair[r] \in Pairs => pair[r].slot \in Slots)
      BY DEF TypeInv, Equipped, Paired, Pairs
    <3>. QED
      BY <3>1, <3>2, FrameGrows DEF Paired
  <2>. QED
    BY <2>1, <2>2
<1>3. ASSUME NEW r \in Receivers, NEW j \in DOMAIN queue'[r]
      PROVE  frame'[queue'[r][j].slot] \in Messages
  <2>1. \A k \in DOMAIN queue[r] : frame'[queue[r][k].slot] \in Messages
    <3>1. ASSUME NEW k \in DOMAIN queue[r]
          PROVE  queue[r][k].slot \in Slots
      <4>1. queue[r][k] \in Pairs
        BY ElementOfSeq, LenProperties DEF TypeInv, TypeOK, QueuesOK
      <4>. QED
        BY <4>1 DEF Pairs
    <3>. QED
      BY <3>1, FrameGrows DEF TypeInv, Equipped
  <2>2. CASE queue' = queue
    BY <1>3, <2>1, <2>2
  <2>3. ASSUME NEW t \in Producers, Update(t)
        PROVE  frame'[queue'[r][j].slot] \in Messages
    <3>1. PICK q \in Receivers, p \in Pairs :
            /\ pc[t] = "update"
            /\ p = [id |-> id[t], slot |-> buf[t], msg |-> out[t]]
            /\ queue' = [queue EXCEPT ![q] = Append(@, p)]
      BY <2>3, Updates
    <3>2. frame'[p.slot] \in Messages
      BY <1>0, <3>1, FrameGrows DEF TypeInv, Equipped, FilledPlaces, OutPlaces, ThreadsOK,
         ProducersOK
    <3>3. CASE q = r
      <4>1. /\ queue'[r] = Append(queue[r], p)
            /\ queue[r] \in Seq(Pairs)
        BY <3>1, <3>3 DEF TypeInv, TypeOK, QueuesOK
      <4>. QED
        BY <2>1, <3>2, <4>1, Adding
    <3>4. CASE q # r
      BY <2>1, <3>1, <3>4 DEF TypeInv, TypeOK, QueuesOK
    <3>. QED
      BY <3>3, <3>4
  <2>4. ASSUME NEW q \in Receivers, Remove(q)
        PROVE  frame'[queue'[r][j].slot] \in Messages
    <3>1. queue' = [queue EXCEPT ![q] = Tail(@)] /\ queue[q] # <<>> /\ queue[q] \in Seq(Pairs)
      BY <2>4 DEF Remove, TypeInv, TypeOK, QueuesOK
    <3>2. CASE q = r
      BY <2>1, <3>1, <3>2, Taking DEF TypeInv, TypeOK, QueuesOK
    <3>3. CASE q # r
      BY <2>1, <3>1, <3>3 DEF TypeInv, TypeOK, QueuesOK
    <3>. QED
      BY <3>2, <3>3
  <2>. QED
    BY <2>2, <2>3, <2>4, QueueChanges DEF queues, Post, AwaitPost
<1>. QED
  BY <1>1, <1>2, <1>3, Basics DEF Equipped, Ready, Paired

LEMMA TypeInvariant == Spec => []TypeInv
<1>1. TypeInv /\ [Next]_vars => TypeInv'
  BY TypeStep, EquippedStep DEF TypeInv
<1>. QED
  BY <1>1, TypeInit, PTL DEF Spec

(***************************************************************************)
(* Every variable keeps its type; in particular a producer holds an        *)
(* existing buffer, no semaphore is negative, and what is queued and       *)
(* mapped is a message (Concurrent_Observer, NIC::_attribute_map).         *)
(***************************************************************************)
THEOREM TypeCorrect == Spec => []TypeOK
<1>. QED
  BY TypeInvariant, PTL DEF TypeInv

-----------------------------------------------------------------------------
\* The steps by what they do to the buffers.

AwayPlaces    == {"idle", "alloc", "scan", "signal"}
AlonePlaces   == {"fill", "raw", "recv", "nextid", "map", "notify", "erase", "free"}
WrittenPlaces == {"nextid", "map", "notify"}

\* A producer goes on without a buffer ...
Away(t) ==
  /\ pc[t] \in AwayPlaces /\ pc'[t] \in AwayPlaces
  /\ UNCHANGED <<in_use, reference_counter, frame, queues>>

\* ... or with one that it holds alone ...
Alone(t) ==
  /\ pc[t] \in AlonePlaces /\ pc'[t] \in AlonePlaces
  /\ UNCHANGED <<in_use, reference_counter, queues>>
  /\ buf'[t] = buf[t]
  /\ \/ /\ frame' = frame
        /\ pc'[t] \in WrittenPlaces => pc[t] \in WrittenPlaces /\ out'[t] = out[t]
     \/ \E m \in Messages : out'[t] = m /\ frame' = [frame EXCEPT ![buf[t]] = m]

\* ... which it is about to share.
Shares(t) ==
  /\ pc[t] = "notify" /\ pc'[t] = "update"
  /\ Matching(out[t]) # {} /\ rest'[t] = Matching(out[t])
  /\ reference_counter' =
       [reference_counter EXCEPT ![buf[t]] = Cardinality(Matching(out[t]))]
  /\ UNCHANGED <<in_use, frame, queues>>
  /\ buf'[t] = buf[t] /\ out'[t] = out[t]

\* A receiver goes on without a buffer.
Empty(r) ==
  /\ pc[r] \notin {"copy", "free", "remove"} /\ pc'[r] \notin {"copy", "free", "remove"}
  /\ UNCHANGED <<in_use, reference_counter, frame, queues>>

LEMMA ReturnAway ==
  ASSUME ThreadsOK, NEW t \in Threads, Return(t) \/ AfterFree(t)
  PROVE  /\ t \in Producers => pc'[t] \in AwayPlaces
         /\ t \in Receivers => pc'[t] \in {"wait", "length"}
  BY Basics DEF Return, AfterFree, Goto, ThreadsOK, PlacesOK, AwayPlaces

LEMMA ProducerKinds ==
  ASSUME TypeInv, NEW t \in Producers, Acts(t)
  PROVE  Away(t) \/ Alone(t) \/ Shares(t) \/ AllocScan(t) \/ Update(t) \/ Post(t)
         \/ ProducerFree(t)
<1>0. ThreadsOK /\ t \in Threads /\ t \notin Receivers
  BY Basics DEF TypeInv, TypeOK, ThreadsOK
<1>1. CASE (t \in Senders /\ StartSend(t)) \/ (t = Worker /\ Wake(t)) \/ AllocWait(t)
  <2>1. /\ pc[t] \in AwayPlaces /\ pc'[t] \in AwayPlaces
    BY <1>0, <1>1 DEF StartSend, Wake, AllocWait, Goto, ThreadsOK, PlacesOK, AwayPlaces
  <2>2. UNCHANGED <<in_use, reference_counter, frame, queues>>
    BY <1>1 DEF StartSend, Wake, AllocWait, pool
  <2>. QED
    BY <2>1, <2>2 DEF Away
<1>2. CASE FreeSignal(t)
  <2>1. pc'[t] \in AwayPlaces
    BY <1>0, <1>2, ReturnAway DEF FreeSignal
  <2>. QED
    BY <1>2, <2>1 DEF Away, FreeSignal, AwayPlaces
<1>3. CASE Fill(t)
  <2>1. /\ out' = out /\ buf' = buf /\ frame' = [frame EXCEPT ![buf[t]] = out[t]]
        /\ UNCHANGED <<in_use, reference_counter, queues>>
    BY <1>3 DEF Fill, pool, producer
  <2>2. out[t] \in Messages
    BY <1>3 DEF Fill, TypeInv, Equipped, OutPlaces
  <2>3. pc[t] \in AlonePlaces /\ pc'[t] \in AlonePlaces
    BY <1>0, <1>3 DEF Fill, Goto, ThreadsOK, PlacesOK, AlonePlaces
  <2>. QED
    BY <2>1, <2>2, <2>3 DEF Alone
<1>4. CASE t = Worker /\ ReceiveFrame(t)
  <2>1. PICK m \in Messages :
          /\ frame' = [frame EXCEPT ![buf[t]] = m]
          /\ out' = [out EXCEPT ![t] = m]
          /\ pc' \in {[pc EXCEPT ![t] = "free"], [pc EXCEPT ![t] = "nextid"]}
    BY <1>4, Finds
  <2>2. UNCHANGED <<in_use, reference_counter, queues>> /\ buf' = buf
    BY <1>4 DEF ReceiveFrame, pool
  <2>3. pc[t] \in AlonePlaces /\ pc'[t] \in AlonePlaces
    BY <1>0, <1>4, <2>1 DEF ReceiveFrame, ThreadsOK, PlacesOK, AlonePlaces
  <2>4. out'[t] = m
    BY <1>0, <2>1 DEF ThreadsOK, ProducersOK
  <2>. QED
    BY <2>1, <2>2, <2>3, <2>4 DEF Alone
<1>5. CASE RawSend(t) \/ Erase(t) \/ ReceiveNothing(t)
  <2>1. pc[t] \in AlonePlaces /\ pc'[t] = "free"
    <3>1. CASE RawSend(t)
      BY <1>0, <3>1 DEF RawSend, Goto, ThreadsOK, PlacesOK, AlonePlaces
    <3>2. CASE Erase(t)
      BY <1>0, <3>2 DEF Erase, Goto, ThreadsOK, PlacesOK, AlonePlaces
    <3>3. CASE ReceiveNothing(t)
      BY <1>0, <3>3 DEF ReceiveNothing, Goto, ThreadsOK, PlacesOK, AlonePlaces
    <3>. QED
      BY <1>5, <3>1, <3>2, <3>3
  <2>2. UNCHANGED <<in_use, reference_counter, frame, queues, buf>>
    BY <1>5 DEF RawSend, Erase, ReceiveNothing, pool, producer
  <2>. QED
    BY <2>1, <2>2 DEF Alone, AlonePlaces, WrittenPlaces
<1>6. CASE NextId(t) \/ MapWrite(t)
  <2>1. UNCHANGED <<in_use, reference_counter, frame, queues, buf, out>>
    BY <1>6 DEF NextId, MapWrite, pool, producer
  <2>2. pc[t] \in WrittenPlaces /\ pc'[t] \in WrittenPlaces
    BY <1>0, <1>6 DEF NextId, MapWrite, Goto, ThreadsOK, PlacesOK, WrittenPlaces
  <2>. QED
    BY <2>1, <2>2 DEF Alone, AlonePlaces, WrittenPlaces
<1>7. CASE Notify(t)
  <2>1. /\ pc[t] = "notify"
        /\ UNCHANGED <<in_use, frame, queues, buf, out>>
    BY <1>7 DEF Notify
  <2>2. CASE pc'[t] = "update"
    <3>1. /\ Matching(out[t]) # {} /\ rest' = [rest EXCEPT ![t] = Matching(out[t])]
          /\ reference_counter' =
               [reference_counter EXCEPT ![buf[t]] = Cardinality(Matching(out[t]))]
      BY <1>0, <1>7, <2>2 DEF Notify, Goto, ThreadsOK, PlacesOK
    <3>. QED
      BY <1>0, <2>1, <2>2, <3>1 DEF Shares, ThreadsOK, ProducersOK
  <2>3. CASE pc'[t] # "update"
    <3>1. reference_counter' = reference_counter /\ pc'[t] \in {"free", "erase"}
      BY <1>0, <1>7, <2>3 DEF Notify, Goto, ThreadsOK, PlacesOK
    <3>. QED
      BY <2>1, <3>1 DEF Alone, AlonePlaces, WrittenPlaces
  <2>. QED
    BY <2>2, <2>3
<1>. QED
  BY <1>0, <1>1, <1>2, <1>3, <1>4, <1>5, <1>6, <1>7 DEF Acts, Send, Work, Produce

LEMMA ReceiverKinds ==
  ASSUME TypeInv, NEW r \in Receivers, Acts(r)
  PROVE  AwaitPost(r) \/ Remove(r) \/ Copy(r) \/ ReceiverFree(r) \/ Empty(r)
<1>0. ThreadsOK /\ r \in Threads /\ Receive(r)
  BY Basics DEF TypeInv, TypeOK, ThreadsOK, Acts
<1>1. CASE FreeSignal(r) \/ Length(r) \/ Ignore(r) \/ GetMessageInfo(r) \/ UseInfo(r)
  <2>1. UNCHANGED <<in_use, reference_counter, frame, queues>>
    BY <1>1 DEF FreeSignal, Length, Ignore, GetMessageInfo, UseInfo, pool
  <2>2. pc[r] \in {"signal", "length", "info", "use"}
    BY <1>1 DEF FreeSignal, Length, Ignore, GetMessageInfo, UseInfo
  <2>3. pc'[r] \notin {"copy", "free", "remove"}
    <3>1. CASE Return(r) \/ AfterFree(r)
      BY <1>0, <3>1, ReturnAway
    <3>2. CASE ~ (Return(r) \/ AfterFree(r))
      BY <1>0, <1>1, <3>2 DEF FreeSignal, Length, Ignore, GetMessageInfo, UseInfo, Goto,
         ThreadsOK, PlacesOK
    <3>. QED
      BY <3>1, <3>2
  <2>. QED
    BY <2>1, <2>2, <2>3 DEF Empty
<1>. QED
  BY <1>0, <1>1 DEF Receive

\* Every step is one of these, and leaves the other threads alone.
LEMMA Kinds ==
  ASSUME TypeInv, [Next]_vars
  PROVE  \/ \E t \in Producers :
              /\ \/ Away(t) \/ Alone(t) \/ Shares(t) \/ AllocScan(t) \/ Update(t)
                 \/ Post(t) \/ ProducerFree(t)
              /\ \A u \in Threads \ {t} : Same(u)
         \/ \E r \in Receivers :
              /\ AwaitPost(r) \/ Remove(r) \/ Copy(r) \/ ReceiverFree(r) \/ Empty(r)
              /\ \A u \in Threads \ {r} : Same(u)
         \/ /\ UNCHANGED <<in_use, reference_counter, frame, queues>>
            /\ \A u \in Threads : Same(u)
<1>1. CASE \E t \in Threads : Acts(t)
  BY <1>1, ProducerKinds, ReceiverKinds, Locality, Basics
<1>2. CASE UNCHANGED vars \/ Arrive \/ HandleSignal
  <2>1. UNCHANGED <<pool, frame, queues, pc, producer, receiver>>
    BY <1>2 DEF vars, Arrive, HandleSignal
  <2>. QED
    BY <2>1 DEF Same, pool, producer, receiver
<1>. QED
  BY <1>1, <1>2, Steps

-----------------------------------------------------------------------------
\* The lists of the observers and their semaphores.

Posting(r)  == {t \in Producers : pc[t] = "post" /\ First(r, rest[t])}
Removing(r) == IF pc[r] = "remove" THEN 1 ELSE 0

Matched ==
  \A r \in Receivers :
    Len(queue[r]) = semaphore[r] + Removing(r) + Cardinality(Posting(r))

LEMMA PostingFinite ==
  ASSUME NEW r
  PROVE  IsFiniteSet(Posting(r)) /\ Cardinality(Posting(r)) \in Nat
  BY Basics, FS_Subset, FS_CardinalityType DEF Posting

LEMMA OneFirst ==
  ASSUME NEW waiting \in SUBSET Receivers,
         NEW q \in Receivers, First(q, waiting), NEW r \in Receivers, First(r, waiting)
  PROVE  q = r
  BY Basics, BusAssumption, LenProperties DEF First

LEMMA MatchedInit == Init => Matched
<1>. SUFFICES ASSUME Init, NEW r \in Receivers
     PROVE  Len(queue[r]) = semaphore[r] + Removing(r) + Cardinality(Posting(r))
  BY DEF Matched
<1>1. queue[r] = <<>> /\ semaphore[r] = 0
  BY DEF Init
<1>2. Posting(r) = {} /\ Removing(r) = 0
  BY Basics DEF Init, Posting, Removing
<1>. QED
  BY <1>1, <1>2, EmptySeq, FS_EmptySet

\* Nothing changes unless somebody inserts, signals, waits or removes.
LEMMA MatchedSame ==
  ASSUME Matched, UNCHANGED queues,
         \A t \in Producers : /\ pc'[t] = "post" <=> pc[t] = "post"
                              /\ pc[t] = "post" => rest'[t] = rest[t],
         \A r \in Receivers : pc'[r] = "remove" <=> pc[r] = "remove"
  PROVE  Matched'
<1>1. \A r \in Receivers : Posting(r)' = Posting(r) /\ Removing(r)' = Removing(r)
  BY DEF Posting, First, Removing
<1>2. queue' = queue /\ semaphore' = semaphore
  BY DEF queues
<1>. QED
  BY <1>1, <1>2 DEF Matched

LEMMA MatchedStep ==
  ASSUME TypeInv, Matched, [Next]_vars
  PROVE  Matched'
<1>0. /\ ThreadsOK /\ QueuesOK
      /\ \A r \in Receivers : queue[r] \in Seq(Pairs) /\ semaphore[r] \in Nat
  BY DEF TypeInv, TypeOK, ThreadsOK, QueuesOK
<1>1. ASSUME NEW t \in Producers, \A u \in Threads \ {t} : Same(u),
             Away(t) \/ Alone(t) \/ Shares(t) \/ AllocScan(t) \/ ProducerFree(t)
      PROVE  Matched'
  <2>1. pc[t] # "post" /\ pc'[t] # "post" /\ UNCHANGED queues
    <3>1. CASE Away(t) \/ Alone(t) \/ Shares(t)
      BY <3>1 DEF Away, Alone, Shares, AwayPlaces, AlonePlaces
    <3>2. CASE AllocScan(t)
      BY <1>0, <3>2, Basics DEF AllocScan, Goto, ThreadsOK, PlacesOK
    <3>3. CASE ProducerFree(t)
      <4>1. pc'[t] \in AwayPlaces \/ pc'[t] = "signal"
        BY <1>0, <3>3, ReturnAway, Basics DEF ProducerFree, Release, Goto, ThreadsOK,
           PlacesOK
      <4>. QED
        BY <3>3, <4>1 DEF ProducerFree, Release, AwayPlaces
    <3>. QED
      BY <1>1, <3>1, <3>2, <3>3
  <2>. QED
    BY <1>1, <2>1, MatchedSame, Basics DEF Same
<1>2. ASSUME NEW t \in Producers, \A u \in Threads \ {t} : Same(u), Update(t)
      PROVE  Matched'
  <2>1. PICK q \in Receivers, p \in Pairs :
          /\ pc[t] = "update" /\ First(q, rest[t])
          /\ queue' = [queue EXCEPT ![q] = Append(@, p)]
          /\ semaphore' = semaphore
    BY <1>2, Updates
  <2>2. pc' = [pc EXCEPT ![t] = "post"] /\ rest' = rest
    BY <1>2 DEF Update, Goto, producer
  <2>3. pc'[t] = "post" /\ \A u \in Threads \ {t} : pc'[u] = pc[u]
    BY <1>0, <2>2, Basics DEF ThreadsOK, PlacesOK
  <2>4. ASSUME NEW r \in Receivers
        PROVE  Len(queue'[r]) = semaphore'[r] + Removing(r)' + Cardinality(Posting(r)')
    <3>1. Removing(r)' = Removing(r)
      BY <2>3, Basics DEF Removing
    <3>2. CASE r = q
      <4>1. Posting(r)' = Posting(r) \cup {t} /\ t \notin Posting(r)
        BY <2>1, <2>2, <2>3, <3>2, Basics DEF Posting, First
      <4>2. Cardinality(Posting(r)') = Cardinality(Posting(r)) + 1
        BY <4>1, PostingFinite, FS_AddElement
      <4>3. Len(queue'[r]) = Len(queue[r]) + 1
        BY <1>0, <2>1, <3>2, Adding DEF QueuesOK
      <4>. QED
        BY <1>0, <2>1, <3>1, <4>2, <4>3, PostingFinite DEF Matched, Removing
    <3>3. CASE r # q
      <4>1. ~ First(r, rest[t])
        BY <1>0, <2>1, <3>3, OneFirst DEF ThreadsOK, ProducersOK
      <4>2. Posting(r)' = Posting(r)
        BY <2>1, <2>2, <2>3, <4>1, Basics DEF Posting, First
      <4>3. queue'[r] = queue[r]
        BY <2>1, <3>3, <1>0 DEF QueuesOK
      <4>. QED
        BY <2>1, <3>1, <4>2, <4>3 DEF Matched
    <3>. QED
      BY <3>2, <3>3
  <2>. QED
    BY <2>4 DEF Matched
<1>3. ASSUME NEW t \in Producers, \A u \in Threads \ {t} : Same(u), Post(t)
      PROVE  Matched'
  <2>1. PICK q \in Receivers :
          /\ pc[t] = "post" /\ First(q, rest[t])
          /\ semaphore' = [semaphore EXCEPT ![q] = @ + 1]
          /\ queue' = queue
          /\ Return(t) \/ Goto(t, "update")
    BY <1>3 DEF Post
  <2>2. pc'[t] # "post"
    BY <1>0, <2>1, ReturnAway, Basics DEF Goto, ThreadsOK, PlacesOK, AwayPlaces
  <2>3. \A u \in Threads \ {t} : pc'[u] = pc[u] /\ (u \in Producers => rest'[u] = rest[u])
    BY <1>3 DEF Same
  <2>4. ASSUME NEW r \in Receivers
        PROVE  Len(queue'[r]) = semaphore'[r] + Removing(r)' + Cardinality(Posting(r)')
    <3>1. Removing(r)' = Removing(r)
      BY <2>3, Basics DEF Removing
    <3>2. CASE r = q
      <4>1. Posting(r)' = Posting(r) \ {t} /\ t \in Posting(r)
        BY <2>1, <2>2, <2>3, <3>2, Basics DEF Posting, First
      <4>2. Cardinality(Posting(r)') = Cardinality(Posting(r)) - 1
        BY <4>1, PostingFinite, FS_RemoveElement
      <4>3. semaphore'[r] = semaphore[r] + 1
        BY <1>0, <2>1, <3>2 DEF QueuesOK
      <4>. QED
        BY <1>0, <2>1, <3>1, <4>2, <4>3, PostingFinite DEF Matched, Removing
    <3>3. CASE r # q
      <4>1. ~ First(r, rest[t])
        BY <1>0, <2>1, <3>3, OneFirst DEF ThreadsOK, ProducersOK
      <4>2. Posting(r)' = Posting(r)
        BY <2>1, <2>2, <2>3, <4>1, Basics DEF Posting, First
      <4>3. semaphore'[r] = semaphore[r]
        BY <2>1, <3>3, <1>0 DEF QueuesOK
      <4>. QED
        BY <2>1, <3>1, <4>2, <4>3 DEF Matched
    <3>. QED
      BY <3>2, <3>3
  <2>. QED
    BY <2>4 DEF Matched
<1>4. ASSUME NEW q \in Receivers, \A u \in Threads \ {q} : Same(u),
             Copy(q) \/ ReceiverFree(q) \/ Empty(q)
      PROVE  Matched'
  <2>1. pc[q] # "remove" /\ pc'[q] # "remove" /\ UNCHANGED queues
    <3>1. CASE Copy(q)
      BY <1>0, <3>1, Basics DEF Copy, Goto, ThreadsOK, PlacesOK
    <3>2. CASE ReceiverFree(q)
      BY <1>0, <3>2, ReturnAway, Basics DEF ReceiverFree, Release, Goto, ThreadsOK,
         PlacesOK
    <3>. QED
      BY <1>4, <3>1, <3>2 DEF Empty
  <2>. QED
    BY <1>4, <2>1, MatchedSame, Basics DEF Same
<1>5. ASSUME NEW q \in Receivers, \A u \in Threads \ {q} : Same(u),
             AwaitPost(q) \/ Remove(q)
      PROVE  Matched'
  <2>1. \A r \in Receivers : Posting(r)' = Posting(r)
    BY <1>5, Basics DEF Posting, First, Same
  <2>2. \A r \in Receivers \ {q} : Removing(r)' = Removing(r)
    BY <1>5, Basics DEF Removing, Same
  <2>3. CASE AwaitPost(q)
    <3>1. /\ queue' = queue
          /\ semaphore' = [semaphore EXCEPT ![q] = @ - 1]
          /\ Removing(q)' = 1 /\ Removing(q) = 0
      BY <1>0, <2>3, Basics DEF AwaitPost, Goto, ThreadsOK, PlacesOK, Removing
    <3>. QED
      BY <1>0, <2>1, <2>2, <3>1, PostingFinite DEF Matched, QueuesOK, Removing
  <2>4. CASE Remove(q)
    <3>1. /\ semaphore' = semaphore
          /\ queue' = [queue EXCEPT ![q] = Tail(@)] /\ queue[q] # <<>>
          /\ Removing(q)' = 0 /\ Removing(q) = 1
      BY <1>0, <2>4, Basics DEF Remove, Goto, ThreadsOK, PlacesOK, Removing
    <3>2. Len(Tail(queue[q])) = Len(queue[q]) - 1
      BY <1>0, <3>1, Taking, LenProperties
    <3>3. ASSUME NEW r \in Receivers
          PROVE  Len(queue'[r]) = semaphore'[r] + Removing(r)' + Cardinality(Posting(r)')
      <4>1. Removing(r) \in Nat /\ Len(queue[r]) \in Nat
        BY <1>0, LenProperties DEF Removing
      <4>2. Posting(r)' = Posting(r) /\ semaphore'[r] = semaphore[r]
        BY <2>1, <3>1
      <4>3. Len(queue[r]) = semaphore[r] + Removing(r) + Cardinality(Posting(r))
        BY DEF Matched
      <4>4. semaphore[r] \in Nat /\ Cardinality(Posting(r)) \in Nat
        BY <1>0, PostingFinite
      <4>5. Cardinality(Posting(r)') = Cardinality(Posting(r))
        BY <4>2
      <4>6. CASE r = q
        <5>1. Len(queue'[r]) = Len(queue[r]) - 1
          BY <1>0, <3>1, <3>2, <4>6 DEF QueuesOK
        <5>2. Removing(r)' = 0 /\ Removing(r) = 1
          BY <3>1, <4>6
        <5>. QED
          BY <4>1, <4>2, <4>3, <4>4, <4>5, <5>1, <5>2
      <4>7. CASE r # q
        <5>1. queue'[r] = queue[r]
          BY <1>0, <3>1, <4>7 DEF QueuesOK
        <5>2. Removing(r)' = Removing(r)
          BY <2>2, <4>7
        <5>. QED
          BY <4>2, <4>3, <4>5, <5>1, <5>2
      <4>. QED
        BY <4>6, <4>7
    <3>. QED
      BY <3>3 DEF Matched
  <2>. QED
    BY <1>5, <2>3, <2>4
<1>6. CASE UNCHANGED queues /\ \A u \in Threads : Same(u)
  BY <1>6, MatchedSame, Basics DEF Same
<1>. QED
  BY <1>1, <1>2, <1>3, <1>4, <1>5, <1>6, Kinds DEF queues

LEMMA MatchedInvariant == Spec => [](TypeInv /\ Matched)
<1>1. (TypeInv /\ Matched) /\ [Next]_vars => (TypeInv /\ Matched)'
  BY TypeStep, EquippedStep, MatchedStep DEF TypeInv
<1>2. Init => TypeInv /\ Matched
  BY TypeInit, MatchedInit
<1>. QED
  BY <1>1, <1>2, PTL DEF Spec

(***************************************************************************)
(* A receiver that got through its semaphore finds a pair in its list, for *)
(* any number of producers that insert and signal in any order             *)
(* (Concurrent_Observer::update, updated).                                 *)
(***************************************************************************)
THEOREM NeverNull == Spec => []UpdatedNeverNull
<1>1. TypeInv /\ Matched => UpdatedNeverNull
  <2>. SUFFICES ASSUME TypeInv, Matched, NEW r \in Receivers, pc[r] = "remove"
       PROVE  queue[r] # <<>>
    BY DEF UpdatedNeverNull
  <2>1. Len(queue[r]) = semaphore[r] + 1 + Cardinality(Posting(r))
    BY DEF Matched, Removing
  <2>2. semaphore[r] \in Nat
    BY DEF TypeInv, TypeOK, QueuesOK
  <2>. QED
    BY <2>1, <2>2, PostingFinite, EmptySeq
<1>. QED
  BY <1>1, MatchedInvariant, PTL

-----------------------------------------------------------------------------
\* Who has which buffer.

Updating(r, i) == \E t \in Producers : StillUpdating(t, i, r)

\* A buffer that somebody has is taken, its counter is exact, and a producer
\* that has not shared its buffer is the only one that has it.
Taken == \A i \in Slots : Keepers(i) # {} \/ Readers(i) # {} => in_use[i]

Counted ==
  \A i \in Slots :
    /\ Keepers(i) # {} => reference_counter[i] = 1
    /\ Readers(i) # {} => reference_counter[i] = Cardinality(Readers(i))

Exclusive ==
  \A i \in Slots, t \in Producers :
    HoldsAlone(t, i) => Keepers(i) = {t} /\ Readers(i) = {}

\* A buffer is meant for a receiver once, and passed on by one producer.
Once ==
  \A i \in Slots, r \in Receivers :
    /\ Queued(r, i) => ~ InHand(r, i) /\ ~ Updating(r, i)
    /\ InHand(r, i) => ~ Updating(r, i)

Distinct ==
  \A r \in Receivers : \A j, k \in DOMAIN queue[r] :
    queue[r][j].slot = queue[r][k].slot => j = k

OneUpdates ==
  \A i \in Slots, t, u \in Producers, r, q \in Receivers :
    StillUpdating(t, i, r) /\ StillUpdating(u, i, q) => t = u

Holding == Taken /\ Counted /\ Exclusive /\ Once /\ Distinct /\ OneUpdates

LEMMA HoldingInit == Init => Holding
<1>. SUFFICES ASSUME Init PROVE Holding
  OBVIOUS
<1>1. /\ \A t \in Producers : pc[t] = "idle"
      /\ \A r \in Receivers : pc[r] = "wait" /\ queue[r] = <<>>
  BY Basics DEF Init
<1>2. \A i, t : t \in Producers => ~ HoldsAlone(t, i)
  BY <1>1 DEF HoldsAlone
<1>3. \A i, t, r : t \in Producers => ~ StillUpdating(t, i, r)
  BY <1>1 DEF StillUpdating
<1>4. \A r \in Receivers : DOMAIN queue[r] = {}
  BY <1>1, EmptySeq, LenProperties
<1>5. \A i : \A r \in Receivers : ~ Queued(r, i) /\ ~ InHand(r, i)
  BY <1>1, <1>4 DEF Queued, InHand
<1>6. \A i : Keepers(i) = {} /\ Readers(i) = {}
  BY <1>2, <1>3, <1>5 DEF Keepers, Readers
<1>. QED
  BY <1>2, <1>3, <1>4, <1>5, <1>6
  DEF Holding, Taken, Counted, Exclusive, Once, Distinct, OneUpdates

LEMMA Sets ==
  ASSUME NEW i
  PROVE  /\ Keepers(i) \subseteq Producers /\ Readers(i) \subseteq Receivers
         /\ IsFiniteSet(Keepers(i)) /\ Cardinality(Keepers(i)) \in Nat
         /\ IsFiniteSet(Readers(i)) /\ Cardinality(Readers(i)) \in Nat
  BY Basics, FS_Subset, FS_CardinalityType DEF Keepers, Readers

LEMMA Reading ==
  ASSUME NEW i, NEW r \in Receivers
  PROVE  r \in Readers(i) <=> Queued(r, i) \/ InHand(r, i) \/ Updating(r, i)
  BY DEF Readers, Updating

\* A thread that is left alone has what it had.
LEMMA SameProducer ==
  ASSUME NEW t \in Producers, Same(t), NEW i
  PROVE  /\ HoldsAlone(t, i)' <=> HoldsAlone(t, i)
         /\ \A r : StillUpdating(t, i, r)' <=> StillUpdating(t, i, r)
  BY DEF Same, HoldsAlone, StillUpdating, First

LEMMA SameReceiver ==
  ASSUME NEW r \in Receivers, Same(r), NEW i
  PROVE  InHand(r, i)' <=> InHand(r, i)
  BY DEF Same, InHand

\* The steps in which nobody takes, passes on or gives back a buffer.
Stays(i) ==
  /\ \A t \in Producers : /\ HoldsAlone(t, i)' <=> HoldsAlone(t, i)
                          /\ \A r \in Receivers :
                               StillUpdating(t, i, r)' <=> StillUpdating(t, i, r)
  /\ \A r \in Receivers : /\ InHand(r, i)' <=> InHand(r, i)
                          /\ Queued(r, i)' <=> Queued(r, i)

LEMMA StaysSets ==
  ASSUME NEW i, Stays(i)
  PROVE  /\ Keepers(i)' = Keepers(i) /\ Readers(i)' = Readers(i)
         /\ \A r \in Receivers : Updating(r, i)' <=> Updating(r, i)
  BY DEF Stays, Keepers, Readers, Updating

LEMMA HoldingStays ==
  ASSUME Holding, \A i \in Slots : Stays(i), queue' = queue,
         UNCHANGED <<in_use, reference_counter>>
  PROVE  Holding'
<1>0. \A i \in Slots : Stays(i)
  OBVIOUS
<1>1. \A i \in Slots : /\ Keepers(i)' = Keepers(i) /\ Readers(i)' = Readers(i)
                       /\ \A r \in Receivers : Updating(r, i)' <=> Updating(r, i)
  BY StaysSets
<1>2. Taken' /\ Counted'
  BY <1>1 DEF Holding, Taken, Counted
<1>3. Exclusive'
  BY <1>0, <1>1 DEF Holding, Exclusive, Stays
<1>4. Once'
  BY <1>0, <1>1 DEF Holding, Once, Stays
<1>5. Distinct'
  BY DEF Holding, Distinct
<1>6. OneUpdates'
  BY <1>0 DEF Holding, OneUpdates, Stays
<1>. QED
  BY <1>2, <1>3, <1>4, <1>5, <1>6 DEF Holding

LEMMA StaysWhen ==
  ASSUME TypeInv, NEW t \in Threads, \A u \in Threads \ {t} : Same(u),
         \/ t \in Producers /\ (Away(t) \/ Alone(t) \/ Post(t))
         \/ t \in Receivers /\ (AwaitPost(t) \/ Copy(t) \/ Empty(t)),
         NEW i \in Slots
  PROVE  Stays(i) /\ queue' = queue /\ UNCHANGED <<in_use, reference_counter>>
<1>0. ThreadsOK /\ t \in Threads
  BY DEF TypeInv, TypeOK, ThreadsOK
<1>1. queue' = queue /\ UNCHANGED <<in_use, reference_counter>>
  BY Basics DEF Away, Alone, Post, AwaitPost, Copy, Empty, queues, pool
<1>2. ASSUME t \in Producers
      PROVE  /\ HoldsAlone(t, i)' <=> HoldsAlone(t, i)
             /\ \A r \in Receivers : StillUpdating(t, i, r)' <=> StillUpdating(t, i, r)
  <2>1. CASE Away(t) \/ Alone(t)
    BY <2>1 DEF Away, Alone, HoldsAlone, StillUpdating, AwayPlaces, AlonePlaces
  <2>2. CASE Post(t)
    <3>1. PICK q \in Receivers :
            /\ pc[t] = "post" /\ First(q, rest[t])
            /\ \/ rest[t] = {q} /\ Return(t)
               \/ /\ rest' = [rest EXCEPT ![t] = @ \ {q}]
                  /\ Goto(t, "update") /\ buf' = buf
      BY <2>2 DEF Post
    <3>2. ~ HoldsAlone(t, i)
      BY <3>1 DEF HoldsAlone
    <3>3. CASE rest[t] = {q} /\ Return(t)
      <4>1. pc'[t] \in AwayPlaces
        BY <1>0, <1>2, <3>3, ReturnAway
      <4>2. \A r \in Receivers : ~ StillUpdating(t, i, r)
        BY <3>1, <3>3 DEF StillUpdating
      <4>. QED
        BY <3>2, <4>1, <4>2 DEF HoldsAlone, StillUpdating, AwayPlaces
    <3>4. CASE /\ rest' = [rest EXCEPT ![t] = @ \ {q}]
               /\ Goto(t, "update") /\ buf' = buf
      <4>1. pc'[t] = "update" /\ rest'[t] = rest[t] \ {q} /\ buf'[t] = buf[t]
        BY <1>0, <1>2, <3>4 DEF Goto, ThreadsOK, PlacesOK, ProducersOK
      <4>2. \A r \in rest[t] : ~ First(r, rest[t]) <=> r # q
        BY <1>0, <1>2, <3>1, OneFirst DEF ThreadsOK, ProducersOK
      <4>. QED
        BY <3>1, <3>2, <4>1, <4>2 DEF HoldsAlone, StillUpdating
    <3>. QED
      BY <3>1, <3>3, <3>4
  <2>. QED
    BY <1>2, <2>1, <2>2, Basics
<1>3. ASSUME t \in Receivers
      PROVE  InHand(t, i)' <=> InHand(t, i)
  <2>1. CASE Empty(t)
    BY <2>1 DEF Empty, InHand
  <2>2. CASE AwaitPost(t)
    BY <1>0, <2>2 DEF AwaitPost, Goto, ThreadsOK, PlacesOK, InHand
  <2>3. CASE Copy(t)
    BY <1>0, <2>3 DEF Copy, Goto, ThreadsOK, PlacesOK, InHand
  <2>. QED
    BY <1>3, <2>1, <2>2, <2>3, Basics
<1>4. \A r \in Receivers : Queued(r, i)' <=> Queued(r, i)
  BY <1>1 DEF Queued
<1>5. \A u \in Producers \ {t} :
        /\ HoldsAlone(u, i)' <=> HoldsAlone(u, i)
        /\ \A r \in Receivers : StillUpdating(u, i, r)' <=> StillUpdating(u, i, r)
  BY SameProducer, Basics
<1>6. \A r \in Receivers \ {t} : InHand(r, i)' <=> InHand(r, i)
  BY SameReceiver, Basics
<1>. QED
  BY <1>1, <1>2, <1>3, <1>4, <1>5, <1>6, Basics DEF Stays

\* A producer takes a buffer that nobody has.
LEMMA ScanHolding ==
  ASSUME TypeInv, Holding, NEW t \in Producers, \A u \in Threads \ {t} : Same(u),
         AllocScan(t)
  PROVE  /\ Holding'
         /\ \E i \in Slots :
              /\ Keepers(i) = {} /\ Keepers(i)' = {t}
              /\ Readers(i) = {} /\ Readers(i)' = {}
              /\ buf'[t] = i /\ ~ in_use[i]
              /\ \A j \in Slots \ {i} :
                   Keepers(j)' = Keepers(j) /\ Readers(j)' = Readers(j)
<1>0. ThreadsOK /\ PoolOK /\ t \in Threads
  BY Basics DEF TypeInv, TypeOK, ThreadsOK
<1>1. PICK i \in Slots :
        /\ ~ in_use[i]
        /\ in_use' = [in_use EXCEPT ![i] = TRUE]
        /\ reference_counter' = [reference_counter EXCEPT ![i] = 1]
        /\ buf' = [buf EXCEPT ![t] = i]
  BY DEF AllocScan
<1>2. /\ pc[t] = "scan" /\ pc'[t] \in {"recv", "fill"} /\ buf'[t] = i
      /\ queue' = queue
  BY <1>0, <1>1 DEF AllocScan, Goto, ThreadsOK, PlacesOK, ProducersOK, queues
<1>3. Keepers(i) = {} /\ Readers(i) = {}
  BY <1>1 DEF Holding, Taken
<1>4. \A j : /\ ~ HoldsAlone(t, j) /\ (HoldsAlone(t, j)' <=> j = i)
             /\ \A r : ~ StillUpdating(t, j, r) /\ ~ StillUpdating(t, j, r)'
  BY <1>2 DEF HoldsAlone, StillUpdating
<1>5. \A j : \A u \in Producers \ {t} :
        /\ HoldsAlone(u, j)' <=> HoldsAlone(u, j)
        /\ \A r : StillUpdating(u, j, r)' <=> StillUpdating(u, j, r)
  BY SameProducer, Basics
<1>6. \A j : \A r \in Receivers : /\ InHand(r, j)' <=> InHand(r, j)
                                  /\ Queued(r, j)' <=> Queued(r, j)
                                  /\ Updating(r, j)' <=> Updating(r, j)
  <2>1. \A j : \A r \in Receivers : /\ InHand(r, j)' <=> InHand(r, j)
                                    /\ Queued(r, j)' <=> Queued(r, j)
    BY <1>2, SameReceiver, Basics DEF Queued
  <2>2. \A j : \A r \in Receivers : Updating(r, j)' <=> Updating(r, j)
    BY <1>4, <1>5 DEF Updating
  <2>. QED
    BY <2>1, <2>2
<1>7. /\ Keepers(i)' = {t}
      /\ \A j \in Slots \ {i} : Keepers(j)' = Keepers(j)
  BY <1>3, <1>4, <1>5 DEF Keepers
<1>8. \A j \in Slots : Readers(j)' = Readers(j)
  BY <1>4, <1>5, <1>6 DEF Readers
<1>9. Taken' /\ Counted'
  BY <1>0, <1>1, <1>3, <1>7, <1>8 DEF Holding, Taken, Counted, PoolOK
<1>10. Exclusive'
  BY <1>3, <1>4, <1>5, <1>7, <1>8 DEF Holding, Exclusive, Keepers
<1>11. Once' /\ Distinct'
  BY <1>2, <1>6 DEF Holding, Once, Distinct
<1>12. OneUpdates'
  <2>1. \A j : \A u \in Producers : \A r : StillUpdating(u, j, r)' => StillUpdating(u, j, r)
    BY <1>4, <1>5
  <2>. QED
    BY <2>1 DEF Holding, OneUpdates
<1>. QED
  BY <1>1, <1>2, <1>3, <1>7, <1>8, <1>9, <1>10, <1>11, <1>12 DEF Holding

\* A producer shares its buffer among the observers.
LEMMA SharesHolding ==
  ASSUME TypeInv, Holding, NEW t \in Producers, \A u \in Threads \ {t} : Same(u),
         Shares(t)
  PROVE  /\ Holding'
         /\ \E i \in Slots :
              /\ i = buf[t]
              /\ Keepers(i) = {t} /\ Keepers(i)' = {}
              /\ Readers(i) = {} /\ Readers(i)' = Matching(out[t])
              /\ \A j \in Slots \ {i} :
                   Keepers(j)' = Keepers(j) /\ Readers(j)' = Readers(j)
<1>0. ThreadsOK /\ PoolOK /\ t \in Threads /\ buf[t] \in Slots
  BY Basics DEF TypeInv, TypeOK, ThreadsOK, ProducersOK
<1>01. PICK i \in Slots : i = buf[t]
  BY <1>0
<1>1. /\ pc[t] = "notify" /\ pc'[t] = "update" /\ buf'[t] = i
      /\ rest'[t] = Matching(out[t]) /\ Matching(out[t]) # {}
      /\ Matching(out[t]) \subseteq Receivers
      /\ queue' = queue /\ in_use' = in_use
      /\ reference_counter' = [reference_counter EXCEPT ![i] = Cardinality(Matching(out[t]))]
  BY <1>01 DEF Shares, queues, Matching
<1>2. HoldsAlone(t, i)
  BY <1>01, <1>1 DEF HoldsAlone
<1>3. Keepers(i) = {t} /\ Readers(i) = {}
  BY <1>0, <1>2 DEF Holding, Exclusive
<1>4. \A j : /\ (HoldsAlone(t, j) <=> j = i) /\ ~ HoldsAlone(t, j)'
             /\ \A r : /\ ~ StillUpdating(t, j, r)
                       /\ StillUpdating(t, j, r)' <=> j = i /\ r \in Matching(out[t])
  BY <1>01, <1>1 DEF HoldsAlone, StillUpdating
<1>5. \A j : \A u \in Producers \ {t} :
        /\ HoldsAlone(u, j)' <=> HoldsAlone(u, j)
        /\ \A r : StillUpdating(u, j, r)' <=> StillUpdating(u, j, r)
  BY SameProducer, Basics
<1>6. \A j : \A r \in Receivers : /\ InHand(r, j)' <=> InHand(r, j)
                                  /\ Queued(r, j)' <=> Queued(r, j)
  BY <1>1, SameReceiver, Basics DEF Queued
<1>7. \A r \in Receivers : ~ Queued(r, i) /\ ~ InHand(r, i) /\ ~ Updating(r, i)
  BY <1>3, Reading
<1>8. \A j : \A r \in Receivers :
        Updating(r, j)' <=> \/ j = i /\ r \in Matching(out[t])
                            \/ j # i /\ Updating(r, j)
  <2>1. \A r \in Receivers : \A u \in Producers : ~ StillUpdating(u, i, r)
    BY <1>7 DEF Updating
  <2>2. SUFFICES ASSUME NEW j, NEW r \in Receivers
        PROVE  Updating(r, j)' <=>
                 (j = i /\ r \in Matching(out[t])) \/ (j # i /\ Updating(r, j))
    OBVIOUS
  <2>3. \A u \in Producers :
          StillUpdating(u, j, r)' <=>
            \/ u = t /\ j = i /\ r \in Matching(out[t])
            \/ j # i /\ StillUpdating(u, j, r)
    <3>1. StillUpdating(t, j, r)' <=> j = i /\ r \in Matching(out[t])
      BY <1>4
    <3>2. ~ StillUpdating(t, j, r)
      BY <1>4
    <3>3. \A u \in Producers \ {t} : StillUpdating(u, j, r)' <=> StillUpdating(u, j, r)
      BY <1>5
    <3>4. \A u \in Producers : ~ StillUpdating(u, i, r)
      BY <2>1
    <3>. QED
      BY <3>1, <3>2, <3>3, <3>4
  <2>. QED
    BY <2>3 DEF Updating
<1>9. /\ Keepers(i)' = {}
      /\ \A j \in Slots \ {i} : Keepers(j)' = Keepers(j)
  BY <1>3, <1>4, <1>5 DEF Keepers
<1>10. Readers(i)' = Matching(out[t])
  <2>1. \A r \in Receivers : r \in Readers(i)' <=> r \in Matching(out[t])
    BY <1>6, <1>7, <1>8 DEF Readers, Updating
  <2>. QED
    BY <1>1, <2>1 DEF Readers
<1>11. \A j \in Slots \ {i} : Readers(j)' = Readers(j)
  BY <1>4, <1>5, <1>6 DEF Readers
<1>12. Taken'
  BY <1>1, <1>3, <1>9, <1>10, <1>11 DEF Holding, Taken
<1>13. Counted'
  BY <1>0, <1>1, <1>9, <1>10, <1>11 DEF Holding, Counted, PoolOK
<1>14. Exclusive'
  <2>1. SUFFICES ASSUME NEW j \in Slots, NEW u \in Producers, HoldsAlone(u, j)'
        PROVE  Keepers(j)' = {u} /\ Readers(j)' = {}
    BY DEF Exclusive
  <2>2. u # t /\ HoldsAlone(u, j)
    BY <1>4, <1>5, <2>1
  <2>3. j # i
    BY <1>3, <2>2 DEF Keepers
  <2>. QED
    BY <1>9, <1>11, <2>2, <2>3 DEF Holding, Exclusive
<1>15. Once'
  BY <1>6, <1>7, <1>8 DEF Holding, Once
<1>16. Distinct'
  BY <1>1 DEF Holding, Distinct
<1>17. OneUpdates'
  <2>1. \A r \in Receivers : \A u \in Producers : ~ StillUpdating(u, i, r)
    BY <1>7 DEF Updating
  <2>2. SUFFICES ASSUME NEW j \in Slots, NEW u \in Producers, NEW v \in Producers,
                        NEW r \in Receivers, NEW q \in Receivers,
                        StillUpdating(u, j, r)', StillUpdating(v, j, q)'
        PROVE  u = v
    BY DEF OneUpdates
  <2>3. CASE j = i
    BY <1>5, <2>1, <2>2, <2>3
  <2>4. CASE j # i
    <3>1. StillUpdating(u, j, r) /\ StillUpdating(v, j, q)
      BY <1>4, <1>5, <2>2, <2>4
    <3>. QED
      BY <3>1 DEF Holding, OneUpdates
  <2>. QED
    BY <2>3, <2>4
<1>. QED
  BY <1>01, <1>3, <1>9, <1>10, <1>11, <1>12, <1>13, <1>14, <1>15, <1>16, <1>17 DEF Holding

\* A producer queues its buffer for one receiver.
LEMMA UpdateHolding ==
  ASSUME TypeInv, Holding, NEW t \in Producers, \A u \in Threads \ {t} : Same(u),
         Update(t)
  PROVE  /\ Holding'
         /\ \A j \in Slots : Keepers(j)' = Keepers(j) /\ Readers(j)' = Readers(j)
<1>0. ThreadsOK /\ QueuesOK /\ t \in Threads /\ rest[t] \in SUBSET Receivers
  BY Basics DEF TypeInv, TypeOK, ThreadsOK, ProducersOK
<1>1. PICK q \in Receivers, p \in Pairs :
        /\ pc[t] = "update" /\ First(q, rest[t])
        /\ p = [id |-> id[t], slot |-> buf[t], msg |-> out[t]]
        /\ queue' = [queue EXCEPT ![q] = Append(@, p)]
  BY Updates
<1>2. PICK i \in Slots : i = buf[t] /\ p.slot = i
  BY <1>1 DEF Pairs
<1>3. /\ pc'[t] = "post" /\ buf' = buf /\ rest' = rest
      /\ UNCHANGED <<in_use, reference_counter>>
  BY <1>0 DEF Update, Goto, ThreadsOK, PlacesOK, producer, pool
<1>4. \A j : /\ ~ HoldsAlone(t, j) /\ ~ HoldsAlone(t, j)'
             /\ \A r \in Receivers :
                  /\ StillUpdating(t, j, r) <=> j = i /\ r \in rest[t]
                  /\ StillUpdating(t, j, r)' <=> j = i /\ r \in rest[t] /\ r # q
  <2>1. \A r \in Receivers : r \in rest[t] => (~ First(r, rest[t]) <=> r # q)
    BY <1>0, <1>1, OneFirst
  <2>. QED
    BY <1>1, <1>2, <1>3, <2>1 DEF HoldsAlone, StillUpdating, First
<1>5. \A j : \A u \in Producers \ {t} :
        /\ HoldsAlone(u, j)' <=> HoldsAlone(u, j)
        /\ \A r : StillUpdating(u, j, r)' <=> StillUpdating(u, j, r)
  BY SameProducer, Basics
<1>6. \A j : \A r \in Receivers : InHand(r, j)' <=> InHand(r, j)
  BY SameReceiver, Basics
<1>7. StillUpdating(t, i, q) /\ Updating(q, i) /\ ~ Queued(q, i) /\ ~ InHand(q, i)
  BY <1>1, <1>4 DEF First, Updating, Holding, Once
<1>8. \A j : \A r \in Receivers :
        Queued(r, j)' <=> Queued(r, j) \/ (r = q /\ j = i)
  <2>1. \A j : Queued(q, j)' <=> Queued(q, j) \/ j = i
    <3>1. queue[q] \in Seq(Pairs) /\ queue'[q] = Append(queue[q], p)
      BY <1>0, <1>1 DEF QueuesOK
    <3>. QED
      BY <1>2, <3>1, Adding DEF Queued
  <2>2. \A j : \A r \in Receivers \ {q} : Queued(r, j)' <=> Queued(r, j)
    BY <1>0, <1>1 DEF Queued, QueuesOK
  <2>. QED
    BY <2>1, <2>2
<1>9. \A j \in Slots : \A r \in Receivers :
        Updating(r, j)' <=> Updating(r, j) /\ ~ (r = q /\ j = i)
  <2>1. ~ Updating(q, i)'
    <3>1. \A u \in Producers \ {t} : ~ StillUpdating(u, i, q)
      BY <1>7 DEF Holding, OneUpdates
    <3>2. ~ StillUpdating(t, i, q)'
      BY <1>4
    <3>. QED
      BY <1>5, <3>1, <3>2 DEF Updating
  <2>2. SUFFICES ASSUME NEW j \in Slots, NEW r \in Receivers, ~ (r = q /\ j = i)
        PROVE  Updating(r, j)' <=> Updating(r, j)
    BY <1>7, <2>1
  <2>3. \A u \in Producers : StillUpdating(u, j, r)' <=> StillUpdating(u, j, r)
    BY <1>4, <1>5, <2>2
  <2>. QED
    BY <2>3 DEF Updating
<1>10. \A j \in Slots : Keepers(j)' = Keepers(j) /\ Readers(j)' = Readers(j)
  <2>1. \A j \in Slots : Keepers(j)' = Keepers(j)
    BY <1>4, <1>5 DEF Keepers
  <2>2. ASSUME NEW j \in Slots
        PROVE  Readers(j)' = Readers(j)
    <3>1. \A r \in Receivers : r \in Readers(j)' <=> r \in Readers(j)
      <4>1. \A r \in Receivers :
              Queued(r, j)' \/ InHand(r, j)' \/ Updating(r, j)'
                <=> Queued(r, j) \/ InHand(r, j) \/ Updating(r, j)
        BY <1>6, <1>7, <1>8, <1>9
      <4>. QED
        BY <4>1 DEF Readers, Updating
    <3>. QED
      BY <3>1 DEF Readers
  <2>. QED
    BY <2>1, <2>2
<1>11. Taken' /\ Counted'
  BY <1>3, <1>10 DEF Holding, Taken, Counted
<1>12. Exclusive'
  BY <1>4, <1>5, <1>10 DEF Holding, Exclusive
<1>13. Once'
  BY <1>6, <1>7, <1>8, <1>9 DEF Holding, Once
<1>14. Distinct'
  <2>1. queue[q] \in Seq(Pairs) /\ queue'[q] = Append(queue[q], p)
    BY <1>0, <1>1 DEF QueuesOK
  <2>2. \A k \in DOMAIN queue[q] : queue[q][k].slot # i
    BY <1>7 DEF Queued
  <2>3. \A j, k \in DOMAIN queue'[q] : queue'[q][j].slot = queue'[q][k].slot => j = k
    BY <1>2, <2>1, <2>2, Adding DEF Holding, Distinct
  <2>4. \A r \in Receivers \ {q} : queue'[r] = queue[r]
    BY <1>0, <1>1 DEF QueuesOK
  <2>. QED
    BY <2>3, <2>4 DEF Holding, Distinct
<1>15. OneUpdates'
  <2>1. \A j : \A u \in Producers : \A r \in Receivers :
          StillUpdating(u, j, r)' => StillUpdating(u, j, r)
    BY <1>4, <1>5
  <2>. QED
    BY <2>1 DEF Holding, OneUpdates
<1>. QED
  BY <1>10, <1>11, <1>12, <1>13, <1>14, <1>15 DEF Holding

\* A receiver takes a buffer from its queue.
LEMMA RemoveHolding ==
  ASSUME TypeInv, Holding, NEW q \in Receivers, \A u \in Threads \ {q} : Same(u),
         Remove(q)
  PROVE  /\ Holding'
         /\ \A j \in Slots : Keepers(j)' = Keepers(j) /\ Readers(j)' = Readers(j)
<1>0. ThreadsOK /\ QueuesOK /\ q \in Threads
  BY Basics DEF TypeInv, TypeOK, ThreadsOK
<1>1. /\ pc[q] = "remove" /\ queue[q] # <<>> /\ queue[q] \in Seq(Pairs)
      /\ pc'[q] = "copy" /\ pair'[q] = Head(queue[q])
      /\ queue' = [queue EXCEPT ![q] = Tail(@)] /\ queue'[q] = Tail(queue[q])
      /\ UNCHANGED <<in_use, reference_counter>>
  BY <1>0 DEF Remove, Goto, ThreadsOK, PlacesOK, ReceiversOK, QueuesOK, pool
<1>2. /\ 1 \in DOMAIN queue[q] /\ pair'[q] = queue[q][1]
      /\ \A k \in DOMAIN queue[q] : k = 1 \/ k - 1 \in DOMAIN Tail(queue[q])
      /\ \A k \in DOMAIN Tail(queue[q]) :
           k + 1 \in DOMAIN queue[q] /\ Tail(queue[q])[k] = queue[q][k + 1]
      /\ DOMAIN queue[q] \subseteq Nat \ {0} /\ DOMAIN Tail(queue[q]) \subseteq Nat \ {0}
  BY <1>1, Taking, LenProperties
<1>3. PICK i \in Slots : i = queue[q][1].slot
  <2>1. queue[q][1] \in Pairs
    BY <1>1, <1>2, ElementOfSeq, LenProperties
  <2>. QED
    BY <2>1 DEF Pairs
<1>4. \A u \in Producers :
        \A j : /\ HoldsAlone(u, j)' <=> HoldsAlone(u, j)
               /\ \A r : StillUpdating(u, j, r)' <=> StillUpdating(u, j, r)
  BY SameProducer, Basics
<1>5. \A j : \A r \in Receivers : Updating(r, j)' <=> Updating(r, j)
  BY <1>4 DEF Updating
<1>6. \A j : \A r \in Receivers \ {q} : /\ InHand(r, j)' <=> InHand(r, j)
                                        /\ Queued(r, j)' <=> Queued(r, j)
  BY <1>0, <1>1, SameReceiver, Basics DEF Queued, QueuesOK
<1>7. \A j : ~ InHand(q, j) /\ (InHand(q, j)' <=> j = i)
  BY <1>1, <1>2, <1>3 DEF InHand
<1>8. \A j : Queued(q, j)' <=> Queued(q, j) /\ j # i
  <2>1. SUFFICES ASSUME NEW j
        PROVE  Queued(q, j)' <=> Queued(q, j) /\ j # i
    OBVIOUS
  <2>2. ASSUME NEW k \in DOMAIN Tail(queue[q]), Tail(queue[q])[k].slot = j
        PROVE  Queued(q, j) /\ j # i
    <3>1. k + 1 # 1 /\ queue[q][k + 1].slot = j /\ k + 1 \in DOMAIN queue[q]
      BY <1>2, <2>2
    <3>. QED
      BY <1>2, <1>3, <3>1 DEF Queued, Holding, Distinct
  <2>3. ASSUME NEW k \in DOMAIN queue[q], queue[q][k].slot = j, j # i
        PROVE  Queued(q, j)'
    <3>1. k # 1 /\ k - 1 \in DOMAIN Tail(queue[q]) /\ (k - 1) + 1 = k
      BY <1>2, <1>3, <2>3
    <3>2. Tail(queue[q])[k - 1].slot = j
      BY <1>2, <2>3, <3>1
    <3>. QED
      BY <1>1, <3>1, <3>2 DEF Queued
  <2>. QED
    BY <1>1, <2>2, <2>3 DEF Queued
<1>9. Queued(q, i) /\ ~ Updating(q, i)
  BY <1>2, <1>3 DEF Queued, Holding, Once
<1>10. \A j \in Slots : Keepers(j)' = Keepers(j) /\ Readers(j)' = Readers(j)
  <2>1. \A j \in Slots : Keepers(j)' = Keepers(j)
    BY <1>4 DEF Keepers
  <2>2. ASSUME NEW j \in Slots
        PROVE  Readers(j)' = Readers(j)
    <3>1. \A r \in Receivers : r \in Readers(j)' <=> r \in Readers(j)
      <4>1. \A r \in Receivers :
              Queued(r, j)' \/ InHand(r, j)' \/ Updating(r, j)'
                <=> Queued(r, j) \/ InHand(r, j) \/ Updating(r, j)
        BY <1>5, <1>6, <1>7, <1>8, <1>9
      <4>. QED
        BY <4>1 DEF Readers, Updating
    <3>. QED
      BY <3>1 DEF Readers
  <2>. QED
    BY <2>1, <2>2
<1>11. Taken' /\ Counted'
  BY <1>1, <1>10 DEF Holding, Taken, Counted
<1>12. Exclusive'
  BY <1>4, <1>10 DEF Holding, Exclusive
<1>13. Once'
  BY <1>5, <1>6, <1>7, <1>8, <1>9 DEF Holding, Once
<1>14. Distinct'
  <2>1. \A j, k \in DOMAIN Tail(queue[q]) :
          Tail(queue[q])[j].slot = Tail(queue[q])[k].slot => j = k
    <3>1. SUFFICES ASSUME NEW j \in DOMAIN Tail(queue[q]), NEW k \in DOMAIN Tail(queue[q]),
                          Tail(queue[q])[j].slot = Tail(queue[q])[k].slot
          PROVE  j = k
      OBVIOUS
    <3>2. j + 1 = k + 1
      BY <1>2, <3>1 DEF Holding, Distinct
    <3>. QED
      BY <1>2, <3>2
  <2>2. \A r \in Receivers \ {q} : queue'[r] = queue[r]
    BY <1>0, <1>1 DEF QueuesOK
  <2>. QED
    BY <1>1, <2>1, <2>2 DEF Holding, Distinct
<1>15. OneUpdates'
  BY <1>4 DEF Holding, OneUpdates
<1>. QED
  BY <1>10, <1>11, <1>12, <1>13, <1>14, <1>15 DEF Holding

\* A producer gives back the buffer it holds alone.
LEMMA ProducerFreeHolding ==
  ASSUME TypeInv, Holding, NEW t \in Producers, \A u \in Threads \ {t} : Same(u),
         ProducerFree(t)
  PROVE  /\ Holding'
         /\ \E i \in Slots :
              /\ i = buf[t]
              /\ in_use[i] /\ reference_counter[i] = 1
              /\ Keepers(i) = {t} /\ Keepers(i)' = {}
              /\ Readers(i) = {} /\ Readers(i)' = {}
              /\ \A j \in Slots \ {i} :
                   Keepers(j)' = Keepers(j) /\ Readers(j)' = Readers(j)
<1>0. ThreadsOK /\ PoolOK /\ t \in Threads /\ t \notin Receivers
  BY Basics DEF TypeInv, TypeOK, ThreadsOK
<1>1. PICK i \in Slots : i = buf[t]
  BY <1>0 DEF ThreadsOK, ProducersOK
<1>2. /\ pc[t] = "free" /\ queue' = queue
      /\ reference_counter' = [reference_counter EXCEPT ![i] = @ - 1]
      /\ in_use' = [in_use EXCEPT ![i] = @ /\ reference_counter[i] > 1]
      /\ pc'[t] \in AwayPlaces
  <2>1. AfterFree(t) \/ Goto(t, "signal")
    BY DEF ProducerFree, Release
  <2>2. pc'[t] \in AwayPlaces
    BY <1>0, <2>1, ReturnAway DEF Goto, ThreadsOK, PlacesOK, AwayPlaces
  <2>. QED
    BY <1>1, <2>2 DEF ProducerFree, Release, queues
<1>3. \A j : /\ (HoldsAlone(t, j) <=> j = i) /\ ~ HoldsAlone(t, j)'
             /\ \A r : ~ StillUpdating(t, j, r) /\ ~ StillUpdating(t, j, r)'
  BY <1>1, <1>2 DEF HoldsAlone, StillUpdating, AwayPlaces
<1>4. /\ Keepers(i) = {t} /\ Readers(i) = {}
      /\ in_use[i] /\ reference_counter[i] = 1
  <2>1. Keepers(i) = {t} /\ Readers(i) = {}
    BY <1>3 DEF Holding, Exclusive
  <2>. QED
    BY <2>1 DEF Holding, Taken, Counted
<1>5. \A j : \A u \in Producers \ {t} :
        /\ HoldsAlone(u, j)' <=> HoldsAlone(u, j)
        /\ \A r : StillUpdating(u, j, r)' <=> StillUpdating(u, j, r)
  BY SameProducer, Basics
<1>6. \A j : \A r \in Receivers : /\ InHand(r, j)' <=> InHand(r, j)
                                  /\ Queued(r, j)' <=> Queued(r, j)
                                  /\ Updating(r, j)' <=> Updating(r, j)
  <2>1. \A j : \A r \in Receivers : /\ InHand(r, j)' <=> InHand(r, j)
                                    /\ Queued(r, j)' <=> Queued(r, j)
    BY <1>2, SameReceiver, Basics DEF Queued
  <2>2. \A j : \A r \in Receivers : Updating(r, j)' <=> Updating(r, j)
    BY <1>3, <1>5 DEF Updating
  <2>. QED
    BY <2>1, <2>2
<1>7. /\ Keepers(i)' = {}
      /\ \A j \in Slots \ {i} : Keepers(j)' = Keepers(j)
  BY <1>3, <1>4, <1>5 DEF Keepers
<1>8. \A j \in Slots : Readers(j)' = Readers(j)
  BY <1>3, <1>5, <1>6 DEF Readers
<1>9. Taken' /\ Counted'
  BY <1>0, <1>2, <1>4, <1>7, <1>8 DEF Holding, Taken, Counted, PoolOK
<1>10. Exclusive'
  BY <1>3, <1>5, <1>7, <1>8 DEF Holding, Exclusive, Keepers
<1>11. Once' /\ Distinct'
  BY <1>2, <1>6 DEF Holding, Once, Distinct
<1>12. OneUpdates'
  <2>1. \A j : \A u \in Producers : \A r : StillUpdating(u, j, r)' => StillUpdating(u, j, r)
    BY <1>3, <1>5
  <2>. QED
    BY <2>1 DEF Holding, OneUpdates
<1>. QED
  BY <1>1, <1>4, <1>7, <1>8, <1>9, <1>10, <1>11, <1>12 DEF Holding

\* A receiver frees the buffer it has copied.
LEMMA ReceiverFreeHolding ==
  ASSUME TypeInv, Holding, NEW q \in Receivers, \A u \in Threads \ {q} : Same(u),
         ReceiverFree(q)
  PROVE  /\ Holding'
         /\ \E i \in Slots :
              /\ i = pair[q].slot
              /\ in_use[i] /\ reference_counter[i] = Cardinality(Readers(i))
              /\ Keepers(i) = {} /\ Keepers(i)' = {}
              /\ q \in Readers(i) /\ Readers(i)' = Readers(i) \ {q}
              /\ \A j \in Slots \ {i} :
                   Keepers(j)' = Keepers(j) /\ Readers(j)' = Readers(j)
<1>0. ThreadsOK /\ PoolOK /\ q \in Threads
  BY Basics DEF TypeInv, TypeOK, ThreadsOK
<1>1. PICK i \in Slots : i = pair[q].slot
  BY DEF TypeInv, Equipped, PairPlaces, ReceiverPlaces, Pairs, ReceiverFree, Release
<1>2. /\ pc[q] = "free" /\ queue' = queue
      /\ reference_counter' = [reference_counter EXCEPT ![i] = @ - 1]
      /\ in_use' = [in_use EXCEPT ![i] = @ /\ reference_counter[i] > 1]
      /\ pc'[q] \in {"wait", "length", "signal"}
  <2>1. AfterFree(q) \/ Goto(q, "signal")
    BY DEF ReceiverFree, Release
  <2>2. pc'[q] \in {"wait", "length", "signal"}
    BY <1>0, <2>1, ReturnAway DEF Goto, ThreadsOK, PlacesOK
  <2>. QED
    BY <1>1, <2>2 DEF ReceiverFree, Release, queues
<1>3. \A j : (InHand(q, j) <=> j = i) /\ ~ InHand(q, j)'
  BY <1>1, <1>2 DEF InHand
<1>4. /\ q \in Readers(i) /\ in_use[i] /\ reference_counter[i] = Cardinality(Readers(i))
      /\ Keepers(i) = {} /\ ~ Queued(q, i) /\ ~ Updating(q, i)
  <2>1. q \in Readers(i)
    BY <1>3 DEF Readers
  <2>2. Keepers(i) = {}
    BY <2>1 DEF Holding, Exclusive, Keepers
  <2>3. ~ Queued(q, i) /\ ~ Updating(q, i)
    BY <1>3 DEF Holding, Once
  <2>. QED
    BY <2>1, <2>2, <2>3 DEF Holding, Taken, Counted
<1>5. \A j : \A u \in Producers :
        /\ HoldsAlone(u, j)' <=> HoldsAlone(u, j)
        /\ \A r : StillUpdating(u, j, r)' <=> StillUpdating(u, j, r)
  BY SameProducer, Basics
<1>6. \A j : \A r \in Receivers : /\ Queued(r, j)' <=> Queued(r, j)
                                  /\ Updating(r, j)' <=> Updating(r, j)
                                  /\ r # q => (InHand(r, j)' <=> InHand(r, j))
  BY <1>2, <1>5, SameReceiver, Basics DEF Queued, Updating
<1>7. \A j \in Slots : Keepers(j)' = Keepers(j)
  BY <1>5 DEF Keepers
<1>8. ASSUME NEW j \in Slots
      PROVE  Readers(j)' = IF j = i THEN Readers(j) \ {q} ELSE Readers(j)
  <2>1. \A r \in Receivers : /\ r \in Readers(j) <=> Queued(r, j) \/ InHand(r, j) \/ Updating(r, j)
                             /\ r \in Readers(j)' <=> Queued(r, j)' \/ InHand(r, j)' \/ Updating(r, j)'
    BY DEF Readers, Updating
  <2>2. \A r \in Receivers : r \in Readers(j)' <=> r \in Readers(j) /\ ~ (r = q /\ j = i)
    BY <1>3, <1>4, <1>6, <2>1
  <2>3. Readers(j) \subseteq Receivers /\ Readers(j)' \subseteq Receivers
    BY DEF Readers
  <2>. QED
    BY <2>2, <2>3
<1>9. /\ Cardinality(Readers(i)') = Cardinality(Readers(i)) - 1
      /\ Cardinality(Readers(i)) \in Nat
      /\ Cardinality(Readers(i)) = 1 => Readers(i)' = {}
  <2>1. Readers(i)' = Readers(i) \ {q}
    BY <1>8
  <2>2. Cardinality(Readers(i) \ {q}) = Cardinality(Readers(i)) - 1
    BY <1>4, Sets, FS_RemoveElement
  <2>3. IsFiniteSet(Readers(i) \ {q})
    BY Sets, FS_Subset
  <2>4. Cardinality(Readers(i)) = 1 => Readers(i) \ {q} = {}
    BY <2>2, <2>3, FS_EmptySet
  <2>. QED
    BY <2>1, <2>2, <2>4, Sets
<1>10. Taken'
  <2>1. SUFFICES ASSUME NEW j \in Slots, Keepers(j)' # {} \/ Readers(j)' # {}
        PROVE  in_use'[j]
    BY DEF Taken
  <2>2. CASE j = i
    <3>1. Cardinality(Readers(i)) # 1 /\ Cardinality(Readers(i)) # 0
      BY <1>4, <1>7, <1>9, <2>1, <2>2, Sets, FS_EmptySet
    <3>2. reference_counter[i] > 1
      BY <1>4, <1>9, <3>1
    <3>. QED
      BY <1>0, <1>2, <1>4, <2>2, <3>2 DEF PoolOK
  <2>3. CASE j # i
    BY <1>0, <1>2, <1>7, <1>8, <2>1, <2>3 DEF Holding, Taken, PoolOK
  <2>. QED
    BY <2>2, <2>3
<1>11. Counted'
  <2>1. SUFFICES ASSUME NEW j \in Slots
        PROVE  /\ Keepers(j)' # {} => reference_counter'[j] = 1
               /\ Readers(j)' # {} => reference_counter'[j] = Cardinality(Readers(j)')
    BY DEF Counted
  <2>2. CASE j = i
    BY <1>0, <1>2, <1>4, <1>7, <1>9, <2>2 DEF PoolOK
  <2>3. CASE j # i
    BY <1>0, <1>2, <1>7, <1>8, <2>3 DEF Holding, Counted, PoolOK
  <2>. QED
    BY <2>2, <2>3
<1>12. Exclusive'
  <2>1. SUFFICES ASSUME NEW j \in Slots, NEW u \in Producers, HoldsAlone(u, j)'
        PROVE  Keepers(j)' = {u} /\ Readers(j)' = {}
    BY DEF Exclusive
  <2>2. Keepers(j) = {u} /\ Readers(j) = {}
    BY <1>5, <2>1 DEF Holding, Exclusive
  <2>. QED
    BY <1>7, <1>8, <2>2
<1>13. Once' /\ Distinct'
  BY <1>2, <1>3, <1>6 DEF Holding, Once, Distinct
<1>14. OneUpdates'
  <2>1. \A j : \A u \in Producers : \A r : StillUpdating(u, j, r)' => StillUpdating(u, j, r)
    BY <1>5
  <2>. QED
    BY <2>1 DEF Holding, OneUpdates
<1>. QED
  BY <1>1, <1>4, <1>7, <1>8, <1>10, <1>11, <1>12, <1>13, <1>14 DEF Holding

LEMMA HoldingStep ==
  ASSUME TypeInv, Holding, [Next]_vars
  PROVE  Holding'
<1>1. ASSUME NEW t \in Threads, \A u \in Threads \ {t} : Same(u),
             \/ t \in Producers /\ (Away(t) \/ Alone(t) \/ Post(t))
             \/ t \in Receivers /\ (AwaitPost(t) \/ Copy(t) \/ Empty(t))
      PROVE  Holding'
  <2>1. 0 \in Slots /\ \A i \in Slots : /\ Stays(i) /\ queue' = queue
                        /\ UNCHANGED <<in_use, reference_counter>>
    BY <1>1, StaysWhen, Basics
  <2>. QED
    BY <2>1, HoldingStays
<1>2. CASE /\ UNCHANGED <<in_use, reference_counter, frame, queues>>
           /\ \A u \in Threads : Same(u)
  <2>1. queue' = queue
    BY <1>2 DEF queues
  <2>2. \A i \in Slots : Stays(i)
    BY <1>2, <2>1, SameProducer, SameReceiver, Basics DEF Stays, Queued
  <2>. QED
    BY <1>2, <2>1, <2>2, HoldingStays
<1>. QED
  BY <1>1, <1>2, Kinds, ScanHolding, SharesHolding, UpdateHolding, RemoveHolding,
     ProducerFreeHolding, ReceiverFreeHolding, Basics

-----------------------------------------------------------------------------
\* What is in the buffers.

\* A producer that is about to pass its buffer on has written its message to it.
Passing(t) == pc[t] \in WrittenPlaces \/ \E r \in Receivers : StillUpdating(t, buf[t], r)
Written == \A t \in Producers : Passing(t) => frame[buf[t]] = out[t]

Kept(p) == frame[p.slot] = p.msg
Frames ==
  \A r \in Receivers : /\ \A k \in DOMAIN queue[r] : Kept(queue[r][k])
                       /\ pc[r] = "copy" => Kept(pair[r])

BusInv == TypeInv /\ Holding /\ Written /\ Frames

LEMMA WrittenInit == Init => Written /\ Frames
<1>. SUFFICES ASSUME Init PROVE Written /\ Frames
  OBVIOUS
<1>1. /\ \A t \in Producers : pc[t] = "idle"
      /\ \A r \in Receivers : pc[r] = "wait" /\ queue[r] = <<>>
  BY Basics DEF Init
<1>2. \A r \in Receivers : DOMAIN queue[r] = {}
  BY <1>1, EmptySeq, LenProperties
<1>. QED
  BY <1>1, <1>2 DEF Written, Frames, Passing, WrittenPlaces, StillUpdating

\* Whoever waits for the contents of a buffer has it.
LEMMA Waiting ==
  ASSUME TypeInv, Holding, NEW t \in Producers, HoldsAlone(t, buf[t])
  PROVE  /\ \A u \in Producers \ {t} : Passing(u) => buf[u] # buf[t]
         /\ \A r \in Receivers :
              /\ \A k \in DOMAIN queue[r] : queue[r][k].slot # buf[t]
              /\ pc[r] = "copy" => pair[r].slot # buf[t]
<1>1. buf[t] \in Slots /\ \A u \in Producers : buf[u] \in Slots
  BY DEF TypeInv, TypeOK, ProducersOK
<1>2. Keepers(buf[t]) = {t} /\ Readers(buf[t]) = {}
  BY <1>1 DEF Holding, Exclusive
<1>3. \A u \in Producers \ {t} : pc[u] \in WrittenPlaces => buf[u] # buf[t]
  BY <1>2 DEF Keepers, HoldsAlone, WrittenPlaces
<1>4. \A u \in Producers, r \in Receivers : StillUpdating(u, buf[u], r) => buf[u] # buf[t]
  BY <1>2 DEF Readers
<1>5. \A r \in Receivers : ~ Queued(r, buf[t]) /\ ~ InHand(r, buf[t])
  BY <1>2 DEF Readers
<1>. QED
  BY <1>3, <1>4, <1>5 DEF Passing, Queued, InHand

\* The steps that leave all buffers as they are.
LEMMA SameFrames ==
  ASSUME Frames, frame' = frame, queue' = queue,
         \A r \in Receivers : pc'[r] = "copy" => pc[r] = "copy" /\ pair'[r] = pair[r]
  PROVE  Frames'
  BY DEF Frames, Kept

LEMMA SamePassing ==
  ASSUME NEW u \in Producers, Same(u)
  PROVE  /\ Passing(u)' <=> Passing(u)
         /\ buf'[u] = buf[u] /\ out'[u] = out[u]
<1>1. \A r \in Receivers : StillUpdating(u, buf[u], r)' <=> StillUpdating(u, buf[u], r)
  BY DEF Same, StillUpdating, First
<1>. QED
  BY <1>1 DEF Same, Passing

LEMMA WrittenStep ==
  ASSUME BusInv, [Next]_vars
  PROVE  Written'
<1>0. ThreadsOK /\ \A u \in Producers : buf[u] \in Slots
  BY DEF BusInv, TypeInv, TypeOK, ThreadsOK, ProducersOK
<1>1. ASSUME NEW t \in Producers, \A u \in Threads \ {t} : Same(u), frame' = frame,
             Passing(t)' => Passing(t) /\ buf'[t] = buf[t] /\ out'[t] = out[t]
      PROVE  Written'
  BY <1>1, SamePassing, Basics DEF BusInv, Written
<1>2. ASSUME NEW t \in Producers, \A u \in Threads \ {t} : Same(u), Alone(t)
      PROVE  Written'
  <2>1. HoldsAlone(t, buf[t])
    BY <1>2 DEF Alone, AlonePlaces, HoldsAlone
  <2>2. ASSUME NEW u \in Producers \ {t}, Passing(u)'
        PROVE  frame'[buf'[u]] = out'[u]
    <3>1. Passing(u) /\ buf'[u] = buf[u] /\ out'[u] = out[u] /\ buf[u] # buf[t]
      BY <1>2, <2>1, <2>2, SamePassing, Waiting, Basics DEF BusInv
    <3>2. frame'[buf[u]] = frame[buf[u]]
      BY <1>0, <1>2, <3>1 DEF Alone, BusInv, TypeInv, TypeOK
    <3>. QED
      BY <3>1, <3>2 DEF BusInv, Written
  <2>3. ASSUME Passing(t)'
        PROVE  frame'[buf'[t]] = out'[t]
    <3>1. pc'[t] \in WrittenPlaces
      BY <1>2, <2>3 DEF Alone, AlonePlaces, Passing, StillUpdating
    <3>2. CASE frame' = frame /\ pc[t] \in WrittenPlaces /\ out'[t] = out[t]
      BY <1>2, <3>2 DEF Alone, BusInv, Written, Passing
    <3>3. CASE \E m \in Messages : out'[t] = m /\ frame' = [frame EXCEPT ![buf[t]] = m]
      BY <1>0, <1>2, <3>3 DEF Alone, BusInv, TypeInv, TypeOK
    <3>. QED
      BY <1>2, <3>1, <3>2, <3>3 DEF Alone
  <2>. QED
    BY <2>2, <2>3 DEF Written
<1>3. ASSUME NEW t \in Producers,
             Away(t) \/ Shares(t) \/ AllocScan(t) \/ Update(t) \/ Post(t) \/ ProducerFree(t)
      PROVE  /\ frame' = frame
             /\ Passing(t)' => Passing(t) /\ buf'[t] = buf[t] /\ out'[t] = out[t]
  <2>0. t \in Threads /\ t \notin Receivers
    BY Basics
  <2>1. CASE Away(t)
    BY <2>1 DEF Away, AwayPlaces, Passing, WrittenPlaces, StillUpdating
  <2>2. CASE Shares(t)
    BY <2>2 DEF Shares, Passing, WrittenPlaces
  <2>3. CASE AllocScan(t)
    <3>1. pc'[t] \in {"recv", "fill"} /\ frame' = frame
      BY <1>0, <2>0, <2>3 DEF AllocScan, Goto, ThreadsOK, PlacesOK
    <3>. QED
      BY <3>1 DEF Passing, WrittenPlaces, StillUpdating
  <2>4. CASE Update(t)
    <3>1. /\ pc[t] = "update" /\ pc'[t] = "post" /\ frame' = frame
          /\ buf' = buf /\ out' = out /\ rest' = rest
      BY <1>0, <2>0, <2>4 DEF Update, Goto, ThreadsOK, PlacesOK, producer
    <3>. QED
      BY <3>1 DEF Passing, WrittenPlaces, StillUpdating
  <2>5. CASE Post(t)
    <3>1. pc[t] = "post" /\ frame' = frame
      BY <2>5 DEF Post
    <3>2. CASE Return(t)
      <4>1. pc'[t] \in AwayPlaces
        BY <1>0, <2>0, <3>2, ReturnAway
      <4>. QED
        BY <3>1, <4>1 DEF AwayPlaces, Passing, WrittenPlaces, StillUpdating
    <3>3. CASE ~ Return(t)
      <4>1. PICK q \in Receivers :
              /\ First(q, rest[t]) /\ rest[t] # {q}
              /\ rest' = [rest EXCEPT ![t] = @ \ {q}]
              /\ Goto(t, "update") /\ buf' = buf /\ out' = out
        BY <2>5, <3>3 DEF Post
      <4>2. pc'[t] = "update" /\ rest'[t] = rest[t] \ {q} /\ rest[t] \in SUBSET Receivers
        BY <1>0, <2>0, <4>1 DEF Goto, ThreadsOK, PlacesOK, ProducersOK
      <4>3. PICK r \in Receivers : r \in rest[t] /\ r # q
        BY <4>1, <4>2 DEF First
      <4>4. StillUpdating(t, buf[t], r)
        BY <3>1, <4>1, <4>3, OneFirst, <4>2 DEF StillUpdating
      <4>. QED
        BY <3>1, <4>1, <4>4 DEF Passing
    <3>. QED
      BY <3>2, <3>3
  <2>6. CASE ProducerFree(t)
    <3>1. AfterFree(t) \/ Goto(t, "signal")
      BY <2>6 DEF ProducerFree, Release
    <3>2. pc'[t] \in AwayPlaces
      BY <1>0, <2>0, <3>1, ReturnAway DEF Goto, ThreadsOK, PlacesOK, AwayPlaces
    <3>. QED
      BY <2>6, <3>2 DEF ProducerFree, Release, AwayPlaces, Passing, WrittenPlaces,
         StillUpdating
  <2>. QED
    BY <1>3, <2>1, <2>2, <2>3, <2>4, <2>5, <2>6
<1>4. ASSUME NEW r \in Receivers, \A u \in Threads \ {r} : Same(u),
             AwaitPost(r) \/ Remove(r) \/ Copy(r) \/ ReceiverFree(r) \/ Empty(r)
      PROVE  Written'
  <2>1. frame' = frame
    BY <1>4 DEF AwaitPost, Remove, Copy, ReceiverFree, Release, Empty
  <2>. QED
    BY <1>4, <2>1, SamePassing, Basics DEF BusInv, Written
<1>5. CASE frame' = frame /\ \A u \in Threads : Same(u)
  BY <1>5, SamePassing, Basics DEF BusInv, Written
<1>. QED
  BY <1>1, <1>2, <1>3, <1>4, <1>5, Kinds DEF BusInv

LEMMA FramesStep ==
  ASSUME BusInv, [Next]_vars
  PROVE  Frames'
<1>0. ThreadsOK /\ QueuesOK /\ TypeInv /\ Holding /\ Frames
  BY DEF BusInv, TypeInv, TypeOK, ThreadsOK
<1>1. ASSUME NEW t \in Producers, \A u \in Threads \ {t} : Same(u),
             Away(t) \/ Shares(t) \/ AllocScan(t) \/ Post(t) \/ ProducerFree(t)
      PROVE  Frames'
  <2>1. frame' = frame /\ queue' = queue
    BY <1>1 DEF Away, Shares, AllocScan, Post, ProducerFree, Release, queues
  <2>. QED
    BY <1>0, <1>1, <2>1, SameFrames, Basics DEF Same
<1>2. ASSUME NEW t \in Producers, \A u \in Threads \ {t} : Same(u), Alone(t)
      PROVE  Frames'
  <2>1. HoldsAlone(t, buf[t])
    BY <1>2 DEF Alone, AlonePlaces, HoldsAlone
  <2>2. \A i \in Slots : i # buf[t] => frame'[i] = frame[i]
    BY <1>0, <1>2 DEF Alone, TypeInv, TypeOK
  <2>3. ASSUME NEW r \in Receivers
        PROVE  /\ \A k \in DOMAIN queue'[r] : frame'[queue'[r][k].slot] = queue'[r][k].msg
               /\ pc'[r] = "copy" => frame'[pair'[r].slot] = pair'[r].msg
    <3>1. /\ pc'[r] = pc[r] /\ pair'[r] = pair[r] /\ queue' = queue
          /\ queue[r] \in Seq(Pairs)
      BY <1>0, <1>2, Basics DEF Same, Alone, queues, QueuesOK
    <3>2. ASSUME NEW k \in DOMAIN queue[r]
          PROVE  Kept(queue[r][k])'
      <4>1. queue[r][k] \in Pairs
        BY <3>1, ElementOfSeq, LenProperties
      <4>2. queue[r][k].slot \in Slots /\ queue[r][k].slot # buf[t]
        BY <1>0, <2>1, <4>1, Waiting DEF Pairs
      <4>. QED
        BY <1>0, <2>2, <3>1, <4>2 DEF Frames, Kept
    <3>3. ASSUME pc[r] = "copy"
          PROVE  Kept(pair[r])'
      <4>1. pair[r].slot \in Slots /\ pair[r].slot # buf[t]
        BY <1>0, <2>1, <3>3, Waiting DEF TypeInv, Equipped, PairPlaces, ReceiverPlaces, Pairs
      <4>. QED
        BY <1>0, <2>2, <3>1, <3>3, <4>1 DEF Frames, Kept
    <3>. QED
      BY <3>1, <3>2, <3>3 DEF Kept
  <2>. QED
    BY <2>3 DEF Frames, Kept
<1>3. ASSUME NEW t \in Producers, \A u \in Threads \ {t} : Same(u), Update(t)
      PROVE  Frames'
  <2>1. PICK q \in Receivers, p \in Pairs :
          /\ pc[t] = "update" /\ First(q, rest[t])
          /\ p = [id |-> id[t], slot |-> buf[t], msg |-> out[t]]
          /\ queue' = [queue EXCEPT ![q] = Append(@, p)]
    BY <1>0, <1>3, Updates
  <2>2. frame' = frame
    BY <1>3 DEF Update
  <2>3. Kept(p)
    <3>1. StillUpdating(t, buf[t], q)
      BY <2>1 DEF StillUpdating, First
    <3>. QED
      BY <2>1, <3>1 DEF BusInv, Written, Passing, Kept
  <2>4. /\ queue[q] \in Seq(Pairs) /\ queue'[q] = Append(queue[q], p)
        /\ \A r \in Receivers \ {q} : queue'[r] = queue[r]
    BY <1>0, <2>1 DEF QueuesOK
  <2>5. \A r \in Receivers : pc'[r] = pc[r] /\ pair'[r] = pair[r]
    BY <1>3, Basics DEF Same
  <2>6. \A k \in DOMAIN queue'[q] : Kept(queue'[q][k])
    BY <1>0, <2>3, <2>4, Adding DEF Frames
  <2>7. ASSUME NEW r \in Receivers
        PROVE  /\ \A k \in DOMAIN queue'[r] : Kept(queue'[r][k])
               /\ pc'[r] = "copy" => Kept(pair'[r])
    BY <1>0, <2>4, <2>5, <2>6 DEF Frames
  <2>. QED
    BY <2>2, <2>7 DEF Frames, Kept
<1>4. ASSUME NEW q \in Receivers, \A u \in Threads \ {q} : Same(u), Remove(q)
      PROVE  Frames'
  <2>1. /\ frame' = frame
        /\ queue' = [queue EXCEPT ![q] = Tail(@)]
        /\ pair' = [pair EXCEPT ![q] = Head(queue[q])]
        /\ queue[q] # <<>> /\ queue[q] \in Seq(Pairs)
    BY <1>0, <1>4 DEF Remove, QueuesOK
  <2>2. /\ 1 \in DOMAIN queue[q] /\ Head(queue[q]) = queue[q][1]
        /\ \A k \in DOMAIN Tail(queue[q]) :
             k + 1 \in DOMAIN queue[q] /\ Tail(queue[q])[k] = queue[q][k + 1]
    BY <2>1, Taking
  <2>3. \A k \in DOMAIN Tail(queue[q]) : Kept(Tail(queue[q])[k])
    BY <1>0, <2>2 DEF Frames
  <2>4. Kept(pair'[q])
    BY <1>0, <2>1, <2>2 DEF Frames, ThreadsOK, ReceiversOK
  <2>5. \A r \in Receivers \ {q} : /\ queue'[r] = queue[r]
                                   /\ pc'[r] = pc[r] /\ pair'[r] = pair[r]
    BY <1>0, <1>4, <2>1, Basics DEF Same, QueuesOK
  <2>6. queue'[q] = Tail(queue[q])
    BY <1>0, <2>1 DEF QueuesOK
  <2>. QED
    BY <1>0, <2>1, <2>3, <2>4, <2>5, <2>6 DEF Frames, Kept
<1>5. ASSUME NEW q \in Receivers, \A u \in Threads \ {q} : Same(u),
             AwaitPost(q) \/ Copy(q) \/ ReceiverFree(q) \/ Empty(q)
      PROVE  Frames'
  <2>1. frame' = frame /\ queue' = queue
    BY <1>5 DEF AwaitPost, Copy, ReceiverFree, Release, Empty, queues
  <2>2. pc'[q] # "copy"
    <3>1. CASE AwaitPost(q)
      BY <1>0, <3>1, Basics DEF AwaitPost, Goto, ThreadsOK, PlacesOK
    <3>2. CASE Copy(q)
      BY <1>0, <3>2, Basics DEF Copy, Goto, ThreadsOK, PlacesOK
    <3>3. CASE ReceiverFree(q)
      BY <1>0, <3>3, ReturnAway, Basics DEF ReceiverFree, Release, Goto, ThreadsOK,
         PlacesOK
    <3>. QED
      BY <1>5, <3>1, <3>2, <3>3 DEF Empty
  <2>. QED
    BY <1>0, <1>5, <2>1, <2>2, SameFrames, Basics DEF Same
<1>6. CASE /\ UNCHANGED <<frame, queues>>
           /\ \A u \in Threads : Same(u)
  BY <1>0, <1>6, SameFrames, Basics DEF Same, queues
<1>. QED
  BY <1>0, <1>1, <1>2, <1>3, <1>4, <1>5, <1>6, Kinds

LEMMA BusInvariant == Spec => []BusInv
<1>1. BusInv /\ [Next]_vars => BusInv'
  BY TypeStep, EquippedStep, HoldingStep, WrittenStep, FramesStep DEF BusInv, TypeInv
<1>2. Init => BusInv
  BY TypeInit, HoldingInit, WrittenInit DEF BusInv
<1>. QED
  BY <1>1, <1>2, PTL DEF Spec

(***************************************************************************)
(* From the moment a message is queued until its receiver has copied it,   *)
(* its buffer is taken and holds that message, whatever the other          *)
(* receivers of the message, and the producers of others, do in between    *)
(* (Concurrent_Observed::notify, Protocol::receive, BufferPool::free).     *)
(***************************************************************************)
THEOREM MessagesStayIntact == Spec => []QueuedIntact
<1>1. BusInv => QueuedIntact
  <2>1. SUFFICES ASSUME BusInv, NEW r \in Receivers
        PROVE  /\ \A k \in DOMAIN queue[r] : Intact(queue[r][k])
               /\ pc[r] = "copy" => Intact(pair[r])
    BY DEF QueuedIntact
  <2>2. ASSUME NEW k \in DOMAIN queue[r]
        PROVE  Intact(queue[r][k])
    <3>1. queue[r][k] \in Pairs
      <4>1. queue[r] \in Seq(Pairs)
        BY <2>1 DEF BusInv, TypeInv, TypeOK, QueuesOK
      <4>. QED
        BY <4>1, ElementOfSeq, LenProperties
    <3>2. PICK i \in Slots : i = queue[r][k].slot
      BY <3>1 DEF Pairs
    <3>3. r \in Readers(i)
      BY <3>2 DEF Readers, Queued
    <3>. QED
      BY <2>1, <3>2, <3>3 DEF BusInv, Holding, Taken, Frames, Kept, Intact
  <2>3. ASSUME pc[r] = "copy"
        PROVE  Intact(pair[r])
    <3>1. PICK i \in Slots : i = pair[r].slot
      BY <2>1, <2>3 DEF BusInv, TypeInv, Equipped, PairPlaces, ReceiverPlaces, Pairs
    <3>2. r \in Readers(i)
      BY <2>3, <3>1 DEF Readers, InHand
    <3>. QED
      BY <2>1, <2>3, <3>1, <3>2 DEF BusInv, Holding, Taken, Frames, Kept, Intact
  <2>. QED
    BY <2>2, <2>3
<1>. QED
  BY <1>1, BusInvariant, PTL

-----------------------------------------------------------------------------
\* The bus as a client of the pool.

InPool(place) == IF place \in {"scan", "signal"} THEN place ELSE "idle"
PoolPlaces == [t \in Threads |-> IF pc[t] \in {"scan", "signal"} THEN pc[t] ELSE "idle"]
Owed == [i \in Slots |-> Cardinality(Keepers(i)) + Cardinality(Readers(i))]

LEMMA PlacesChange ==
  ASSUME NEW t \in Threads, NEW place, pc'[t] = place,
         \A u \in Threads \ {t} : InPool(pc'[u]) = InPool(pc[u])
  PROVE  PoolPlaces' = [PoolPlaces EXCEPT ![t] = InPool(place)]
  BY DEF PoolPlaces, InPool

LEMMA PlacesSame ==
  ASSUME \A u \in Threads : InPool(pc'[u]) = InPool(pc[u])
  PROVE  PoolPlaces' = PoolPlaces
  BY DEF PoolPlaces, InPool

LEMMA OwedSame ==
  ASSUME \A i \in Slots : Keepers(i)' = Keepers(i) /\ Readers(i)' = Readers(i)
  PROVE  Owed' = Owed
  BY DEF Owed

LEMMA OneOrNone ==
  ASSUME NEW x
  PROVE  Cardinality({x}) = 1 /\ Cardinality({}) = 0
<1>1. Cardinality({x}) = 1
  BY FS_Singleton
<1>. QED
  BY <1>1, FS_EmptySet

\* One buffer changes hands.
LEMMA OwedChanges ==
  ASSUME NEW i \in Slots, NEW K, NEW R, NEW n,
         Keepers(i)' = K, Readers(i)' = R, Cardinality(K) + Cardinality(R) = n,
         \A j \in Slots \ {i} : Keepers(j)' = Keepers(j) /\ Readers(j)' = Readers(j)
  PROVE  /\ Owed' = [Owed EXCEPT ![i] = n]
         /\ Owed[i] = Cardinality(Keepers(i)) + Cardinality(Readers(i))
  BY DEF Owed

LEMMA Quiet ==
  ASSUME TypeInv, [Next]_vars,
         \A t \in Producers : ~ AllocWait(t) /\ ~ AllocScan(t) /\ ~ ProducerFree(t),
         \A r \in Receivers : ~ ReceiverFree(r),
         \A t \in Threads : ~ FreeSignal(t)
  PROVE  /\ free_buffers' = free_buffers
         /\ \A t \in Threads : InPool(pc'[t]) = InPool(pc[t])
<1>0. ThreadsOK
  BY DEF TypeInv, TypeOK, ThreadsOK
<1>1. free_buffers' = free_buffers
  BY PoolChanges DEF pool, Notify
<1>2. ASSUME NEW t \in Threads, Acts(t)
      PROVE  pc[t] \notin {"scan", "signal"} /\ pc'[t] \notin {"scan", "signal"}
  <2>1. CASE t \in Producers
    <3>0. t \notin Receivers
      BY <2>1, Basics
    <3>1. CASE (t \in Senders /\ StartSend(t)) \/ Fill(t) \/ RawSend(t) \/ NextId(t)
               \/ MapWrite(t) \/ Update(t) \/ Wake(t) \/ Erase(t)
      BY <1>0, <3>1, <1>2 DEF StartSend, Fill, RawSend, NextId, MapWrite, Update, Wake, Erase,
         Goto, ThreadsOK, PlacesOK
    <3>2. CASE Notify(t)
      BY <1>0, <3>2, <1>2 DEF Notify, Goto, ThreadsOK, PlacesOK
    <3>3. CASE Post(t)
      <4>1. pc[t] = "post" /\ (Return(t) \/ Goto(t, "update"))
        BY <3>3 DEF Post
      <4>2. pc'[t] \in {"idle", "alloc", "update"}
        BY <1>0, <1>2, <3>0, <4>1 DEF Return, Goto, ThreadsOK, PlacesOK
      <4>. QED
        BY <4>1, <4>2
    <3>4. CASE t = Worker /\ ReceiveFrame(t)
      <4>1. pc' \in {[pc EXCEPT ![t] = "free"], [pc EXCEPT ![t] = "nextid"]}
        BY <3>4, Finds
      <4>. QED
        BY <1>0, <1>2, <3>4, <4>1 DEF ReceiveFrame, ThreadsOK, PlacesOK
    <3>5. CASE ReceiveNothing(t)
      BY <1>0, <1>2, <3>5 DEF ReceiveNothing, Goto, ThreadsOK, PlacesOK
    <3>. QED
      BY <1>2, <2>1, <3>0, <3>1, <3>2, <3>3, <3>4, <3>5 DEF Acts, Send, Work, Produce
  <2>2. CASE t \in Receivers
    <3>1. Receive(t)
      BY <1>2, <2>2, Basics DEF Acts
    <3>2. /\ pc[t] \notin {"scan", "signal"}
          /\ Return(t) \/ \E place \in {"remove", "copy", "free", "info", "use"} : Goto(t, place)
      BY <2>2, <3>1 DEF Receive, AwaitPost, Remove, Copy, Length, Ignore, GetMessageInfo,
         UseInfo
    <3>3. CASE Return(t)
      BY <1>0, <2>2, <3>2, <3>3, ReturnAway
    <3>4. CASE ~ Return(t)
      BY <1>0, <3>2, <3>4 DEF Goto, ThreadsOK, PlacesOK
    <3>. QED
      BY <3>3, <3>4
  <2>. QED
    BY <2>1, <2>2, Basics
<1>3. ASSUME NEW t \in Threads
      PROVE  InPool(pc'[t]) = InPool(pc[t])
  <2>1. CASE Acts(t)
    BY <1>2, <2>1 DEF InPool
  <2>2. CASE ~ Acts(t)
    BY <2>2, OthersSame DEF Same
  <2>. QED
    BY <2>1, <2>2
<1>. QED
  BY <1>1, <1>3

LEMMA PoolInit == Init => Pool!Init
<1>. SUFFICES ASSUME Init PROVE Pool!Init
  OBVIOUS
<1>1. /\ \A t \in Producers : pc[t] = "idle"
      /\ \A r \in Receivers : pc[r] = "wait" /\ queue[r] = <<>>
  BY Basics DEF Init
<1>2. \A r \in Receivers : DOMAIN queue[r] = {}
  BY <1>1, EmptySeq, LenProperties
<1>3. \A i : Keepers(i) = {} /\ Readers(i) = {}
  BY <1>1, <1>2 DEF Keepers, Readers, HoldsAlone, StillUpdating, Queued, InHand
<1>4. Owed = [i \in Slots |-> 0]
  BY <1>3, FS_EmptySet DEF Owed
<1>5. PoolPlaces = [t \in Threads |-> "idle"]
  BY <1>1, Basics DEF PoolPlaces
<1>. QED
  BY <1>4, <1>5 DEF Init, Pool!Init, Pool!Slots, Slots, Owed, PoolPlaces

\* A step of t in the pool that leaves every buffer with those who have it.
LEMMA OwedAway ==
  ASSUME TypeInv, Holding, NEW t \in Threads, \A u \in Threads \ {t} : Same(u),
         AllocWait(t) \/ FreeSignal(t)
  PROVE  /\ Owed' = Owed
         /\ pc'[t] = (IF AllocWait(t) THEN "scan" ELSE pc'[t])
         /\ AllocWait(t) \/ InPool(pc'[t]) = "idle"
<1>0. ThreadsOK /\ (t \in Producers \/ t \in Receivers)
  BY Basics DEF TypeInv, TypeOK, ThreadsOK
<1>1. CASE AllocWait(t)
  <2>1. pc[t] = "alloc" /\ pc'[t] = "scan"
    BY <1>0, <1>1 DEF AllocWait, Goto, ThreadsOK, PlacesOK
  <2>2. t \in Producers
    BY <1>0, <2>1 DEF ThreadsOK, PlacesOK, ReceiverPlaces
  <2>3. Away(t)
    BY <1>1, <2>1 DEF AllocWait, Away, AwayPlaces
  <2>. QED
    BY <1>1, <2>1, <2>2, <2>3, StaysWhen, StaysSets, OwedSame
<1>2. CASE FreeSignal(t)
  <2>1. AfterFree(t) /\ pc[t] = "signal" /\ UNCHANGED <<in_use, reference_counter, frame, queues>>
    BY <1>2 DEF FreeSignal
  <2>2. InPool(pc'[t]) = "idle" /\ ~ AllocWait(t)
    BY <1>0, <2>1, Basics
    DEF AfterFree, Return, Goto, ThreadsOK, PlacesOK, InPool, AllocWait
  <2>3. \/ t \in Producers /\ Away(t)
        \/ t \in Receivers /\ Empty(t)
    BY <1>0, <2>1, ReturnAway DEF Away, AwayPlaces, Empty
  <2>. QED
    BY <1>2, <2>2, <2>3, StaysWhen, StaysSets, OwedSame
<1>. QED
  BY <1>1, <1>2

LEMMA ProducerActs ==
  ASSUME NEW t \in Producers, Produce(t)
  PROVE  Acts(t)
  BY Basics DEF Acts, Send, Work

\* The critical section of BufferPool::free, for a slot that t still has to free.
LEMMA PoolFrees ==
  ASSUME TypeInv, NEW t \in Threads, NEW i \in Slots, Release(t, i),
         \A u \in Threads \ {t} : Same(u),
         Owed[i] \in Nat \ {0}, Owed' = [Owed EXCEPT ![i] = @ - 1]
  PROVE  Pool!FreeScan(t, i)
<1>0. ThreadsOK /\ PoolOK /\ pc[t] = "free"
  BY DEF TypeInv, TypeOK, ThreadsOK, Release
<1>. DEFINE Last == in_use[i] /\ reference_counter[i] <= 1
<1>1. pc'[t] = "signal" \/ InPool(pc'[t]) = "idle"
  BY <1>0, Basics DEF Release, AfterFree, Return, Goto, ThreadsOK, PlacesOK, InPool
<1>2. pc'[t] = "signal" <=> Last
  BY <1>0, Basics DEF Release, AfterFree, Return, Goto, ThreadsOK, PlacesOK
<1>3. \A u \in Threads \ {t} : InPool(pc'[u]) = InPool(pc[u])
  BY DEF Same
<1>4. CASE Last
  <2>0. PoolPlaces[t] = "idle"
    BY <1>0 DEF PoolPlaces
  <2>1. PoolPlaces' = [PoolPlaces EXCEPT ![t] = "signal"]
    <3>1. PoolPlaces' = [PoolPlaces EXCEPT ![t] = InPool("signal")]
      BY <1>2, <1>3, <1>4, PlacesChange
    <3>. QED
      BY <3>1 DEF InPool
  <2>2. reference_counter[i] - 1 <= 0
    BY <1>0, <1>4 DEF PoolOK
  <2>3. in_use' = [in_use EXCEPT ![i] = FALSE]
    <3>1. (in_use[i] /\ reference_counter[i] > 1) = FALSE
      BY <1>0, <1>4 DEF PoolOK
    <3>. QED
      BY <3>1 DEF Release
  <2>4. reference_counter' = [reference_counter EXCEPT ![i] = @ - 1] /\ free_buffers' = free_buffers
    BY DEF Release
  <2>. QED
    BY <1>4, <2>0, <2>1, <2>2, <2>3, <2>4 DEF Pool!FreeScan, PoolPlaces, Owed
<1>5. CASE ~ Last
  <2>1. InPool(pc'[t]) = InPool(pc[t])
    BY <1>0, <1>1, <1>2, <1>5 DEF InPool
  <2>2. PoolPlaces' = PoolPlaces /\ PoolPlaces = [PoolPlaces EXCEPT ![t] = "idle"]
    BY <1>0, <1>3, <2>1, PlacesSame DEF PoolPlaces
  <2>3. reference_counter' = [reference_counter EXCEPT ![i] = @ - 1] /\ free_buffers' = free_buffers
    BY DEF Release
  <2>4. CASE reference_counter[i] - 1 <= 0
    <3>1. ~ in_use[i]
      BY <1>0, <1>5, <2>4 DEF PoolOK
    <3>2. in_use' = [in_use EXCEPT ![i] = FALSE]
      BY <1>0, <3>1 DEF PoolOK, Release
    <3>. QED
      BY <1>0, <2>2, <2>3, <2>4, <3>1, <3>2 DEF Pool!FreeScan, PoolPlaces, Owed
  <2>5. CASE ~ (reference_counter[i] - 1 <= 0)
    <3>1. in_use' = in_use
      BY <1>0, <2>5 DEF PoolOK, Release
    <3>. QED
      BY <1>0, <2>2, <2>3, <2>5, <3>1 DEF Pool!FreeScan, PoolPlaces, Owed
  <2>. QED
    BY <2>4, <2>5
<1>. QED
  BY <1>4, <1>5

LEMMA PoolStep ==
  ASSUME TypeInv, Holding, [Next]_vars
  PROVE  [Pool!Next]_(Pool!vars)
<1>0. ThreadsOK /\ PoolOK
  BY DEF TypeInv, TypeOK, ThreadsOK
<1>01. \A i \in Slots : /\ Cardinality(Keepers(i)) \in Nat /\ Cardinality(Readers(i)) \in Nat
                        /\ Owed[i] = Cardinality(Keepers(i)) + Cardinality(Readers(i))
  BY Sets DEF Owed
<1>1. ASSUME NEW t \in Threads, \A u \in Threads \ {t} : Same(u),
             AllocWait(t) \/ FreeSignal(t)
      PROVE  Pool!Next
  <2>1. Owed' = Owed /\ UNCHANGED <<in_use, reference_counter>>
    BY <1>1, OwedAway DEF AllocWait, FreeSignal
  <2>2. \A u \in Threads \ {t} : InPool(pc'[u]) = InPool(pc[u])
    BY <1>1 DEF Same
  <2>3. CASE AllocWait(t)
    <3>1. PoolPlaces' = [PoolPlaces EXCEPT ![t] = "scan"] /\ PoolPlaces[t] = "idle"
      BY <1>1, <2>2, <2>3, OwedAway, PlacesChange DEF AllocWait, InPool, PoolPlaces
    <3>2. Pool!AllocWait(t)
      BY <2>1, <2>3, <3>1 DEF AllocWait, Pool!AllocWait, PoolPlaces, Owed
    <3>. QED
      BY <3>2 DEF Pool!Next
  <2>4. CASE FreeSignal(t) /\ ~ AllocWait(t)
    <3>1. InPool(pc'[t]) = "idle"
      BY <1>1, <2>4, OwedAway
    <3>2. PoolPlaces' = [PoolPlaces EXCEPT ![t] = "idle"] /\ PoolPlaces[t] = "signal"
      BY <2>2, <2>4, <3>1 DEF FreeSignal, InPool, PoolPlaces
    <3>3. Pool!FreeSignal(t)
      BY <2>1, <2>4, <3>2 DEF FreeSignal, Pool!FreeSignal, PoolPlaces, Owed
    <3>. QED
      BY <3>3 DEF Pool!Next
  <2>. QED
    BY <1>1, <2>3, <2>4
<1>2. ASSUME NEW t \in Producers, \A u \in Threads \ {t} : Same(u), AllocScan(t)
      PROVE  Pool!Next
  <2>1. PICK i \in Slots :
          /\ Keepers(i) = {} /\ Keepers(i)' = {t}
          /\ Readers(i) = {} /\ Readers(i)' = {}
          /\ buf'[t] = i /\ ~ in_use[i]
          /\ \A j \in Slots \ {i} : Keepers(j)' = Keepers(j) /\ Readers(j)' = Readers(j)
    BY <1>2, ScanHolding
  <2>2. Owed' = [Owed EXCEPT ![i] = 1]
    <3>1. Cardinality({t}) + Cardinality({}) = 1
      BY OneOrNone
    <3>. QED
      BY <2>1, <3>1, OwedChanges
  <2>3. /\ \A j \in 0 .. i - 1 : in_use[j]
        /\ in_use' = [in_use EXCEPT ![i] = TRUE]
        /\ reference_counter' = [reference_counter EXCEPT ![i] = 1]
        /\ free_buffers' = free_buffers
    BY <1>0, <1>2, <2>1 DEF AllocScan, ThreadsOK, ProducersOK
  <2>4. t \in Threads /\ pc[t] = "scan" /\ InPool(pc'[t]) = "idle"
    BY <1>0, <1>2, Basics DEF AllocScan, Goto, ThreadsOK, PlacesOK, InPool
  <2>5. PoolPlaces' = [PoolPlaces EXCEPT ![t] = "idle"] /\ PoolPlaces[t] = "scan"
    BY <1>2, <2>4 DEF Same, InPool, PoolPlaces
  <2>6. Pool!AllocScan(t)
    BY <2>1, <2>2, <2>3, <2>5
    DEF Pool!AllocScan, Pool!FirstFree, Pool!Slots, Slots, PoolPlaces, Owed
  <2>. QED
    BY <2>4, <2>6 DEF Pool!Next
<1>3. ASSUME NEW t \in Producers, \A u \in Threads \ {t} : Same(u), Shares(t),
             \A u \in Threads : InPool(pc'[u]) = InPool(pc[u]), free_buffers' = free_buffers
      PROVE  Pool!Next
  <2>1. PICK i \in Slots :
          /\ i = buf[t]
          /\ Keepers(i) = {t} /\ Keepers(i)' = {}
          /\ Readers(i) = {} /\ Readers(i)' = Matching(out[t])
          /\ \A j \in Slots \ {i} : Keepers(j)' = Keepers(j) /\ Readers(j)' = Readers(j)
    BY <1>3, SharesHolding
  <2>. DEFINE n == Cardinality(Matching(out[t]))
  <2>2. n \in 1 .. Len(PortOf)
    <3>1. Matching(out[t]) \subseteq 1 .. Len(PortOf) /\ Len(PortOf) \in Nat
      BY Basics, BusAssumption, LenProperties DEF Matching
    <3>2. /\ IsFiniteSet(1 .. Len(PortOf))
          /\ Cardinality(1 .. Len(PortOf)) = IF 1 > Len(PortOf) THEN 0 ELSE Len(PortOf) - 1 + 1
      BY <3>1, FS_Interval
    <3>5. IsFiniteSet(Matching(out[t])) /\ n <= Cardinality(1 .. Len(PortOf))
      BY <3>1, <3>2, FS_Subset
    <3>6. n \in Nat
      BY <3>5, FS_CardinalityType
    <3>3. Cardinality(1 .. Len(PortOf)) = Len(PortOf)
      BY <3>1, <3>2
    <3>4. n # 0
      BY <1>3, <3>5, FS_EmptySet DEF Shares
    <3>. QED
      BY <3>1, <3>3, <3>4, <3>5, <3>6
  <2>3. Owed[i] = 1 /\ Owed' = [Owed EXCEPT ![i] = n]
    <3>1. Cardinality({t}) + Cardinality({}) = 1 /\ Cardinality({}) + n = n
      <4>1. Cardinality({t}) = 1 /\ Cardinality({}) = 0
        BY OneOrNone
      <4>. QED
        BY <2>2, <4>1
    <3>. QED
      BY <2>1, <3>1, OwedChanges
  <2>4. PoolPlaces' = PoolPlaces
    BY <1>3, PlacesSame
  <2>5. Pool!SetReferenceCounter(i, n)
    BY <1>3, <2>1, <2>3, <2>4 DEF Shares, Pool!SetReferenceCounter, PoolPlaces, Owed
  <2>. QED
    BY <2>2, <2>5 DEF Pool!Next, Pool!Slots, Slots
<1>4. ASSUME NEW t \in Producers, \A u \in Threads \ {t} : Same(u), ProducerFree(t)
      PROVE  Pool!Next
  <2>1. PICK i \in Slots :
          /\ i = buf[t]
          /\ Keepers(i) = {t} /\ Keepers(i)' = {}
          /\ Readers(i) = {} /\ Readers(i)' = {}
          /\ \A j \in Slots \ {i} : Keepers(j)' = Keepers(j) /\ Readers(j)' = Readers(j)
    BY <1>4, ProducerFreeHolding
  <2>2. Owed[i] = 1 /\ Owed' = [Owed EXCEPT ![i] = @ - 1]
    <3>1. Cardinality({t}) + Cardinality({}) = 1 /\ Cardinality({}) + Cardinality({}) = 0
      <4>1. Cardinality({t}) = 1 /\ Cardinality({}) = 0
        BY OneOrNone
      <4>. QED
        BY <4>1
    <3>2. Owed[i] = 1 /\ Owed' = [Owed EXCEPT ![i] = 0]
      BY <2>1, <3>1, OwedChanges
    <3>. QED
      BY <3>2
  <2>3. Pool!FreeScan(t, i) /\ t \in Threads
    <3>1. Release(t, i) /\ t \in Threads /\ Owed[i] \in Nat \ {0}
      BY <1>4, <2>1, <2>2, Basics DEF ProducerFree
    <3>. QED
      BY <1>4, <2>2, <3>1, PoolFrees
  <2>. QED
    BY <2>3 DEF Pool!Next, Pool!Slots, Slots
<1>5. ASSUME NEW q \in Receivers, \A u \in Threads \ {q} : Same(u), ReceiverFree(q)
      PROVE  Pool!Next
  <2>1. PICK i \in Slots :
          /\ i = pair[q].slot
          /\ Keepers(i) = {} /\ Keepers(i)' = {}
          /\ q \in Readers(i) /\ Readers(i)' = Readers(i) \ {q}
          /\ \A j \in Slots \ {i} : Keepers(j)' = Keepers(j) /\ Readers(j)' = Readers(j)
    BY <1>5, ReceiverFreeHolding
  <2>2. Cardinality(Readers(i) \ {q}) = Cardinality(Readers(i)) - 1
    BY <2>1, Sets, FS_RemoveElement
  <2>3. Cardinality(Readers(i)) \in Nat \ {0}
    BY <2>1, Sets, FS_EmptySet
  <2>4. Owed[i] \in Nat \ {0} /\ Owed' = [Owed EXCEPT ![i] = @ - 1]
    <3>1. /\ Cardinality({}) + Cardinality(Readers(i)) = Cardinality(Readers(i))
          /\ Cardinality({}) + Cardinality(Readers(i) \ {q}) = Cardinality(Readers(i)) - 1
      BY <2>2, <2>3, FS_EmptySet
    <3>2. /\ Owed[i] = Cardinality(Readers(i))
          /\ Owed' = [Owed EXCEPT ![i] = Cardinality(Readers(i)) - 1]
      BY <2>1, <3>1, OwedChanges
    <3>. QED
      BY <2>3, <3>2
  <2>5. Pool!FreeScan(q, i) /\ q \in Threads
    BY <1>5, <2>1, <2>4, PoolFrees, Basics DEF ReceiverFree
  <2>. QED
    BY <2>5 DEF Pool!Next, Pool!Slots, Slots
<1>6. CASE \E t \in Threads : AllocWait(t) \/ FreeSignal(t)
  <2>1. PICK t \in Threads : AllocWait(t) \/ FreeSignal(t)
    BY <1>6
  <2>2. Acts(t)
    <3>1. CASE t \in Producers
      BY <2>1, <3>1, ProducerActs DEF Produce
    <3>2. CASE t \in Receivers
      BY <1>0, <2>1, <3>2 DEF AllocWait, Acts, Receive, ThreadsOK, PlacesOK, ReceiverPlaces
    <3>. QED
      BY <3>1, <3>2, Basics
  <2>. QED
    BY <1>1, <2>1, <2>2, Locality
<1>7. CASE \E t \in Producers : AllocScan(t) \/ ProducerFree(t)
  BY <1>2, <1>4, <1>7, ProducerActs, Locality, Basics DEF Produce
<1>8. CASE \E r \in Receivers : ReceiverFree(r)
  BY <1>5, <1>8, Locality, Basics DEF Acts, Receive
<1>9. CASE ~ \/ \E t \in Threads : AllocWait(t) \/ FreeSignal(t)
             \/ \E t \in Producers : AllocScan(t) \/ ProducerFree(t)
             \/ \E r \in Receivers : ReceiverFree(r)
  <2>1. /\ free_buffers' = free_buffers
        /\ \A t \in Threads : InPool(pc'[t]) = InPool(pc[t])
    BY <1>9, Quiet, Basics
  <2>2. CASE \E t \in Producers : Shares(t) /\ \A u \in Threads \ {t} : Same(u)
    BY <1>3, <2>1, <2>2
  <2>3. CASE ~ \E t \in Producers : Shares(t) /\ \A u \in Threads \ {t} : Same(u)
    <3>1. /\ \A i \in Slots : Keepers(i)' = Keepers(i) /\ Readers(i)' = Readers(i)
          /\ UNCHANGED <<in_use, reference_counter>>
      <4>1. ASSUME NEW t \in Threads, \A u \in Threads \ {t} : Same(u),
                   \/ t \in Producers /\ (Away(t) \/ Alone(t) \/ Post(t))
                   \/ t \in Receivers /\ (AwaitPost(t) \/ Copy(t) \/ Empty(t))
            PROVE  <3>1!1 /\ <3>1!2
        BY <4>1, StaysWhen, StaysSets, Basics
      <4>2. CASE /\ UNCHANGED <<in_use, reference_counter, frame, queues>>
                 /\ \A u \in Threads : Same(u)
        <5>1. \A i \in Slots : Stays(i)
          BY <4>2, SameProducer, SameReceiver, Basics DEF Stays, Queued, queues
        <5>. QED
          BY <4>2, <5>1, StaysSets
      <4>3. ASSUME NEW t \in Producers, \A u \in Threads \ {t} : Same(u), Update(t)
            PROVE  <3>1!1 /\ <3>1!2
        BY <4>3, UpdateHolding DEF Update, pool
      <4>4. ASSUME NEW r \in Receivers, \A u \in Threads \ {r} : Same(u), Remove(r)
            PROVE  <3>1!1 /\ <3>1!2
        BY <4>4, RemoveHolding DEF Remove, pool
      <4>. QED
        BY <1>9, <2>3, <4>1, <4>2, <4>3, <4>4, Kinds, Basics
    <3>2. Owed' = Owed /\ PoolPlaces' = PoolPlaces
      BY <2>1, <3>1, OwedSame, PlacesSame
    <3>. QED
      BY <2>1, <3>1, <3>2 DEF Pool!vars, Owed, PoolPlaces
  <2>. QED
    BY <2>2, <2>3
<1>. QED
  BY <1>6, <1>7, <1>8, <1>9

(***************************************************************************)
(* The bus uses the pool as BufferPool says its clients do, and its pool   *)
(* does what BufferPool says: a producer that shares a buffer among n      *)
(* observers sets its counter to n while it holds it alone, and everybody  *)
(* frees what he got once.  Whatever is proved of BufferPool is true here. *)
(***************************************************************************)
THEOREM BusUsesPool == Spec => UsesPool
<1>1. Init => Pool!Init
  BY PoolInit
<1>2. BusInv /\ [Next]_vars => [Pool!Next]_(Pool!vars)
  BY PoolStep DEF BusInv
<1>. QED
  BY <1>1, <1>2, BusInvariant, PTL DEF Spec, UsesPool, Pool!Spec

\* What BufferPoolProofs shows of the pool holds of the pool of the bus.
Contract == INSTANCE BufferPoolProofs WITH
  MaxRefs <- Len(PortOf),
  MaxStops <- 0,
  pc <- PoolPlaces,
  owed <- Owed,
  stops <- 0,
  nulls <- 0

LEMMA ContractAssumption == Contract!PoolAssumption
<1>1. IsFiniteSet(Threads)
  BY Basics, FS_Union
<1>2. SIZE \in Nat \ {0} /\ Len(PortOf) \in Nat
  BY BusAssumption, LenProperties
<1>. QED
  BY <1>1, <1>2 DEF Contract!PoolAssumption, Contract!IsFiniteSet, IsFiniteSet

LEMMA ContractInit == Init => Contract!IInv
<1>1. Init => Contract!Init
  BY PoolInit
  DEF Pool!Init, Contract!Init, Pool!Slots, Contract!Slots, PoolPlaces, Owed
<1>2. Contract!Init => Contract!IInv
  BY Contract!InitIInv, ContractAssumption, Zenon
<1>. QED
  BY <1>1, <1>2

LEMMA ContractStep ==
  ASSUME TypeInv, Holding, Contract!IInv, [Next]_vars
  PROVE  Contract!IInv'
<1>1. [Pool!Next]_(Pool!vars)
  BY PoolStep
<1>2. [Contract!Next]_(Contract!vars)
  BY <1>1
  DEF Pool!Next, Pool!vars, Pool!Slots, Pool!AllocWait, Pool!AllocScan, Pool!AllocNull,
      Pool!FreeScan, Pool!FreeSignal, Pool!SetReferenceCounter, Pool!Stop,
      Pool!FirstFree, Pool!FreeSlots, Contract!Next, Contract!vars, Contract!Slots,
      Contract!AllocWait, Contract!AllocScan, Contract!AllocNull, Contract!FreeScan,
      Contract!FreeSignal, Contract!SetReferenceCounter, Contract!Stop,
      Contract!FirstFree, Contract!FreeSlots, PoolPlaces, Owed
<1>3. Contract!IInv /\ [Contract!Next]_(Contract!vars) => Contract!IInv'
  BY Contract!StepIInv, ContractAssumption, Zenon
<1>. QED
  BY <1>2, <1>3

LEMMA ContractInvariant == Spec => [](BusInv /\ Matched /\ Contract!IInv)
<1>1. (BusInv /\ Contract!IInv) /\ [Next]_vars => Contract!IInv'
  BY ContractStep DEF BusInv
<1>. QED
  BY <1>1, ContractInit, BusInvariant, MatchedInvariant, PTL DEF Spec

\* Where nobody has a message there is nothing in the lists and all slots are free.
LEMMA AllWait ==
  ASSUME BusInv, Matched, \A t \in Threads : Waits(t)
  PROVE  /\ \A r \in Receivers : queue[r] = <<>>
         /\ \A i \in Slots : Keepers(i) = {} /\ Readers(i) = {}
         /\ PoolPlaces = [t \in Threads |-> "idle"]
<1>0. TypeInv /\ QueuesOK
  BY DEF BusInv, TypeInv, TypeOK
<1>1. /\ \A t \in Producers : pc[t] \in {"idle", "alloc"}
      /\ \A r \in Receivers : pc[r] = "wait" /\ semaphore[r] = 0
  BY Basics DEF Waits
<1>2. ASSUME NEW r \in Receivers
      PROVE  queue[r] = <<>>
  <2>1. Posting(r) = {} /\ Removing(r) = 0
    BY <1>1 DEF Posting, Removing
  <2>2. Cardinality(Posting(r)) = 0
    BY <2>1, FS_EmptySet
  <2>3. Len(queue[r]) = semaphore[r] + Removing(r) + Cardinality(Posting(r))
    BY DEF Matched
  <2>4. Len(queue[r]) = 0
    BY <1>1, <2>1, <2>2, <2>3
  <2>. QED
    BY <1>0, <2>4, EmptySeq DEF QueuesOK
<1>3. \A r \in Receivers : DOMAIN queue[r] = {}
  BY <1>2, EmptySeq, LenProperties
<1>4. \A i \in Slots : Keepers(i) = {} /\ Readers(i) = {}
  BY <1>1, <1>3 DEF Keepers, Readers, HoldsAlone, StillUpdating, Queued, InHand
<1>5. PoolPlaces = [t \in Threads |-> "idle"]
  BY <1>1, Basics DEF PoolPlaces
<1>. QED
  BY <1>2, <1>4, <1>5

(***************************************************************************)
(* Whatever the threads, the messages and the number of buffers: when      *)
(* everybody waits, all buffers are free and nothing is queued, so that    *)
(* the threads of an agent never all wait for buffers.  That every taken   *)
(* slot has somebody who has to free it, and that tokens and free slots    *)
(* add up, are the theorems about the pool, used for the pool of the bus.  *)
(***************************************************************************)
THEOREM NothingEverLeaks == Spec => []NothingLeaks
<1>1. BusInv /\ Matched /\ Contract!IInv => NothingLeaks
  <2>1. SUFFICES ASSUME BusInv, Matched, Contract!IInv, \A t \in Threads : Waits(t)
        PROVE  free_buffers = SIZE /\ \A r \in Receivers : queue[r] = <<>>
    BY DEF NothingLeaks
  <2>2. \A i \in Slots : Owed[i] = 0
    <3>1. ASSUME NEW i \in Slots
          PROVE  Cardinality(Keepers(i)) = 0 /\ Cardinality(Readers(i)) = 0
      <4>1. Keepers(i) = {} /\ Readers(i) = {}
        BY <2>1, AllWait
      <4>. QED
        BY <4>1, FS_EmptySet
    <3>. QED
      BY <3>1 DEF Owed
  <2>3. /\ \A i \in Contract!Slots : Owed[i] = 0
        /\ \A t \in Threads : PoolPlaces[t] = "idle"
    BY <2>1, <2>2, AllWait DEF Contract!Slots, Slots
  <2>4. free_buffers = SIZE
    BY <2>1, <2>3, Contract!UnusedIsFree, ContractAssumption, Zenon
  <2>. QED
    BY <2>1, <2>4, AllWait
<1>. QED
  BY <1>1, ContractInvariant, PTL

-----------------------------------------------------------------------------
\* The order of the messages of one producer.

Early(t) == t \in Senders /\ pc[t] \in {"alloc", "scan", "fill"}

\* A producer has a message, which it numbered, and may still pass it to r.
Carrying(t) == Early(t) \/ pc[t] \in FilledPlaces
Yet(t, r) == Early(t) \/ pc[t] \in WrittenPlaces \/ StillUpdating(t, buf[t], r)

Numbered == \A t \in Producers : Carrying(t) => out[t].from = t /\ out[t].n = sent[t]

\* The producers that may still pass r the message they have.  A number r has seen,
\* or is about to see, is at most that of the producer's message, and less if it is
\* among them.
Open(r) == {t \in Producers : Yet(t, r)}
Below(t, n, top, open) == n <= top[t] /\ (t \in open => n < top[t])
Newer(m, seen, top, open) == Below(m.from, m.n, top, open) /\ seen[m.from] < m.n
Before(m, o) == m.from = o.from => m.n < o.n

LineOK(r) ==
  /\ \A t \in Producers : Below(t, last[r][t], sent, Open(r))
  /\ \A k \in DOMAIN queue[r] : Newer(queue[r][k].msg, last[r], sent, Open(r))
  /\ \A j, k \in DOMAIN queue[r] : j < k => Before(queue[r][j].msg, queue[r][k].msg)
  /\ pc[r] = "copy" => /\ Newer(pair[r].msg, last[r], sent, Open(r))
                       /\ \A k \in DOMAIN queue[r] : Before(pair[r].msg, queue[r][k].msg)

Ordered == Numbered /\ \A r \in Receivers : LineOK(r)

LEMMA OrderedInit == Init => Ordered
<1>. SUFFICES ASSUME Init PROVE Ordered
  OBVIOUS
<1>1. /\ \A t \in Producers : pc[t] = "idle" /\ sent[t] = 0
      /\ \A r \in Receivers : /\ pc[r] = "wait" /\ queue[r] = <<>>
                              /\ \A t \in Producers : last[r][t] = 0
  BY Basics DEF Init
<1>2. \A r \in Receivers : DOMAIN queue[r] = {}
  BY <1>1, EmptySeq, LenProperties
<1>3. \A t \in Producers : ~ Carrying(t) /\ \A r \in Receivers : ~ Yet(t, r)
  BY <1>1 DEF Carrying, Yet, Early, FilledPlaces, OutPlaces, WrittenPlaces, StillUpdating
<1>4. \A t \in Producers, r \in Receivers : Below(t, last[r][t], sent, Open(r))
  BY <1>1, <1>3 DEF Below, Open
<1>5. ASSUME NEW r \in Receivers
      PROVE  LineOK(r)
  BY <1>1, <1>2, <1>4 DEF LineOK
<1>6. Numbered
  BY <1>3 DEF Numbered
<1>. QED
  BY <1>5, <1>6 DEF Ordered

\* A producer begins its next message, or goes on with the one it has.
Begins(t) ==
  /\ sent'[t] = sent[t] + 1
  /\ Carrying(t)' => out'[t].from = t /\ out'[t].n = sent'[t]
GoesOn(t) ==
  /\ sent'[t] = sent[t]
  /\ Carrying(t)' => Carrying(t) /\ out'[t] = out[t]
  /\ \A r \in Receivers : Yet(t, r)' => Yet(t, r)

LEMMA ReturnsEmpty ==
  ASSUME ThreadsOK, NEW t \in Producers, Return(t) \/ AfterFree(t)
  PROVE  ~ Carrying(t)' /\ sent'[t] = sent[t] /\ \A r : ~ Yet(t, r)'
<1>1. pc'[t] \in {"idle", "alloc"} /\ (t \in Senders => pc'[t] = "idle") /\ sent' = sent
  BY Basics DEF Return, AfterFree, Goto, ThreadsOK, PlacesOK
<1>. QED
  BY <1>1 DEF Carrying, Early, FilledPlaces, OutPlaces, Yet, WrittenPlaces, StillUpdating

LEMMA Numbering ==
  ASSUME TypeInv, NEW t \in Producers, Acts(t)
  PROVE  Begins(t) \/ GoesOn(t)
<1>0. ThreadsOK /\ t \in Threads /\ t \notin Receivers /\ sent[t] \in Nat
  BY Basics DEF TypeInv, TypeOK, ThreadsOK, ProducersOK
<1>1. CASE t \in Senders /\ StartSend(t)
  BY <1>0, <1>1 DEF Begins, StartSend, ThreadsOK, ProducersOK
<1>2. CASE t = Worker /\ ReceiveFrame(t)
  BY <1>0, <1>2 DEF Begins, ReceiveFrame, ThreadsOK, ProducersOK
<1>3. CASE t = Worker /\ ReceiveNothing(t)
  <2>1. pc'[t] = "free" /\ (sent'[t] = sent[t] \/ sent'[t] = sent[t] + 1)
    BY <1>0, <1>3 DEF ReceiveNothing, Goto, ThreadsOK, PlacesOK, ProducersOK
  <2>. QED
    BY <2>1 DEF Begins, GoesOn, Carrying, Early, FilledPlaces, OutPlaces, Yet,
       WrittenPlaces, StillUpdating
<1>4. CASE Return(t) \/ AfterFree(t)
  BY <1>0, <1>4, ReturnsEmpty DEF GoesOn
<1>5. CASE RawSend(t) \/ (t = Worker /\ Wake(t)) \/ Erase(t)
  <2>1. /\ pc'[t] = "free" \/ (pc'[t] = "alloc" /\ t \notin Senders)
        /\ sent' = sent
    <3>1. CASE RawSend(t) \/ Erase(t)
      BY <1>0, <3>1 DEF RawSend, Erase, Goto, ThreadsOK, PlacesOK, producer
    <3>2. CASE t = Worker /\ Wake(t)
      BY <1>0, <3>2, Basics DEF Wake, Goto, ThreadsOK, PlacesOK, producer
    <3>. QED
      BY <1>5, <3>1, <3>2
  <2>. QED
    BY <2>1 DEF GoesOn, Carrying, Early, FilledPlaces, OutPlaces, Yet,
       WrittenPlaces, StillUpdating
<1>6. CASE AllocWait(t) \/ AllocScan(t) \/ (t \in Senders /\ Fill(t))
  <2>1. /\ sent' = sent /\ out' = out
        /\ \/ pc[t] = "alloc" /\ pc'[t] = "scan"
           \/ pc[t] = "scan" /\ pc'[t] = (IF t = Worker THEN "recv" ELSE "fill")
           \/ t \in Senders /\ pc[t] = "fill" /\ pc'[t] \in {"nextid", "raw"}
    <3>1. CASE AllocWait(t)
      BY <1>0, <3>1 DEF AllocWait, Goto, ThreadsOK, PlacesOK, producer
    <3>2. CASE AllocScan(t)
      BY <1>0, <3>2 DEF AllocScan, Goto, ThreadsOK, PlacesOK
    <3>3. CASE t \in Senders /\ Fill(t)
      BY <1>0, <3>3 DEF Fill, Goto, ThreadsOK, PlacesOK, producer
    <3>. QED
      BY <1>6, <3>1, <3>2, <3>3
  <2>2. Carrying(t)' => Early(t)
    BY <2>1, Basics DEF Carrying, Early, FilledPlaces, OutPlaces
  <2>3. \A r : Yet(t, r)' => Carrying(t)'
    BY DEF Yet, Carrying, StillUpdating, WrittenPlaces, FilledPlaces, OutPlaces
  <2>. QED
    BY <2>1, <2>2, <2>3 DEF GoesOn, Carrying, Yet
<1>7. CASE NextId(t) \/ MapWrite(t) \/ Notify(t)
  <2>1. sent' = sent /\ out' = out /\ pc[t] \in WrittenPlaces
    BY <1>7 DEF NextId, MapWrite, Notify, WrittenPlaces, producer
  <2>. QED
    BY <2>1 DEF GoesOn, Carrying, Yet, WrittenPlaces, FilledPlaces, OutPlaces
<1>8. CASE Update(t)
  <2>1. /\ pc[t] = "update" /\ pc'[t] = "post"
        /\ sent' = sent /\ out' = out /\ rest' = rest /\ buf' = buf
    BY <1>0, <1>8 DEF Update, Goto, ThreadsOK, PlacesOK, producer
  <2>. QED
    BY <2>1 DEF GoesOn, Carrying, Yet, Early, WrittenPlaces, StillUpdating, FilledPlaces,
       OutPlaces
<1>9. CASE Post(t) /\ ~ Return(t)
  <2>1. PICK q \in Receivers :
          /\ pc[t] = "post" /\ First(q, rest[t])
          /\ rest' = [rest EXCEPT ![t] = @ \ {q}]
          /\ Goto(t, "update") /\ UNCHANGED <<sent, out, buf, id, receiver>>
    BY <1>9 DEF Post
  <2>2. pc'[t] = "update" /\ rest'[t] = rest[t] \ {q} /\ rest[t] \in SUBSET Receivers
    BY <1>0, <2>1 DEF Goto, ThreadsOK, PlacesOK, ProducersOK
  <2>3. \A r \in Receivers : r \in rest[t] \ {q} => ~ First(r, rest[t])
    BY <2>1, <2>2, OneFirst
  <2>. QED
    BY <2>1, <2>2, <2>3 DEF GoesOn, Carrying, Yet, Early, WrittenPlaces, StillUpdating,
       FilledPlaces, OutPlaces
<1>10. CASE (ProducerFree(t) \/ FreeSignal(t)) /\ ~ AfterFree(t)
  <2>1. pc'[t] = "signal" /\ sent' = sent
    BY <1>0, <1>10 DEF ProducerFree, Release, FreeSignal, Goto, ThreadsOK, PlacesOK, producer
  <2>. QED
    BY <2>1 DEF GoesOn, Carrying, Early, FilledPlaces, OutPlaces, Yet,
       WrittenPlaces, StillUpdating
<1>. QED
  BY <1>0, <1>1, <1>2, <1>3, <1>4, <1>5, <1>6, <1>7, <1>8, <1>9, <1>10
  DEF Acts, Send, Work, Produce

LEMMA NumberingAll ==
  ASSUME TypeInv, [Next]_vars, NEW t \in Producers
  PROVE  Begins(t) \/ GoesOn(t)
<1>1. CASE Acts(t)
  BY <1>1, Numbering
<1>2. CASE ~ Acts(t)
  <2>1. Same(t)
    BY <1>2, OthersSame, Basics
  <2>2. \A r \in Receivers : Yet(t, r)' <=> Yet(t, r)
    BY <2>1 DEF Same, Yet, Early, StillUpdating, First
  <2>. QED
    BY <2>1, <2>2 DEF GoesOn, Same, Carrying, Early
<1>. QED
  BY <1>1, <1>2

LEMMA BelowStays ==
  ASSUME TypeInv, [Next]_vars, NEW r \in Receivers
  PROVE  \A t \in Producers, n \in Nat :
           Below(t, n, sent, Open(r)) => Below(t, n, sent', Open(r)')
<1>1. SUFFICES ASSUME NEW t \in Producers, NEW n \in Nat, Below(t, n, sent, Open(r))
      PROVE  Below(t, n, sent', Open(r)')
  OBVIOUS
<1>2. /\ n <= sent[t] /\ (Yet(t, r) => n < sent[t])
      /\ sent[t] \in Nat
  BY <1>1 DEF Below, Open, TypeInv, TypeOK, ProducersOK
<1>3. \/ sent'[t] = sent[t] + 1
      \/ sent'[t] = sent[t] /\ (Yet(t, r)' => Yet(t, r))
  BY NumberingAll DEF Begins, GoesOn
<1>4. n <= sent'[t] /\ (Yet(t, r)' => n < sent'[t])
  BY <1>2, <1>3
<1>. QED
  BY <1>4 DEF Below, Open

LEMMA NumberedStep ==
  ASSUME TypeInv, Numbered, [Next]_vars
  PROVE  Numbered'
<1>1. ASSUME NEW t \in Producers, Carrying(t)'
      PROVE  out'[t].from = t /\ out'[t].n = sent'[t]
  BY <1>1, NumberingAll DEF Numbered, Begins, GoesOn
<1>. QED
  BY <1>1 DEF Numbered

LEMMA NewerStays ==
  ASSUME TypeInv, [Next]_vars, NEW r \in Receivers
  PROVE  \A m \in Messages : \A seen :
           Newer(m, seen, sent, Open(r)) => Newer(m, seen, sent', Open(r)')
<1>1. \A m \in Messages : m.from \in Producers /\ m.n \in Nat
  BY DEF Messages
<1>. QED
  BY <1>1, BelowStays DEF Newer

\* What is in the line of a receiver.
LEMMA LineMessages ==
  ASSUME TypeInv, NEW r \in Receivers
  PROVE  /\ queue[r] \in Seq(Pairs) /\ last[r] \in [Producers -> Nat]
         /\ \A k \in DOMAIN queue[r] : queue[r][k].msg \in Messages
         /\ pc[r] = "copy" => pair[r] \in Pairs /\ pair[r].msg \in Messages
<1>1. /\ queue[r] \in Seq(Pairs) /\ last[r] \in [Producers -> Nat]
      /\ pc[r] = "copy" => pair[r] \in Pairs
  BY DEF TypeInv, TypeOK, QueuesOK, ReceiversOK, Equipped, PairPlaces, ReceiverPlaces
<1>2. \A k \in DOMAIN queue[r] : queue[r][k] \in Pairs
  BY <1>1, ElementOfSeq, LenProperties
<1>3. \A p \in Pairs : p.msg \in Messages
  BY DEF Pairs
<1>. QED
  BY <1>1, <1>2, <1>3

\* The line of a receiver to which nothing comes, and from which nothing goes.
LEMMA LineStays ==
  ASSUME TypeInv, Ordered, [Next]_vars, NEW r \in Receivers,
         queue'[r] = queue[r], last'[r] = last[r],
         pc'[r] = "copy" => pc[r] = "copy" /\ pair'[r] = pair[r]
  PROVE  LineOK(r)'
<1>0. LineOK(r)
  BY DEF Ordered
<1>1. \A t \in Producers : Below(t, last'[r][t], sent', Open(r)')
  BY <1>0, LineMessages, BelowStays DEF LineOK
<1>2. \A k \in DOMAIN queue[r] : Newer(queue[r][k].msg, last[r], sent', Open(r)')
  BY <1>0, LineMessages, NewerStays DEF LineOK
<1>3. pc'[r] = "copy" => Newer(pair[r].msg, last[r], sent', Open(r)')
  BY <1>0, LineMessages, NewerStays DEF LineOK
<1>. QED
  BY <1>0, <1>1, <1>2, <1>3 DEF LineOK
LEMMA LineUpdated ==
  ASSUME TypeInv, Ordered, [Next]_vars, NEW t \in Producers, NEW r \in Receivers,
         Update(t), First(r, rest[t])
  PROVE  LineOK(r)'
<1>0. ThreadsOK /\ Numbered /\ LineOK(r) /\ t \in Threads /\ r \in Threads /\ r # t
  BY Basics DEF TypeInv, TypeOK, ThreadsOK, Ordered
<1>1. PICK q \in Receivers, p \in Pairs :
        /\ pc[t] = "update" /\ First(q, rest[t])
        /\ p = [id |-> id[t], slot |-> buf[t], msg |-> out[t]]
        /\ queue' = [queue EXCEPT ![q] = Append(@, p)]
  BY Updates
<1>2. q = r
  BY <1>0, <1>1, OneFirst DEF ThreadsOK, ProducersOK
<1>3. /\ queue[r] \in Seq(Pairs) /\ queue'[r] = Append(queue[r], p) /\ last' = last
      /\ sent[t] \in Nat /\ sent' = sent
      /\ \A k \in DOMAIN queue[r] : queue[r][k].msg \in Messages
      /\ pc[r] = "copy" => pair[r].msg \in Messages
  BY <1>1, <1>2, LineMessages
  DEF TypeInv, TypeOK, QueuesOK, ProducersOK, Update, producer, receiver
<1>4. pc'[t] = "post" /\ pc'[r] = pc[r] /\ pair' = pair /\ rest' = rest
  BY <1>0 DEF Update, Goto, ThreadsOK, PlacesOK, producer, receiver
<1>5. p.msg = out[t] /\ p.msg \in Messages /\ out[t].from = t /\ out[t].n = sent[t]
  <2>1. p.msg = out[t] /\ p.msg \in Messages
    BY <1>1 DEF Pairs
  <2>2. Carrying(t)
    BY <1>1 DEF Carrying, FilledPlaces, OutPlaces
  <2>. QED
    BY <1>0, <2>1, <2>2 DEF Numbered
<1>6. t \in Open(r) /\ ~ Yet(t, r)'
  BY <1>1, <1>2, <1>4 DEF Open, Yet, StillUpdating, First, Early, WrittenPlaces
<1>7. t \notin Open(r)'
  BY <1>6 DEF Open
<1>8. \A u \in Producers : Below(u, last[r][u], sent', Open(r)')
  BY <1>0, LineMessages, BelowStays DEF LineOK
<1>9. Newer(p.msg, last[r], sent', Open(r)')
  <2>1. last[r][t] < sent[t]
    BY <1>0, <1>6 DEF LineOK, Below
  <2>. QED
    BY <1>3, <1>5, <1>7, <2>1 DEF Newer, Below
<1>10. \A m \in Messages : Newer(m, last[r], sent, Open(r)) =>
         Newer(m, last[r], sent', Open(r)') /\ Before(m, p.msg)
  BY <1>5, <1>6, NewerStays DEF Newer, Below, Before
<1>11. /\ \A k \in DOMAIN Append(queue[r], p) :
            \/ k \in DOMAIN queue[r] /\ Append(queue[r], p)[k] = queue[r][k]
            \/ k = Len(queue[r]) + 1 /\ Append(queue[r], p)[k] = p
       /\ DOMAIN queue[r] = 1 .. Len(queue[r]) /\ Len(queue[r]) \in Nat
  BY <1>3, Adding, LenProperties
<1>12. \A k \in DOMAIN queue[r] : /\ Newer(queue[r][k].msg, last[r], sent', Open(r)')
                                  /\ Before(queue[r][k].msg, p.msg)
  BY <1>0, <1>3, <1>10 DEF LineOK
<1>13. \A k \in DOMAIN queue'[r] : Newer(queue'[r][k].msg, last[r], sent', Open(r)')
  BY <1>3, <1>9, <1>11, <1>12
<1>14. \A j, k \in DOMAIN queue'[r] : j < k => Before(queue'[r][j].msg, queue'[r][k].msg)
  <2>1. SUFFICES ASSUME NEW j \in DOMAIN queue'[r], NEW k \in DOMAIN queue'[r], j < k
        PROVE  Before(queue'[r][j].msg, queue'[r][k].msg)
    OBVIOUS
  <2>2. j \in DOMAIN queue[r] /\ queue'[r][j] = queue[r][j]
    BY <1>3, <1>11, <2>1
  <2>. QED
    BY <1>0, <1>3, <1>11, <1>12, <2>1, <2>2 DEF LineOK
<1>15. ASSUME pc[r] = "copy"
       PROVE  /\ Newer(pair[r].msg, last[r], sent', Open(r)')
              /\ \A k \in DOMAIN queue'[r] : Before(pair[r].msg, queue'[r][k].msg)
  BY <1>0, <1>3, <1>10, <1>11, <1>15 DEF LineOK
<1>. QED
  BY <1>3, <1>4, <1>8, <1>13, <1>14, <1>15 DEF LineOK

LEMMA LineRemoved ==
  ASSUME TypeInv, Ordered, [Next]_vars, NEW r \in Receivers, Remove(r)
  PROVE  LineOK(r)'
<1>0. LineOK(r)
  BY DEF Ordered
<1>1. /\ queue[r] \in Seq(Pairs) /\ queue[r] # <<>> /\ queue'[r] = Tail(queue[r])
      /\ pair'[r] = Head(queue[r]) /\ last' = last
      /\ \A k \in DOMAIN queue[r] : queue[r][k].msg \in Messages
  BY LineMessages DEF Remove, TypeInv, TypeOK, QueuesOK, ReceiversOK
<1>2. /\ 1 \in DOMAIN queue[r] /\ Head(queue[r]) = queue[r][1]
      /\ \A k \in DOMAIN Tail(queue[r]) :
           k + 1 \in DOMAIN queue[r] /\ Tail(queue[r])[k] = queue[r][k + 1]
      /\ DOMAIN Tail(queue[r]) \subseteq Nat \ {0}
  <2>1. Tail(queue[r]) \in Seq(Pairs)
    BY <1>1, Taking
  <2>2. DOMAIN Tail(queue[r]) = 1 .. Len(Tail(queue[r]))
    BY <2>1, LenProperties
  <2>3. DOMAIN Tail(queue[r]) \subseteq Nat \ {0}
    BY <2>2
  <2>. QED
    BY <1>1, <2>3, Taking
<1>3. \A t \in Producers : Below(t, last[r][t], sent', Open(r)')
  BY <1>0, LineMessages, BelowStays DEF LineOK
<1>4. \A k \in DOMAIN queue[r] : Newer(queue[r][k].msg, last[r], sent', Open(r)')
  BY <1>0, <1>1, NewerStays DEF LineOK
<1>5. \A j, k \in DOMAIN Tail(queue[r]) :
        j < k => Before(Tail(queue[r])[j].msg, Tail(queue[r])[k].msg)
  <2>1. SUFFICES ASSUME NEW j \in DOMAIN Tail(queue[r]), NEW k \in DOMAIN Tail(queue[r]),
                        j < k
        PROVE  Before(queue[r][j + 1].msg, queue[r][k + 1].msg)
    BY <1>2
  <2>2. j + 1 \in DOMAIN queue[r] /\ k + 1 \in DOMAIN queue[r] /\ j + 1 < k + 1
    BY <1>2, <2>1
  <2>. QED
    BY <1>0, <2>2 DEF LineOK
<1>6. \A k \in DOMAIN Tail(queue[r]) : Before(queue[r][1].msg, Tail(queue[r])[k].msg)
  <2>1. SUFFICES ASSUME NEW k \in DOMAIN Tail(queue[r])
        PROVE  Before(queue[r][1].msg, queue[r][k + 1].msg)
    BY <1>2
  <2>2. 1 \in DOMAIN queue[r] /\ k + 1 \in DOMAIN queue[r] /\ 1 < k + 1
    BY <1>2, <2>1
  <2>. QED
    BY <1>0, <2>2 DEF LineOK
<1>. QED
  BY <1>1, <1>2, <1>3, <1>4, <1>5, <1>6 DEF LineOK

\* A receiver has seen the message it copies, and everything else is newer.
LEMMA LineCopied ==
  ASSUME BusInv, Ordered, [Next]_vars, NEW r \in Receivers, Copy(r)
  PROVE  LineOK(r)' /\ got'[r].n > last[r][got'[r].from]
<1>0. TypeInv /\ LineOK(r) /\ r \in Threads /\ ThreadsOK /\ Frames
  BY Basics DEF Ordered, BusInv, TypeInv, TypeOK, ThreadsOK
<1>1. /\ last[r] \in [Producers -> Nat] /\ last \in [Receivers -> [Producers -> Nat]]
      /\ \A k \in DOMAIN queue[r] : queue[r][k].msg \in Messages
      /\ pc[r] = "copy" /\ pair[r].msg \in Messages
  BY <1>0, LineMessages DEF Copy, TypeInv, TypeOK, ReceiversOK
<1>2. PICK m \in Messages : m = pair[r].msg
  BY <1>1
<1>3. frame[pair[r].slot] = m
  BY <1>0, <1>1, <1>2 DEF Frames, Kept
<1>4. /\ last'[r] = [last[r] EXCEPT ![m.from] = m.n]
      /\ queue'[r] = queue[r] /\ pc'[r] = "free"
      /\ m.from \in Producers /\ m.n \in Nat
  BY <1>0, <1>1, <1>3 DEF Copy, Goto, queues, ThreadsOK, PlacesOK, Messages
<1>5. /\ Newer(m, last[r], sent, Open(r)) /\ last[r][m.from] < m.n
      /\ \A k \in DOMAIN queue[r] : Before(m, queue[r][k].msg)
  BY <1>0, <1>1, <1>2 DEF LineOK, Newer
<1>6. \A t \in Producers : Below(t, last'[r][t], sent', Open(r)')
  <2>1. SUFFICES ASSUME NEW t \in Producers
        PROVE  Below(t, last'[r][t], sent', Open(r)')
    OBVIOUS
  <2>2. CASE t = m.from
    <3>1. Below(t, m.n, sent, Open(r))
      BY <1>5, <2>2 DEF Newer
    <3>. QED
      BY <1>0, <1>1, <1>4, <2>2, <3>1, BelowStays
  <2>3. CASE t # m.from
    BY <1>0, <1>1, <1>4, <2>3, BelowStays DEF LineOK
  <2>. QED
    BY <2>2, <2>3
<1>7. \A k \in DOMAIN queue[r] : Newer(queue[r][k].msg, last'[r], sent', Open(r)')
  <2>1. SUFFICES ASSUME NEW k \in DOMAIN queue[r]
        PROVE  Newer(queue[r][k].msg, last'[r], sent', Open(r)')
    OBVIOUS
  <2>2. PICK o \in Messages : o = queue[r][k].msg
    BY <1>1
  <2>3. Newer(o, last[r], sent', Open(r)')
    BY <1>0, <2>2, NewerStays DEF LineOK
  <2>4. m.from = o.from => m.n < o.n
    BY <1>5, <2>2 DEF Before
  <2>5. last'[r][o.from] < o.n
    BY <1>1, <1>4, <2>3, <2>4 DEF Newer, Messages
  <2>. QED
    BY <2>2, <2>3, <2>5 DEF Newer
<1>8. LineOK(r)'
  BY <1>0, <1>4, <1>6, <1>7 DEF LineOK
<1>9. got'[r] = m
  BY <1>0, <1>3 DEF Copy, TypeInv, TypeOK, ReceiversOK
<1>. QED
  BY <1>1, <1>4, <1>5, <1>8, <1>9

LEMMA OnlyCopyGets ==
  ASSUME TypeInv, [Next]_vars, NEW r \in Receivers, ~ Copy(r)
  PROVE  last'[r] = last[r] /\ (pc[r] = "copy" => pc'[r] = "copy")
<1>0. r \in Threads /\ r \notin Producers
  BY Basics
<1>1. CASE ~ Acts(r)
  BY <1>0, <1>1, OthersSame DEF Same
<1>2. CASE Acts(r)
  <2>1. \/ AwaitPost(r) \/ Remove(r) \/ ReceiverFree(r) \/ FreeSignal(r)
        \/ Length(r) \/ Ignore(r) \/ GetMessageInfo(r) \/ UseInfo(r)
    BY <1>0, <1>2 DEF Acts, Receive, Producers
  <2>2. pc[r] # "copy"
    BY <2>1 DEF AwaitPost, Remove, ReceiverFree, Release, FreeSignal, Length, Ignore,
       GetMessageInfo, UseInfo
  <2>3. CASE Return(r) \/ AfterFree(r)
    BY <2>2, <2>3 DEF Return, AfterFree, receiver
  <2>4. CASE ~ (Return(r) \/ AfterFree(r))
    BY <2>1, <2>2, <2>4 DEF AwaitPost, Remove, ReceiverFree, Release, FreeSignal, Length, Ignore,
       GetMessageInfo, UseInfo, receiver
  <2>. QED
    BY <2>3, <2>4
<1>. QED
  BY <1>1, <1>2

LEMMA LineStep ==
  ASSUME BusInv, Ordered, [Next]_vars, NEW r \in Receivers
  PROVE  LineOK(r)'
<1>0. TypeInv /\ ThreadsOK /\ QueuesOK /\ ReceiversOK /\ r \in Threads
  BY Basics DEF BusInv, TypeInv, TypeOK, ThreadsOK
<1>1. CASE \E t \in Producers :
             /\ \/ Away(t) \/ Alone(t) \/ Shares(t) \/ AllocScan(t) \/ Update(t)
                \/ Post(t) \/ ProducerFree(t)
             /\ \A u \in Threads \ {t} : Same(u)
  <2>1. PICK t \in Producers :
          /\ \/ Away(t) \/ Alone(t) \/ Shares(t) \/ AllocScan(t) \/ Update(t)
             \/ Post(t) \/ ProducerFree(t)
          /\ \A u \in Threads \ {t} : Same(u)
    BY <1>1
  <2>2. Same(r)
    BY <1>0, <2>1, Basics
  <2>3. CASE Update(t) /\ First(r, rest[t])
    BY <1>0, <2>1, <2>2, <2>3, LineUpdated DEF Same
  <2>4. CASE ~ (Update(t) /\ First(r, rest[t]))
    <3>1. queue'[r] = queue[r]
      <4>1. CASE Update(t)
        <5>1. PICK q \in Receivers, p \in Pairs :
                First(q, rest[t]) /\ queue' = [queue EXCEPT ![q] = Append(@, p)]
          BY <1>0, <4>1, Updates
        <5>. QED
          BY <1>0, <2>4, <4>1, <5>1 DEF QueuesOK
      <4>2. CASE ~ Update(t)
        BY <2>1, <4>2
        DEF Away, Alone, Shares, AllocScan, Post, ProducerFree, Release, queues
      <4>. QED
        BY <4>1, <4>2
    <3>. QED
      BY <1>0, <2>2, <3>1, LineStays DEF Same
  <2>. QED
    BY <2>3, <2>4
<1>2. ASSUME NEW u \in Receivers,
             AwaitPost(u) \/ Remove(u) \/ Copy(u) \/ ReceiverFree(u) \/ Empty(u),
             \A v \in Threads \ {u} : Same(v)
      PROVE  LineOK(r)'
  <2>1. CASE u # r
    <3>1. Same(r)
      BY <1>0, <1>2, <2>1
    <3>2. queue'[r] = queue[r]
      BY <1>0, <1>2, <2>1
      DEF AwaitPost, Remove, Copy, ReceiverFree, Release, Empty, QueuesOK, queues
    <3>. QED
      BY <1>0, <3>1, <3>2, LineStays DEF Same
  <2>2. CASE u = r /\ Copy(r)
    BY <2>2, LineCopied
  <2>3. CASE u = r /\ Remove(r)
    BY <1>0, <2>3, LineRemoved DEF Remove
  <2>4. CASE u = r /\ (AwaitPost(r) \/ ReceiverFree(r) \/ Empty(r))
    <3>1. queue'[r] = queue[r] /\ pc'[r] # "copy" /\ ~ Copy(r)
      BY <1>0, <2>4
      DEF AwaitPost, ReceiverFree, Release, AfterFree, Empty, Copy, Goto, queues,
          ThreadsOK, PlacesOK
    <3>. QED
      BY <1>0, <3>1, OnlyCopyGets, LineStays
  <2>. QED
    BY <1>2, <2>1, <2>2, <2>3, <2>4
<1>3. CASE /\ UNCHANGED <<in_use, reference_counter, frame, queues>>
           /\ \A u \in Threads : Same(u)
  BY <1>0, <1>3, LineStays DEF Same, queues
<1>. QED
  BY <1>0, <1>1, <1>2, <1>3, Kinds

LEMMA OrderInvariant == Spec => [](BusInv /\ Ordered)
<1>1. BusInv /\ Ordered /\ [Next]_vars => Ordered'
  BY NumberedStep, LineStep DEF BusInv, Ordered
<1>. QED
  BY <1>1, OrderedInit, BusInvariant, PTL DEF Spec

(***************************************************************************)
(* A receiver gets the messages of one thread in the order they were sent, *)
(* and none of them twice: every thread gives its next message a place in  *)
(* the list only when the one before is in every list it goes to           *)
(* (Concurrent_Observed::notify, Concurrent_Observer::update, updated).    *)
(***************************************************************************)
THEOREM InOrder == Spec => FifoPerProducer
<1>1. BusInv /\ Ordered /\ [Next]_vars => [GetsNewer]_vars
  BY LineCopied, OnlyCopyGets DEF GetsNewer, BusInv
<1>. QED
  BY <1>1, OrderInvariant, PTL DEF Spec, FifoPerProducer
-----------------------------------------------------------------------------
(***************************************************************************)
(* What is said of a message is about that message or about a rival of it. *)
(* All that connects an id with a message, in the map, in the lists and in *)
(* the hands of the threads, is a claim about that id; the argument is     *)
(* that two claims about one id are of the same message or of rivals, that *)
(* no claim is about an id not yet drawn, and that all those who have      *)
(* drawn an id and not yet called notify are rivals, of each other and of  *)
(* whatever is claimed of the last id.                                     *)
(***************************************************************************)
MapSays(k, m) == k \in DOMAIN attribute_map /\ attribute_map[k] = m
QueueSays(k, m) ==
  \E r \in Receivers : \E j \in DOMAIN queue[r] :
    queue[r][j].id = k /\ queue[r][j].msg = m
PairSays(k, m) ==
  \E r \in Receivers : pc[r] \in PairPlaces /\ pair[r].id = k /\ pair[r].msg = m
InfoSays(k, m) ==
  \E r \in Receivers : pc[r] = "use" /\ info[r] # None /\ pair[r].id = k /\ info[r] = m
ProducerSays(k, m) ==
  \E t \in Producers :
    /\ out[t] = m
    /\ \/ pc[t] \in {"update", "post"} /\ id[t] = k
       \/ pc[t] = "notify" /\ attribute_map_id = k

Claim(k, m) ==
  \/ MapSays(k, m) \/ QueueSays(k, m) \/ PairSays(k, m) \/ InfoSays(k, m)
  \/ ProducerSays(k, m)

IdsAreOld == \A k, m : Claim(k, m) => k \in Nat /\ k <= attribute_map_id

RivalsShareIds ==
  \A k, m, o : Claim(k, m) /\ Claim(k, o) => Confusable(m, o)
RivalsMeet ==
  \A t, u \in Producers : Exposed(t) /\ Exposed(u) => Confusable(out[t], out[u])
LastIdRivals ==
  \A t \in Producers : \A k, m :
    Exposed(t) /\ k = attribute_map_id /\ Claim(k, m) => Confusable(out[t], m)

\* What a receiver copied is what its pair is about.
Received ==
  \A r \in Receivers :
    /\ pc[r] \in PairPlaces \ {"copy"} => got[r] = pair[r].msg
    /\ info[r] # None => pc[r] = "use"

Attributed == IdsAreOld /\ RivalsShareIds /\ RivalsMeet /\ LastIdRivals

LEMMA AttributedInit == Init => Attributed /\ Received
<1>. SUFFICES ASSUME Init PROVE Attributed /\ Received
  OBVIOUS
<1>1. \A t \in Producers : pc[t] = "idle"
  BY Basics DEF Init
<1>2. \A r \in Receivers : pc[r] = "wait" /\ queue[r] = <<>> /\ info[r] = None
  BY Basics DEF Init
<1>3. \A k, m : ~ Claim(k, m)
  BY <1>1, <1>2
  DEF Init, Claim, MapSays, QueueSays, PairSays, InfoSays, ProducerSays, PairPlaces
<1>. QED
  BY <1>1, <1>2, <1>3
  DEF Attributed, IdsAreOld, RivalsShareIds, RivalsMeet, LastIdRivals, Exposed, Received,
      PairPlaces

\* How a producer comes where it connects an id with a message.
LEMMA ProducerConnects ==
  ASSUME TypeInv, [Next]_vars, NEW t \in Producers
  PROVE  /\ pc'[t] \in {"update", "post"} =>
              /\ out'[t] = out[t]
              /\ \/ pc[t] \in {"update", "post"} /\ id'[t] = id[t]
                 \/ pc[t] = "notify" /\ id'[t] = attribute_map_id
         /\ pc'[t] = "notify" =>
              out'[t] = out[t] /\ (pc[t] = "notify" \/ MapWrite(t))
         /\ pc'[t] = "map" => out'[t] = out[t] /\ (pc[t] = "map" \/ NextId(t))
<1>0. ThreadsOK /\ t \in Threads /\ t \notin Receivers
  BY Basics DEF TypeInv, TypeOK, ThreadsOK
<1>1. CASE ~ Acts(t)
  BY <1>0, <1>1, OthersSame DEF Same
<1>2. CASE Acts(t)
  <2>1. CASE Return(t) \/ AfterFree(t)
    BY <1>0, <2>1, ReturnAway DEF AwayPlaces
  <2>2. CASE (t \in Senders /\ (StartSend(t) \/ Fill(t) \/ RawSend(t)))
             \/ AllocWait(t) \/ AllocScan(t)
    BY <1>0, <2>2 DEF StartSend, Fill, RawSend, AllocWait, AllocScan, Goto,
       ThreadsOK, PlacesOK
  <2>3. CASE t = Worker /\ (Wake(t) \/ ReceiveNothing(t) \/ ReceiveFrame(t) \/ Erase(t))
    <3>1. CASE ReceiveFrame(t)
      BY <1>0, <2>3, <3>1, Finds DEF ThreadsOK, PlacesOK
    <3>2. CASE Wake(t) \/ ReceiveNothing(t) \/ Erase(t)
      BY <1>0, <3>2 DEF Wake, ReceiveNothing, Erase, Goto, ThreadsOK, PlacesOK
    <3>. QED
      BY <2>3, <3>1, <3>2
  <2>4. CASE NextId(t)
    BY <1>0, <2>4 DEF NextId, Goto, ThreadsOK, PlacesOK, producer
  <2>5. CASE MapWrite(t)
    BY <1>0, <2>5 DEF MapWrite, Goto, ThreadsOK, PlacesOK, producer
  <2>6. CASE Notify(t)
    BY <1>0, <2>6 DEF Notify, Goto, ThreadsOK, PlacesOK, ProducersOK
  <2>7. CASE Update(t)
    BY <1>0, <2>7 DEF Update, Goto, ThreadsOK, PlacesOK, producer
  <2>8. CASE Post(t) /\ ~ Return(t)
    <3>1. pc[t] = "post" /\ Goto(t, "update") /\ UNCHANGED <<out, id>>
      BY <2>8 DEF Post
    <3>. QED
      BY <1>0, <3>1 DEF Goto, ThreadsOK, PlacesOK
  <2>9. CASE (ProducerFree(t) \/ FreeSignal(t)) /\ ~ (Return(t) \/ AfterFree(t))
    <3>1. Goto(t, "signal")
      BY <2>9 DEF ProducerFree, Release, FreeSignal
    <3>. QED
      BY <1>0, <3>1 DEF Goto, ThreadsOK, PlacesOK
  <2>. QED
    BY <1>0, <1>2, <2>1, <2>2, <2>3, <2>4, <2>5, <2>6, <2>7, <2>8, <2>9
    DEF Acts, Send, Work, Produce
<1>. QED
  BY <1>1, <1>2

\* Where the pair of a receiver comes from.
LEMMA ReceiverConnects ==
  ASSUME TypeInv, [Next]_vars, NEW r \in Receivers, pc'[r] \in PairPlaces
  PROVE  \/ pc[r] \in PairPlaces /\ pair'[r] = pair[r]
         \/ Remove(r) /\ pc'[r] = "copy" /\ pair'[r] = Head(queue[r])
<1>0. ThreadsOK /\ r \in Threads /\ r \notin Producers
  BY Basics DEF TypeInv, TypeOK, ThreadsOK
<1>1. CASE ~ Acts(r)
  BY <1>0, <1>1, OthersSame DEF Same
<1>2. CASE Acts(r)
  <2>0. Receive(r)
    BY <1>0, <1>2 DEF Acts, Producers
  <2>1. CASE Return(r)
    BY <1>0, <2>1 DEF Return, Goto, ThreadsOK, PlacesOK, PairPlaces
  <2>2. CASE AfterFree(r) /\ (ReceiverFree(r) \/ FreeSignal(r))
    <3>1. pair' = pair /\ pc[r] \in {"free", "signal"}
      BY <2>2 DEF AfterFree, ReceiverFree, Release, FreeSignal, receiver
    <3>. QED
      BY <3>1 DEF PairPlaces, ReceiverPlaces
  <2>3. CASE Remove(r)
    BY <1>0, <2>3 DEF Remove, Goto, ThreadsOK, PlacesOK, ReceiversOK
  <2>4. CASE AwaitPost(r)
    BY <1>0, <2>4 DEF AwaitPost, Goto, ThreadsOK, PlacesOK, PairPlaces
  <2>5. CASE Copy(r) \/ GetMessageInfo(r)
    BY <2>5 DEF Copy, GetMessageInfo, PairPlaces, ReceiverPlaces
  <2>6. CASE (ReceiverFree(r) /\ ~ AfterFree(r)) \/ (Length(r) /\ ~ Return(r))
    <3>1. pair' = pair /\ pc[r] \in {"free", "length"}
      BY <2>6 DEF ReceiverFree, Release, Length, receiver
    <3>. QED
      BY <3>1 DEF PairPlaces, ReceiverPlaces
  <2>7. Ignore(r) \/ UseInfo(r) => Return(r)
    BY DEF Ignore, UseInfo
  <2>8. FreeSignal(r) => AfterFree(r)
    BY DEF FreeSignal
  <2>. QED
    BY <2>0, <2>1, <2>2, <2>3, <2>4, <2>5, <2>6, <2>7, <2>8 DEF Receive
<1>. QED
  BY <1>1, <1>2

\* What a list connects was in the list, or comes from the producer that updates.
LEMMA QueueConnects ==
  ASSUME TypeInv, [Next]_vars, NEW k, NEW m, QueueSays(k, m)'
  PROVE  QueueSays(k, m) \/ ProducerSays(k, m)
<1>0. queue \in [Receivers -> Seq(Pairs)]
  BY DEF TypeInv, TypeOK, QueuesOK
<1>1. PICK r \in Receivers : \E j \in DOMAIN queue'[r] :
        queue'[r][j].id = k /\ queue'[r][j].msg = m
  BY DEF QueueSays
<1>2. PICK j \in DOMAIN queue'[r] : queue'[r][j].id = k /\ queue'[r][j].msg = m
  BY <1>1
<1>3. CASE queue'[r] = queue[r]
  BY <1>2, <1>3 DEF QueueSays
<1>4. ASSUME NEW t \in Producers, Update(t)
      PROVE  QueueSays(k, m) \/ ProducerSays(k, m)
  <2>1. PICK q \in Receivers, p \in Pairs :
          /\ pc[t] = "update"
          /\ p = [id |-> id[t], slot |-> buf[t], msg |-> out[t]]
          /\ queue' = [queue EXCEPT ![q] = Append(@, p)]
    BY <1>4, Updates
  <2>2. CASE q = r
    <3>1. queue'[r] = Append(queue[r], p) /\ queue[r] \in Seq(Pairs)
      BY <1>0, <2>1, <2>2
    <3>2. \/ j \in DOMAIN queue[r] /\ queue'[r][j] = queue[r][j]
          \/ queue'[r][j] = p
      BY <1>2, <3>1, Adding
    <3>3. CASE j \in DOMAIN queue[r] /\ queue'[r][j] = queue[r][j]
      BY <1>2, <3>3 DEF QueueSays
    <3>4. CASE queue'[r][j] = p
      <4>1. id[t] = k /\ out[t] = m
        BY <1>2, <2>1, <3>4
      <4>. QED
        BY <2>1, <4>1 DEF ProducerSays
    <3>. QED
      BY <3>2, <3>3, <3>4
  <2>3. CASE q # r
    BY <1>0, <1>3, <2>1, <2>3
  <2>. QED
    BY <2>2, <2>3
<1>5. ASSUME NEW q \in Receivers, Remove(q)
      PROVE  QueueSays(k, m)
  <2>1. CASE q = r
    <3>1. queue'[r] = Tail(queue[r]) /\ queue[r] \in Seq(Pairs) /\ queue[r] # <<>>
      BY <1>0, <1>5, <2>1 DEF Remove
    <3>2. j + 1 \in DOMAIN queue[r] /\ queue'[r][j] = queue[r][j + 1]
      BY <1>2, <3>1, Taking
    <3>. QED
      BY <1>2, <3>2 DEF QueueSays
  <2>2. CASE q # r
    <3>1. queue'[r] = queue[r]
      BY <1>0, <1>5, <2>2 DEF Remove
    <3>. QED
      BY <1>2, <3>1 DEF QueueSays
  <2>. QED
    BY <2>1, <2>2
<1>6. CASE UNCHANGED queue
  BY <1>3, <1>6
<1>. QED
  BY <1>4, <1>5, <1>6, QueueChanges DEF queues, Post, AwaitPost

LEMMA PairConnects ==
  ASSUME TypeInv, [Next]_vars, NEW k, NEW m, PairSays(k, m)'
  PROVE  PairSays(k, m) \/ QueueSays(k, m)
<1>1. PICK r \in Receivers : pc'[r] \in PairPlaces /\ pair'[r].id = k /\ pair'[r].msg = m
  BY DEF PairSays
<1>2. CASE pc[r] \in PairPlaces /\ pair'[r] = pair[r]
  BY <1>1, <1>2 DEF PairSays
<1>3. CASE Remove(r) /\ pair'[r] = Head(queue[r])
  <2>1. queue[r] \in Seq(Pairs) /\ queue[r] # <<>>
    BY <1>3 DEF Remove, TypeInv, TypeOK, QueuesOK
  <2>2. 1 \in DOMAIN queue[r] /\ pair'[r] = queue[r][1]
    BY <1>3, <2>1, Taking
  <2>. QED
    BY <1>1, <2>2 DEF QueueSays
<1>. QED
  BY <1>1, <1>2, <1>3, ReceiverConnects

\* What a receiver was told was said in the map.
LEMMA InfoConnects ==
  ASSUME TypeInv, Received, [Next]_vars, NEW k, NEW m, InfoSays(k, m)'
  PROVE  InfoSays(k, m) \/ MapSays(k, m)
<1>1. PICK r \in Receivers :
        pc'[r] = "use" /\ info'[r] # None /\ pair'[r].id = k /\ info'[r] = m
  BY DEF InfoSays
<1>2. ThreadsOK /\ r \in Threads /\ r \notin Producers
  BY Basics DEF TypeInv, TypeOK, ThreadsOK
<1>3. pc'[r] \in PairPlaces
  BY <1>1 DEF PairPlaces, ReceiverPlaces
<1>4. pair'[r] = pair[r] /\ ~ Remove(r)
  BY <1>1, <1>2, <1>3, ReceiverConnects DEF Remove, Goto, ThreadsOK, PlacesOK
<1>5. CASE GetMessageInfo(r)
  BY <1>1, <1>2, <1>4, <1>5 DEF GetMessageInfo, MapSays, ThreadsOK, ReceiversOK
<1>6. CASE ~ Acts(r)
  BY <1>1, <1>2, <1>4, <1>6, OthersSame DEF Same, InfoSays
<1>7. CASE Acts(r) /\ ~ GetMessageInfo(r)
  <2>1. \/ AwaitPost(r) \/ Copy(r) \/ ReceiverFree(r) \/ FreeSignal(r) \/ Length(r)
        \/ Ignore(r) \/ UseInfo(r)
    BY <1>2, <1>4, <1>7 DEF Acts, Receive, Producers
  <2>2. ~ (Return(r) \/ AfterFree(r))
    BY <1>1, <1>2 DEF Return, AfterFree, Goto, ThreadsOK, PlacesOK
  <2>. QED
    BY <1>1, <1>2, <2>1, <2>2
    DEF AwaitPost, Copy, ReceiverFree, Release, FreeSignal, Length, Ignore, UseInfo, Goto,
        ThreadsOK, PlacesOK
<1>. QED
  BY <1>5, <1>6, <1>7

\* What is said anew is said of the last id, by a thread that has drawn one.
Drawn(k, m) ==
  k = attribute_map_id' /\ \E t \in Producers : Exposed(t) /\ out[t] = m

LEMMA MapConnects ==
  ASSUME TypeInv, [Next]_vars, NEW k, NEW m, MapSays(k, m)'
  PROVE  MapSays(k, m) \/ InfoSays(k, m) \/ Drawn(k, m)
<1>1. CASE attribute_map' = attribute_map
  BY <1>1 DEF MapSays
<1>2. ASSUME NEW t \in Producers, MapWrite(t)
      PROVE  MapSays(k, m) \/ Drawn(k, m)
  BY <1>2 DEF MapWrite, Assign, MapSays, Drawn, Exposed
<1>3. CASE Erase(Worker)
  BY <1>3 DEF Erase, Without, MapSays
<1>4. ASSUME NEW r \in Receivers, UseInfo(r)
      PROVE  MapSays(k, m) \/ InfoSays(k, m)
  <2>1. CASE attribute_map' = attribute_map
    BY <2>1 DEF MapSays
  <2>2. CASE info[r] # None /\ attribute_map' = Assign(pair[r].id, info[r])
    <3>1. \/ k = pair[r].id /\ m = info[r]
          \/ MapSays(k, m)
      BY <2>2 DEF Assign, MapSays
    <3>. QED
      BY <1>4, <2>2, <3>1 DEF UseInfo, InfoSays
  <2>. QED
    BY <1>4, <2>1, <2>2 DEF UseInfo
<1>. QED
  BY <1>1, <1>2, <1>3, <1>4, MapChanges DEF map, NextId

\* The counter stays, unless a producer draws an id; rivals remain rivals.
LEMMA CounterChanges ==
  ASSUME TypeInv, [Next]_vars
  PROVE  /\ attribute_map_id \in Nat
         /\ rivals \subseteq rivals'
         /\ attribute_map_id' \in {attribute_map_id, attribute_map_id + 1}
<1>0. attribute_map_id \in Nat
  BY DEF TypeInv, TypeOK, MapOK
<1>. QED
  BY <1>0, MapChanges DEF map, NextId, Meets, MapWrite, Erase, UseInfo

LEMMA ProducersConnect ==
  ASSUME TypeInv, [Next]_vars, NEW k, NEW m, ProducerSays(k, m)'
  PROVE  ProducerSays(k, m) \/ Drawn(k, m)
<1>1. PICK t \in Producers :
        /\ out'[t] = m
        /\ \/ pc'[t] \in {"update", "post"} /\ id'[t] = k
           \/ pc'[t] = "notify" /\ attribute_map_id' = k
  BY DEF ProducerSays
<1>2. CASE pc'[t] \in {"update", "post"} /\ id'[t] = k
  BY <1>1, <1>2, ProducerConnects DEF ProducerSays
<1>3. CASE pc'[t] = "notify" /\ attribute_map_id' = k
  <2>1. Exposed(t) /\ out[t] = m
    BY <1>1, <1>3, ProducerConnects DEF Exposed, MapWrite
  <2>. QED
    BY <1>3, <2>1 DEF Drawn
<1>. QED
  BY <1>1, <1>2, <1>3

LEMMA ClaimsConnect ==
  ASSUME TypeInv, Received, [Next]_vars, NEW k, NEW m, Claim(k, m)'
  PROVE  Claim(k, m) \/ Drawn(k, m)
  BY MapConnects, QueueConnects, PairConnects, InfoConnects, ProducersConnect DEF Claim

\* What Confusable says after the step.
Later(m, o) == m = o \/ {m, o} \in rivals'

LEMMA ConfusableLater ==
  ASSUME TypeInv, [Next]_vars
  PROVE  \A m, o : /\ Confusable(m, o) => Later(m, o) /\ Later(o, m)
                   /\ Later(m, o) => Later(o, m)
<1>1. \A m, o : {m, o} = {o, m}
  OBVIOUS
<1>. QED
  BY <1>1, CounterChanges DEF Confusable, Later

\* Who draws an id meets everybody else who has drawn one.
LEMMA ExposedMeet ==
  ASSUME TypeInv, RivalsMeet, [Next]_vars,
         NEW t \in Producers, Exposed(t)', NEW u \in Producers, Exposed(u)
  PROVE  Later(out[t], out[u])
<1>1. Exposed(t) \/ NextId(t)
  BY ProducerConnects DEF Exposed, MapWrite
<1>2. CASE Exposed(t)
  BY <1>2, ConfusableLater DEF RivalsMeet
<1>3. CASE NextId(t)
  BY <1>3 DEF NextId, Meets, Later
<1>. QED
  BY <1>1, <1>2, <1>3

LEMMA RivalsMeetStep ==
  ASSUME TypeInv, RivalsMeet, [Next]_vars
  PROVE  RivalsMeet'
<1>. SUFFICES ASSUME NEW t \in Producers, Exposed(t)', NEW u \in Producers, Exposed(u)'
     PROVE  Later(out'[t], out'[u])
  BY DEF RivalsMeet, Confusable, Later
<1>1. \A v \in {t, u} : out'[v] = out[v] /\ (Exposed(v) \/ NextId(v))
  BY ProducerConnects DEF Exposed, MapWrite
<1>2. CASE Exposed(u)
  BY <1>1, <1>2, ExposedMeet
<1>3. CASE Exposed(t)
  BY <1>1, <1>3, ExposedMeet, ConfusableLater
<1>4. CASE NextId(t) /\ NextId(u)
  <2>1. t = u
    BY <1>4 DEF NextId, Goto, Exposed, TypeInv, TypeOK, PlacesOK
  <2>. QED
    BY <2>1 DEF Later
<1>. QED
  BY <1>1, <1>2, <1>3, <1>4

LEMMA AttributedStep ==
  ASSUME TypeInv, Received, Attributed, [Next]_vars
  PROVE  Attributed'
<1>0. /\ IdsAreOld /\ RivalsShareIds /\ RivalsMeet /\ LastIdRivals
      /\ attribute_map_id \in Nat
      /\ attribute_map_id' \in {attribute_map_id, attribute_map_id + 1}
  BY CounterChanges DEF Attributed
<1>1. \A k, m : Claim(k, m)' => Claim(k, m) \/ Drawn(k, m)
  BY ClaimsConnect
<1>2. \A k, m, o : Drawn(k, m) /\ Drawn(k, o) => Later(m, o)
  BY <1>0, ConfusableLater DEF Drawn, RivalsMeet
\* Only while the counter stays can an id be claimed that was claimed before.
<1>3. \A k, m, o : Drawn(k, m) /\ Claim(k, o) => Later(m, o)
  <2>1. SUFFICES ASSUME NEW k, NEW m, NEW o, Drawn(k, m), Claim(k, o)
        PROVE  Later(m, o)
    OBVIOUS
  <2>2. k = attribute_map_id
    BY <1>0, <2>1 DEF Drawn, IdsAreOld
  <2>3. PICK t \in Producers : Exposed(t) /\ out[t] = m
    BY <2>1 DEF Drawn
  <2>. QED
    BY <1>0, <2>1, <2>2, <2>3, ConfusableLater DEF LastIdRivals
<1>4. IdsAreOld'
  <2>1. SUFFICES ASSUME NEW k, NEW m, Claim(k, m)'
        PROVE  k \in Nat /\ k <= attribute_map_id'
    BY DEF IdsAreOld
  <2>2. CASE Claim(k, m)
    BY <1>0, <2>2 DEF IdsAreOld
  <2>3. CASE Drawn(k, m)
    BY <1>0, <2>3 DEF Drawn
  <2>. QED
    BY <1>1, <2>1, <2>2, <2>3
<1>5. RivalsShareIds'
  <2>1. SUFFICES ASSUME NEW k, NEW m, NEW o, Claim(k, m)', Claim(k, o)'
        PROVE  Later(m, o)
    BY DEF RivalsShareIds, Confusable, Later
  <2>2. CASE Claim(k, m) /\ Claim(k, o)
    BY <1>0, <2>2, ConfusableLater DEF RivalsShareIds
  <2>. QED
    BY <1>1, <1>2, <1>3, <2>1, <2>2, ConfusableLater
<1>6. RivalsMeet'
  BY <1>0, RivalsMeetStep
<1>7. LastIdRivals'
  <2>1. SUFFICES ASSUME NEW t \in Producers, NEW k, NEW m,
                        Exposed(t)', k = attribute_map_id', Claim(k, m)'
        PROVE  Later(out'[t], m)
    BY DEF LastIdRivals, Confusable, Later
  <2>2. out'[t] = out[t] /\ (Exposed(t) \/ NextId(t))
    BY <2>1, ProducerConnects DEF Exposed, MapWrite
  <2>3. CASE Drawn(k, m)
    BY <1>0, <2>1, <2>2, <2>3, ExposedMeet DEF Drawn
  <2>4. CASE Claim(k, m)
    <3>1. attribute_map_id' = attribute_map_id
      BY <1>0, <2>1, <2>4 DEF IdsAreOld
    <3>2. Exposed(t)
      BY <1>0, <2>2, <3>1 DEF NextId
    <3>. QED
      BY <1>0, <2>1, <2>2, <2>4, <3>1, <3>2, ConfusableLater DEF LastIdRivals
  <2>. QED
    BY <1>1, <2>1, <2>3, <2>4
<1>. QED
  BY <1>4, <1>5, <1>6, <1>7 DEF Attributed

\* A receiver has copied the message its pair is about.
LEMMA ReceivedStep ==
  ASSUME BusInv, Received, [Next]_vars
  PROVE  Received'
<1>. SUFFICES ASSUME NEW r \in Receivers
     PROVE  /\ pc'[r] \in PairPlaces \ {"copy"} => got'[r] = pair'[r].msg
            /\ info'[r] # None => pc'[r] = "use"
  BY DEF Received
<1>0. /\ TypeInv /\ ThreadsOK /\ r \in Threads /\ r \notin Producers /\ Frames
      /\ pc[r] \in PairPlaces \ {"copy"} => got[r] = pair[r].msg
      /\ info[r] # None => pc[r] = "use"
  BY Basics DEF BusInv, TypeInv, TypeOK, ThreadsOK, Received
<1>1. CASE ~ Acts(r)
  BY <1>0, <1>1, OthersSame DEF Same
<1>2. CASE Acts(r)
  <2>0. Receive(r)
    BY <1>0, <1>2 DEF Acts, Producers
  <2>1. CASE Return(r)
    BY <1>0, <2>1 DEF Return, Goto, ThreadsOK, PlacesOK, ReceiversOK, PairPlaces
  <2>2. CASE \/ AfterFree(r) /\ (ReceiverFree(r) \/ FreeSignal(r))
             \/ ReceiverFree(r) /\ ~ AfterFree(r)
             \/ Length(r) /\ ~ Return(r)
    <3>1. UNCHANGED <<pair, got, info>> /\ pc[r] \in {"free", "signal", "length"}
      BY <1>0, <2>2
      DEF AfterFree, ReceiverFree, Release, FreeSignal, Length, receiver
    <3>. QED
      BY <1>0, <3>1 DEF PairPlaces, ReceiverPlaces
  <2>3. CASE AwaitPost(r)
    BY <1>0, <2>3 DEF AwaitPost, Goto, ThreadsOK, PlacesOK, PairPlaces, receiver
  <2>4. CASE Remove(r)
    BY <1>0, <2>4 DEF Remove, Goto, ThreadsOK, PlacesOK
  <2>5. CASE Copy(r)
    <3>1. /\ pc[r] = "copy" /\ pc'[r] = "free" /\ pair' = pair /\ info' = info
          /\ got'[r] = frame[pair[r].slot]
      BY <1>0, <2>5 DEF Copy, Goto, ThreadsOK, PlacesOK, ReceiversOK
    <3>2. frame[pair[r].slot] = pair[r].msg
      BY <1>0, <3>1 DEF Frames, Kept
    <3>. QED
      BY <1>0, <3>1, <3>2
  <2>6. CASE GetMessageInfo(r)
    <3>1. /\ pc[r] = "info" /\ pc'[r] = "use" /\ pair' = pair /\ got' = got
      BY <1>0, <2>6 DEF GetMessageInfo, Goto, ThreadsOK, PlacesOK
    <3>. QED
      BY <1>0, <3>1 DEF PairPlaces, ReceiverPlaces
  <2>7. Ignore(r) \/ UseInfo(r) => Return(r)
    BY DEF Ignore, UseInfo
  <2>8. FreeSignal(r) => AfterFree(r)
    BY DEF FreeSignal
  <2>. QED
    BY <2>0, <2>1, <2>2, <2>3, <2>4, <2>5, <2>6, <2>7, <2>8 DEF Receive
<1>. QED
  BY <1>1, <1>2

(***************************************************************************)
(* However many threads send while frames arrive, and whatever is drawn,   *)
(* written, looked up, erased and written back by NIC::send,               *)
(* process_incoming_data and get_message_info: a receiver is told of the   *)
(* message it has copied, or of one whose thread was between               *)
(* _attribute_map_id++ and the call of notify at the same time as the      *)
(* thread of that message, or nothing.                                     *)
(***************************************************************************)
THEOREM OnlyTheRaceMisattributes == Spec => []OnlyRivalsConfused
<1>1. BusInv /\ Attributed /\ Received /\ [Next]_vars => Attributed' /\ Received'
  BY AttributedStep, ReceivedStep DEF BusInv
<1>2. Attributed /\ Received => OnlyRivalsConfused
  <2>1. SUFFICES ASSUME Attributed, Received, NEW r \in Receivers, info[r] # None
        PROVE  Confusable(info[r], got[r])
    BY DEF OnlyRivalsConfused
  <2>2. pc[r] = "use" /\ got[r] = pair[r].msg
    BY <2>1 DEF Received, PairPlaces, ReceiverPlaces
  <2>3. InfoSays(pair[r].id, info[r]) /\ PairSays(pair[r].id, got[r])
    BY <2>1, <2>2 DEF InfoSays, PairSays, PairPlaces, ReceiverPlaces
  <2>. QED
    BY <2>1, <2>3 DEF Attributed, RivalsShareIds, Claim
<1>. QED
  BY <1>1, <1>2, AttributedInit, BusInvariant, PTL DEF Spec
=============================================================================
