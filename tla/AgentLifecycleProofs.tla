------------------------- MODULE AgentLifecycleProofs -------------------------
(***************************************************************************)
(* Theorems about AgentLifecycle, for any number of components, interests, *)
(* buffers and messages: its types; that every buffer is freed or lost by  *)
(* those it was given to; that a deleted communicator is updated at most   *)
(* once by each thread; and that only starvation blocks an agent.          *)
(***************************************************************************)
EXTENDS AgentLifecycle, FiniteSetTheorems, SequenceTheorems, TLAPS

-----------------------------------------------------------------------------
\* The places of a producer that has a buffer, those at which it has it alone, and
\* those of the main thread until all components are started.
AlonePlaces == {"raw", "recv", "notify"}
BusyPlaces  == AlonePlaces \cup {"update"}
StartPlaces == ProducerPlaces \cup {"start"}

\* A thread at a place has what it needs there.
Ready(t) ==
  /\ pc[t] \in BusyPlaces => buf[t] \in Slots
  /\ pc[t] \in {"notify", "update"} => message[t] \in Received
  /\ pc[t] = "update" => rest[t] # {}
  /\ pc[t] = "alloc" /\ t # Worker => message[t] # "nothing"

Equipped ==
  /\ \A t \in Producers : Ready(t)
  /\ \A c \in Components : pc[<<c, "receive">>] = "handle" => got[c] \in Received
  /\ frames <= arrived

TypeInv == TypeOK /\ Equipped

\* How far the main thread has come with each component.
Phases ==
  /\ observers = {c \in Components : communicator[c] # "deleted"}
  /\ \A c \in Components :
       /\ communicator[c] # "running" => ~ running[c] /\ pc[Main] \notin StartPlaces
       /\ <<c, "interest">> \in Periodic /\ c >= k /\ pc[Main] \in StartPlaces =>
            pc[<<c, "interest">>] = "none"
  /\ pc[Main] \in {"tell", "join", "receiver"} => ~ running[k]
  /\ pc[Main] \in {"clear", "tell", "join", "receiver"} =>
       \A c \in Components : c >= k => communicator[c] # "deleted"

\* Who has to free a buffer.
Holders(b) == {t \in Producers : HoldsAlone(t, b)}
Owers(b)   == {c \in Components : Owes(c, b)}

\* The counter of a buffer says how many frees there are to come or lost; a producer
\* that has not notified yet is the only one with its buffer; and who has lost it
\* has it no more.
Settled(b) ==
  /\ reference_counter[b] = Cardinality(Holders(b)) + Cardinality(Owers(b)) + Cardinality(lost[b])
  /\ \A t \in Holders(b) : Holders(b) = {t} /\ Owers(b) = {} /\ lost[b] = {}
  /\ \A l \in lost[b] : l[1] \notin Owers(b)

\* Producer t is about to update c with buffer b.
Gives(t, c, b) == buf[t] = b /\ pc[t] = "update" /\ c \in rest[t]

\* Nobody gets a buffer twice.
Once ==
  \A c \in Components : \A i, j \in DOMAIN queue[c] :
    queue[c][i].slot = queue[c][j].slot => i = j
OneUpdates ==
  \A b \in Slots : \A t, u \in Producers : \A c, d \in Components :
    Gives(t, c, b) /\ Gives(u, d, b) => t = u
Distinct ==
  \A b \in Slots : \A t \in Producers : \A c \in Components :
    Gives(t, c, b) => b \notin Waiting(c)

\* A buffer is lost at a component that is stopped, and to a thread that updates a
\* deleted communicator only once.
Stopped ==
  \A b \in Slots : \A l \in lost[b] : communicator[l[1]] # "running"
Late ==
  \A t \in Producers \ {Main}, c \in Components, b \in Slots :
    <<c, t>> \in lost[b] =>
      /\ communicator[c] = "deleted" /\ c \notin rest[t]
      /\ \A a \in Slots : <<c, t>> \in lost[a] => a = b

Debts == (\A b \in Slots : Settled(b)) /\ Once /\ OneUpdates /\ Distinct

LifeInv == TypeInv /\ Phases /\ Debts /\ Stopped /\ Late

-----------------------------------------------------------------------------
LEMMA Basics ==
  /\ Main \in Producers /\ Worker \in Producers /\ Main # Worker
  /\ Main \notin Periodic /\ Worker \notin Periodic
  /\ Main \notin Receivers /\ Worker \notin Receivers
  /\ Periodic \subseteq Producers /\ Producers \subseteq Threads
  /\ Receivers \subseteq Threads
  /\ \A t \in Producers : t \notin Receivers
  /\ \A t \in Producers : t = Main \/ t = Worker \/ t \in Periodic
  /\ \A t \in Threads : t \in Producers \/ t \in Receivers
  /\ \A c \in Components : <<c, "receive">> \in Receivers
  /\ \A c, d \in Components : <<c, "receive">> = <<d, "receive">> => c = d
<1>1. Kinds[2] = "internal" /\ Kinds[3] = "external" /\ 2 .. 3 = {2, 3}
  BY DEF Kinds
<1>2. Periodic \cap Receivers = {}
  BY <1>1 DEF Periodic, Receivers
<1>. QED
  BY <1>2, LifecycleAssumption DEF Producers, Threads, Receivers

LEMMA Finite ==
  /\ IsFiniteSet(Components) /\ IsFiniteSet(Slots) /\ IsFiniteSet(Producers)
  /\ Components \subseteq Nat /\ Slots \subseteq Nat
<1>1. NumComponents \in Nat \ {0} /\ SIZE \in Nat \ {0}
  BY LifecycleAssumption
<1>2. IsFiniteSet(Components) /\ IsFiniteSet(Slots)
  BY <1>1, FS_Interval DEF Components, Slots
<1>3. IsFiniteSet({"interest", "internal", "external"})
  <2>1. IsFiniteSet((({} \cup {"interest"}) \cup {"internal"}) \cup {"external"})
    BY FS_EmptySet, FS_AddElement
  <2>2. {"interest", "internal", "external"} =
          (({} \cup {"interest"}) \cup {"internal"}) \cup {"external"}
    OBVIOUS
  <2>. QED
    BY <2>1, <2>2
<1>4. IsFiniteSet(Components \X {"interest", "internal", "external"})
  BY <1>2, <1>3, FS_Product
<1>5. Periodic \subseteq Components \X {"interest", "internal", "external"}
  <2>1. Kinds[2] = "internal" /\ Kinds[3] = "external" /\ 2 .. 3 = {2, 3}
    BY DEF Kinds
  <2>. QED
    BY <2>1, LifecycleAssumption DEF Periodic
<1>6. IsFiniteSet(Periodic)
  BY <1>4, <1>5, FS_Subset
<1>7. IsFiniteSet({Main, Worker})
  <2>1. IsFiniteSet(({} \cup {Main}) \cup {Worker})
    BY FS_EmptySet, FS_AddElement
  <2>2. {Main, Worker} = ({} \cup {Main}) \cup {Worker}
    OBVIOUS
  <2>. QED
    BY <2>1, <2>2
<1>8. IsFiniteSet(Producers)
  BY <1>6, <1>7, FS_Union DEF Producers
<1>. QED
  BY <1>1, <1>2, <1>8 DEF Components, Slots

\* The steps, thread by thread.
LEMMA Steps ==
  ASSUME [Next]_vars
  PROVE  \/ \E t \in Producers : Alloc(t) \/ Raw(t) \/ Notify(t) \/ Update(t)
         \/ \E t \in Periodic : StartSend(t) \/ End(t)
         \/ \E c \in Components : Loop(c) \/ GiveUp(c) \/ Receive(c) \/ Handle(c)
         \/ TestRunning \/ Wake \/ PassOn \/ Discard \/ Drained \/ Arrive
         \/ SendInterest \/ Launch \/ ClearRunning \/ Tell \/ Join
         \/ StopCommunicator \/ DeleteCommunicator
         \/ ClearNic \/ PostNic \/ StopPool \/ JoinWorker
         \/ UNCHANGED vars
  BY Basics
  DEF Next, MainThread, WorkerThread, PeriodicThread, ReceiveThread, Produce

LEMMA Moves ==
  ASSUME PlacesOK, NEW t \in Threads, NEW place, Goto(t, place),
         t = Main => place \in MainPlaces, t = Worker => place \in WorkerPlaces,
         t \in Periodic => place \in PeriodicPlaces,
         t \in Receivers => place \in ReceiverPlaces
  PROVE  PlacesOK' /\ pc'[t] = place /\ \A u \in Threads \ {t} : pc'[u] = pc[u]
<1>1. DOMAIN pc' = Threads /\ pc'[t] = place /\ \A u \in Threads \ {t} : pc'[u] = pc[u]
  BY DEF PlacesOK, Goto
<1>. QED
  BY <1>1, Basics DEF PlacesOK

\* First and last pairs of a list.
LEMMA Taking ==
  ASSUME NEW S, NEW s \in Seq(S), s # <<>>
  PROVE  /\ Head(s) = s[1] /\ Head(s) \in S /\ Tail(s) \in Seq(S)
         /\ DOMAIN s = 1 .. Len(s) /\ DOMAIN Tail(s) = 1 .. Len(s) - 1
         /\ Len(s) \in Nat \ {0}
         /\ \A j \in DOMAIN Tail(s) : Tail(s)[j] = s[j + 1]
<1>1. Len(s) \in Nat \ {0} /\ DOMAIN s = 1 .. Len(s)
  BY EmptySeq, LenProperties
<1>2. /\ Head(s) \in S /\ Tail(s) \in Seq(S) /\ Len(Tail(s)) = Len(s) - 1
      /\ \A j \in 1 .. Len(Tail(s)) : Tail(s)[j] = s[j + 1]
  BY HeadTailProperties
<1>3. DOMAIN Tail(s) = 1 .. Len(Tail(s))
  BY <1>2, LenProperties
<1>4. Head(s) = s[1]
  BY <1>1, HeadTailOfSubSeq, SubSeqFull
<1>. QED
  BY <1>1, <1>2, <1>3, <1>4

LEMMA Adding ==
  ASSUME NEW S, NEW s \in Seq(S), NEW e \in S
  PROVE  /\ Append(s, e) \in Seq(S)
         /\ DOMAIN s = 1 .. Len(s) /\ DOMAIN Append(s, e) = 1 .. Len(s) + 1
         /\ Len(s) \in Nat
         /\ \A j \in DOMAIN s : Append(s, e)[j] = s[j]
         /\ Append(s, e)[Len(s) + 1] = e
  BY AppendProperties, LenProperties

LEMMA TypeInit == Init => TypeInv
<1>. SUFFICES ASSUME Init PROVE TypeInv
  OBVIOUS
<1>1. PoolOK /\ EndpointsOK /\ SocketOK
  <2>1. PoolOK
    BY LifecycleAssumption DEF Init, PoolOK
  <2>2. EndpointsOK
    BY DEF Init, EndpointsOK
  <2>3. SocketOK
    <3>1. MaxFrames \in Nat
      BY LifecycleAssumption
    <3>2. 0 \in 0 .. MaxFrames
      BY <3>1
    <3>. QED
      BY <3>2 DEF Init, SocketOK
  <2>. QED
    BY <2>1, <2>2, <2>3
<1>2. QueuesOK
  BY DEF Init, QueuesOK
<1>3. PlacesOK
  BY Basics DEF Init, PlacesOK, MainPlaces, WorkerPlaces, PeriodicPlaces, ReceiverPlaces
<1>4. LocalsOK
  BY LifecycleAssumption DEF Init, LocalsOK, Components
<1>5. Equipped
  BY Basics DEF Init, Equipped, Ready, BusyPlaces, AlonePlaces
<1>. QED
  BY <1>1, <1>2, <1>3, <1>4, <1>5 DEF TypeInv, TypeOK

-----------------------------------------------------------------------------
\* Types.

LEMMA HeadTypes ==
  ASSUME TypeInv, NEW c \in Components, queue[c] # <<>>
  PROVE  Head(queue[c]) \in Pairs /\ Head(queue[c]).slot \in Slots
<1>1. queue[c] \in Seq(Pairs)
  BY DEF TypeInv, TypeOK, QueuesOK
<1>2. Head(queue[c]) \in Pairs
  BY <1>1, Taking
<1>. QED
  BY <1>2 DEF Pairs

LEMMA BufTypes ==
  ASSUME TypeInv, NEW t \in Producers, pc[t] \in BusyPlaces
  PROVE  buf[t] \in Slots
  BY DEF TypeInv, Equipped, Ready

LEMMA PoolTypes ==
  ASSUME TypeInv, [Next]_vars
  PROVE  PoolOK'
<1>0. PoolOK /\ k \in Components
  BY DEF TypeInv, TypeOK, LocalsOK
<1>1. CASE UNCHANGED pool
  BY <1>0, <1>1 DEF PoolOK, pool
<1>2. ASSUME NEW b \in Slots, Free(b)
      PROVE  PoolOK'
  BY <1>0, <1>2 DEF PoolOK, Free
<1>3. ASSUME NEW b \in Slots, NEW l \in Components \X Threads,
             Lose(b, l[1], l[2]), UNCHANGED <<free_buffers, reference_counter>>
      PROVE  PoolOK'
  BY <1>0, <1>3 DEF PoolOK, Lose
<1>4. ASSUME NEW t \in Producers, Alloc(t)
      PROVE  PoolOK'
  BY <1>0, <1>4 DEF PoolOK, Alloc
<1>5. ASSUME NEW t \in Producers, Raw(t)
      PROVE  PoolOK'
  BY <1>2, <1>5, BufTypes DEF Raw, BusyPlaces, AlonePlaces
<1>6. ASSUME NEW t \in Producers, Notify(t)
      PROVE  PoolOK'
  <2>1. buf[t] \in Slots
    BY <1>6, BufTypes DEF Notify, BusyPlaces, AlonePlaces
  <2>2. CASE observers = {}
    BY <1>2, <1>6, <2>1, <2>2 DEF Notify
  <2>3. CASE observers # {}
    <3>1. observers \in SUBSET Components
      BY DEF TypeInv, TypeOK, EndpointsOK
    <3>2. Cardinality(observers) \in Nat
      BY <3>1, Finite, FS_Subset, FS_CardinalityType
    <3>3. /\ reference_counter' = [reference_counter EXCEPT ![buf[t]] = Cardinality(observers)]
          /\ UNCHANGED <<free_buffers, lost>>
      BY <1>6, <2>3 DEF Notify
    <3>. QED
      BY <1>0, <2>1, <3>2, <3>3 DEF PoolOK
  <2>. QED
    BY <2>2, <2>3
<1>7. ASSUME NEW t \in Producers, Update(t)
      PROVE  PoolOK'
  <2>1. buf[t] \in Slots
    BY <1>7, BufTypes DEF Update, BusyPlaces, AlonePlaces
  <2>2. PICK c \in Components :
          UNCHANGED lost \/ Lose(buf[t], c, t)
    BY <1>7 DEF Update
  <2>3. UNCHANGED <<free_buffers, reference_counter>>
    BY <1>7 DEF Update
  <2>. QED
    BY <1>0, <2>1, <2>2, <2>3, Basics DEF PoolOK, Lose
<1>8. ASSUME NEW c \in Components, GiveUp(c)
      PROVE  PoolOK'
  <2>1. UNCHANGED lost \/ (queue[c] # <<>> /\ Lose(Head(queue[c]).slot, c, <<c, "receive">>))
    BY <1>8 DEF GiveUp
  <2>2. UNCHANGED <<free_buffers, reference_counter>>
    BY <1>8 DEF GiveUp
  <2>. QED
    BY <1>0, <2>1, <2>2, HeadTypes, Basics DEF PoolOK, Lose
<1>9. ASSUME NEW c \in Components, Receive(c)
      PROVE  PoolOK'
  BY <1>2, <1>9, HeadTypes DEF Receive
<1>10. CASE Discard \/ Drained
  BY <1>2, <1>10, BufTypes, Basics DEF Discard, Drained, BusyPlaces, AlonePlaces
<1>11. CASE DeleteCommunicator
  BY <1>0, <1>11, Basics DEF DeleteCommunicator, PoolOK
<1>12. CASE StopPool
  BY <1>0, <1>12 DEF StopPool, PoolOK
<1>13. CASE \E t \in Periodic : StartSend(t) \/ End(t)
  BY <1>1, <1>13 DEF StartSend, End
<1>14. CASE \E c \in Components : Loop(c) \/ Handle(c)
  BY <1>1, <1>14 DEF Loop, Handle
<1>15. CASE \/ TestRunning \/ Wake \/ PassOn \/ Arrive
            \/ SendInterest \/ Launch \/ ClearRunning \/ Tell \/ Join
            \/ StopCommunicator \/ ClearNic \/ PostNic \/ JoinWorker
            \/ UNCHANGED vars
  BY <1>1, <1>15
  DEF TestRunning, Wake, PassOn, Arrive, SendInterest, Launch, ClearRunning, Tell, Join,
      StopCommunicator, ClearNic, PostNic, JoinWorker, MainOnly, vars
<1>. QED
  BY <1>4, <1>5, <1>6, <1>7, <1>8, <1>9, <1>10, <1>11, <1>12, <1>13, <1>14, <1>15, Steps

LEMMA EndpointTypes ==
  ASSUME TypeInv, [Next]_vars
  PROVE  EndpointsOK'
<1>0. EndpointsOK /\ k \in Components
  BY DEF TypeInv, TypeOK, LocalsOK
<1>1. CASE UNCHANGED endpoints
  BY <1>0, <1>1 DEF EndpointsOK, endpoints
<1>2. CASE SendInterest \/ Launch \/ ClearRunning
  BY <1>0, <1>2 DEF SendInterest, Launch, ClearRunning, EndpointsOK
<1>3. CASE StopCommunicator \/ DeleteCommunicator
  BY <1>0, <1>3 DEF StopCommunicator, DeleteCommunicator, EndpointsOK
<1>4. CASE \E t \in Producers : Alloc(t) \/ Raw(t) \/ Notify(t) \/ Update(t)
  BY <1>1, <1>4 DEF Alloc, Raw, Notify, Update
<1>5. CASE \E t \in Periodic : StartSend(t) \/ End(t)
  BY <1>1, <1>5 DEF StartSend, End
<1>6. CASE \E c \in Components : Loop(c) \/ GiveUp(c) \/ Receive(c) \/ Handle(c)
  BY <1>1, <1>6 DEF Loop, GiveUp, Receive, Handle
<1>7. CASE \/ TestRunning \/ Wake \/ PassOn \/ Discard \/ Drained \/ Arrive
           \/ Tell \/ Join \/ ClearNic \/ PostNic \/ StopPool \/ JoinWorker
           \/ UNCHANGED vars
  BY <1>1, <1>7
  DEF TestRunning, Wake, PassOn, Discard, Drained, Arrive, Tell, Join,
      ClearNic, PostNic, StopPool, JoinWorker, MainOnly, vars
<1>. QED
  BY <1>2, <1>3, <1>4, <1>5, <1>6, <1>7, Steps

\* What Update does to a list, and to whom.
LEMMA Updates ==
  ASSUME TypeInv, NEW t \in Producers, Update(t)
  PROVE  \E c \in Components, p \in Pairs :
           /\ pc[t] = "update" /\ First(c, rest[t])
           /\ p = [slot |-> buf[t], has |-> message[t]]
           /\ UNCHANGED <<free_buffers, reference_counter>>
           /\ \/ /\ communicator[c] # "deleted" /\ UNCHANGED lost
                 /\ queue' = [queue EXCEPT ![c] = Append(@, p)]
                 /\ semaphore' = [semaphore EXCEPT ![c] = @ + 1]
              \/ /\ communicator[c] = "deleted" /\ UNCHANGED queues
                 /\ lost' = [lost EXCEPT ![buf[t]] = @ \cup {<<c, t>>}]
           /\ \/ rest[t] = {c} /\ Done(t, Home(t))
              \/ /\ rest[t] # {c}
                 /\ rest' = [rest EXCEPT ![t] = @ \ {c}]
                 /\ UNCHANGED <<pc, message, buf>>
<1>1. [slot |-> buf[t], has |-> message[t]] \in Pairs
  BY DEF TypeInv, Equipped, Ready, Update, BusyPlaces, AlonePlaces, Pairs
<1>. QED
  BY <1>1 DEF Update, Lose

LEMMA QueueTypes ==
  ASSUME TypeInv, [Next]_vars
  PROVE  QueuesOK'
<1>0. QueuesOK /\ k \in Components
  BY DEF TypeInv, TypeOK, LocalsOK
<1>1. CASE UNCHANGED queues
  BY <1>0, <1>1 DEF QueuesOK, queues
<1>2. ASSUME NEW c \in Components, GiveUp(c) \/ Receive(c)
      PROVE  QueuesOK'
  <2>1. /\ semaphore[c] > 0 /\ semaphore' = [semaphore EXCEPT ![c] = @ - 1]
        /\ \/ queue' = queue
           \/ queue[c] # <<>> /\ queue' = [queue EXCEPT ![c] = Tail(@)]
    BY <1>2 DEF GiveUp, Receive, Take
  <2>2. semaphore' \in [Components -> Nat]
    BY <1>0, <2>1 DEF QueuesOK
  <2>3. queue[c] # <<>> => Tail(queue[c]) \in Seq(Pairs)
    BY <1>0, Taking DEF QueuesOK
  <2>. QED
    BY <1>0, <2>1, <2>2, <2>3 DEF QueuesOK
<1>3. ASSUME NEW t \in Producers, Update(t)
      PROVE  QueuesOK'
  <2>1. PICK c \in Components, p \in Pairs :
          \/ UNCHANGED queues
          \/ /\ queue' = [queue EXCEPT ![c] = Append(@, p)]
             /\ semaphore' = [semaphore EXCEPT ![c] = @ + 1]
    BY <1>3, Updates
  <2>2. Append(queue[c], p) \in Seq(Pairs)
    BY <1>0, Adding DEF QueuesOK
  <2>3. CASE /\ queue' = [queue EXCEPT ![c] = Append(@, p)]
             /\ semaphore' = [semaphore EXCEPT ![c] = @ + 1]
    <3>1. queue' \in [Components -> Seq(Pairs)]
      BY <1>0, <2>2, <2>3 DEF QueuesOK
    <3>2. semaphore' \in [Components -> Nat]
      BY <1>0, <2>3 DEF QueuesOK
    <3>. QED
      BY <3>1, <3>2 DEF QueuesOK
  <2>. QED
    BY <1>1, <2>1, <2>3
<1>4. CASE StopCommunicator
  BY <1>0, <1>4 DEF StopCommunicator, QueuesOK
<1>5. CASE DeleteCommunicator
  BY <1>0, <1>5 DEF DeleteCommunicator, QueuesOK
<1>6. CASE \E t \in Producers : Alloc(t) \/ Raw(t) \/ Notify(t)
  BY <1>1, <1>6 DEF Alloc, Raw, Notify
<1>7. CASE \E t \in Periodic : StartSend(t) \/ End(t)
  BY <1>1, <1>7 DEF StartSend, End
<1>8. CASE \E c \in Components : Loop(c) \/ Handle(c)
  BY <1>1, <1>8 DEF Loop, Handle
<1>9. CASE \/ TestRunning \/ Wake \/ PassOn \/ Discard \/ Drained \/ Arrive
           \/ SendInterest \/ Launch \/ ClearRunning \/ Tell \/ Join
           \/ ClearNic \/ PostNic \/ StopPool \/ JoinWorker \/ UNCHANGED vars
  BY <1>1, <1>9
  DEF TestRunning, Wake, PassOn, Discard, Drained, Arrive, SendInterest, Launch,
      ClearRunning, Tell, Join, ClearNic, PostNic, StopPool, JoinWorker, MainOnly, vars
<1>. QED
  BY <1>2, <1>3, <1>4, <1>5, <1>6, <1>7, <1>8, <1>9, Steps

LEMMA SocketTypes ==
  ASSUME TypeInv, [Next]_vars
  PROVE  SocketOK' /\ frames' <= arrived'
<1>0. SocketOK /\ frames <= arrived /\ MaxFrames \in Nat
  BY LifecycleAssumption DEF TypeInv, TypeOK, Equipped
<1>1. CASE UNCHANGED <<socket, crashed>>
  BY <1>0, <1>1 DEF SocketOK, socket
<1>2. CASE UNCHANGED socket /\ crashed' \in BOOLEAN
  BY <1>0, <1>2 DEF SocketOK, socket
<1>3. CASE PassOn \/ Discard \/ Arrive \/ Wake
  BY <1>0, <1>3 DEF PassOn, Discard, Arrive, Wake, SocketOK
<1>4. CASE ClearNic \/ PostNic
  <2>1. CASE ClearNic
    BY <1>0, <2>1 DEF ClearNic, SocketOK
  <2>2. CASE PostNic
    <3>1. /\ sem' = sem + 1
          /\ UNCHANGED <<frames, arrived, nic_running, crashed>>
      BY <2>2 DEF PostNic
    <3>. QED
      BY <1>0, <3>1 DEF SocketOK
  <2>. QED
    BY <1>4, <2>1, <2>2
<1>5. CASE \E t \in Producers : Alloc(t) \/ Raw(t) \/ Notify(t)
  BY <1>1, <1>5 DEF Alloc, Raw, Notify
<1>6. CASE \E t \in Producers : Update(t)
  BY <1>0, <1>2, <1>6 DEF Update, SocketOK
<1>7. CASE \E t \in Periodic : StartSend(t) \/ End(t)
  BY <1>1, <1>7 DEF StartSend, End
<1>8. CASE \E c \in Components : Loop(c) \/ GiveUp(c) \/ Receive(c) \/ Handle(c)
  BY <1>1, <1>8 DEF Loop, GiveUp, Receive, Handle
<1>9. CASE \/ TestRunning \/ Drained \/ SendInterest \/ Launch \/ ClearRunning \/ Tell
           \/ Join \/ StopCommunicator \/ DeleteCommunicator \/ StopPool \/ JoinWorker
           \/ UNCHANGED vars
  BY <1>1, <1>9
  DEF TestRunning, Drained, SendInterest, Launch, ClearRunning, Tell, Join,
      StopCommunicator, DeleteCommunicator, StopPool, JoinWorker, MainOnly, vars
<1>. QED
  BY <1>3, <1>4, <1>5, <1>6, <1>7, <1>8, <1>9, Steps

-----------------------------------------------------------------------------
\* The places of the threads, and whose step changes what.

\* A step of producer t, other than the one in which the main thread creates
\* threads of a component.
Acts(t) ==
  \/ Alloc(t) \/ Raw(t) \/ Notify(t) \/ Update(t)
  \/ t \in Periodic /\ (StartSend(t) \/ End(t))
  \/ t = Worker /\ (TestRunning \/ Wake \/ PassOn \/ Discard \/ Drained)
  \/ t = Main /\ \/ SendInterest \/ ClearRunning \/ Tell \/ Join
                 \/ StopCommunicator \/ DeleteCommunicator
                 \/ ClearNic \/ PostNic \/ StopPool \/ JoinWorker

Same(u) == pc'[u] = pc[u] /\ message'[u] = message[u] /\ buf'[u] = buf[u] /\ rest'[u] = rest[u]

Born(u) ==
  /\ pc[u] \in {"none", "start"} /\ pc'[u] \in {"loop", "start", "clear"}
  /\ message'[u] = message[u] /\ buf'[u] = buf[u] /\ rest'[u] = rest[u]

LEMMA ActorSteps ==
  ASSUME [Next]_vars
  PROVE  \/ \E t \in Producers : Acts(t)
         \/ \E c \in Components : Loop(c) \/ GiveUp(c) \/ Receive(c) \/ Handle(c)
         \/ Launch \/ Arrive \/ UNCHANGED vars
  BY Steps, Basics DEF Acts

\* Where a step of a producer ends.
LEMMA ActsMoves ==
  ASSUME NEW t \in Producers, Acts(t)
  PROVE  \E place :
           /\ Goto(t, place) \/ (place = pc[t] /\ pc' = pc)
           /\ \/ place = pc[t] \/ place \in ProducerPlaces \/ place = Home(t)
              \/ t \in Periodic /\ place = "exit"
              \/ t = Worker /\ place \in {"loop", "wait", "recv", "exit"}
              \/ t = Main /\ place \in MainPlaces
<1>1. CASE Alloc(t)
  BY <1>1 DEF Alloc, Done, ProducerPlaces
<1>2. CASE Raw(t) \/ Notify(t)
  BY <1>2 DEF Raw, Notify, Done, ProducerPlaces
<1>3. CASE Update(t)
  BY <1>3 DEF Update, Done
<1>4. CASE t \in Periodic /\ (StartSend(t) \/ End(t))
  BY <1>4 DEF StartSend, End, ProducerPlaces
<1>5. CASE t = Worker /\ (TestRunning \/ Wake \/ PassOn \/ Discard \/ Drained)
  BY <1>5 DEF TestRunning, Wake, PassOn, Discard, Drained, Done, ProducerPlaces
<1>6. CASE t = Main /\ \/ SendInterest \/ ClearRunning \/ Tell \/ Join
                       \/ StopCommunicator \/ DeleteCommunicator
                       \/ ClearNic \/ PostNic \/ StopPool \/ JoinWorker
  BY <1>6 DEF SendInterest, ClearRunning, Tell, Join, StopCommunicator,
     DeleteCommunicator, ClearNic, PostNic, StopPool, JoinWorker, ProducerPlaces, MainPlaces
<1>. QED
  BY <1>1, <1>2, <1>3, <1>4, <1>5, <1>6 DEF Acts

\* What a receive thread does to places: it may create a thread.
LEMMA Handles ==
  ASSUME TypeInv, NEW c \in Components, Handle(c)
  PROVE  /\ DOMAIN pc' = Threads /\ pc'[<<c, "receive">>] \in {"loop", "exit"}
         /\ \A u \in Threads \ {<<c, "receive">>} :
              \/ pc'[u] = pc[u]
              \/ u \in Periodic /\ pc[u] = "none" /\ pc'[u] = "loop" /\ u[2] # "interest"
<1>0. DOMAIN pc = Threads /\ <<c, "receive">> \in Threads /\ <<c, "receive">> \notin Periodic
  BY Basics DEF TypeInv, TypeOK, PlacesOK
<1>1. got[c] \in Received
  BY DEF TypeInv, Equipped, Handle
<1>2. CASE running[c] /\ c \in Answering /\ got[c] # "response" /\ pc[<<c, got[c]>>] = "none"
  <2>1. got[c] \in {"internal", "external"}
    BY <1>1, <1>2 DEF Received
  <2>2. <<c, got[c]>> \in Periodic
    <3>1. Kinds[2] = "internal" /\ Kinds[3] = "external" /\ 2 .. 3 = {2, 3}
      BY DEF Kinds
    <3>. QED
      BY <1>2, <2>1, <3>1 DEF Periodic
  <2>3. pc' = [pc EXCEPT ![<<c, "receive">>] = "loop", ![<<c, got[c]>>] = "loop"]
    BY <1>2 DEF Handle
  <2>. QED
    BY <1>0, <1>2, <2>1, <2>2, <2>3, Basics
<1>3. CASE ~ (running[c] /\ c \in Answering /\ got[c] # "response" /\ pc[<<c, got[c]>>] = "none")
  <2>1. pc' = [pc EXCEPT ![<<c, "receive">>] = IF running[c] THEN "loop" ELSE "exit"]
    BY <1>3 DEF Handle, Goto
  <2>. QED
    BY <1>0, <2>1
<1>. QED
  BY <1>2, <1>3

LEMMA PlaceTypes ==
  ASSUME TypeInv, [Next]_vars
  PROVE  PlacesOK'
<1>0. PlacesOK /\ k \in Components
  BY DEF TypeInv, TypeOK, LocalsOK
<1>1. CASE UNCHANGED pc
  BY <1>0, <1>1 DEF PlacesOK
<1>2. ASSUME NEW t \in Producers, Acts(t)
      PROVE  PlacesOK'
  <2>1. PICK place :
           /\ Goto(t, place) \/ (place = pc[t] /\ pc' = pc)
           /\ \/ place = pc[t] \/ place \in ProducerPlaces \/ place = Home(t)
              \/ t \in Periodic /\ place = "exit"
              \/ t = Worker /\ place \in {"loop", "wait", "recv", "exit"}
              \/ t = Main /\ place \in MainPlaces
    BY <1>2, ActsMoves
  <2>2. /\ t = Main => place \in MainPlaces
        /\ t = Worker => place \in WorkerPlaces
        /\ t \in Periodic => place \in PeriodicPlaces
    BY <1>0, <2>1, Basics DEF PlacesOK, MainPlaces, WorkerPlaces, PeriodicPlaces,
       ProducerPlaces, Home
  <2>. QED
    BY <1>0, <1>1, <2>1, <2>2, Moves, Basics
<1>3. ASSUME NEW c \in Components, Handle(c)
      PROVE  PlacesOK'
  <2>1. /\ \A u \in {Main, Worker} : pc'[u] = pc[u]
        /\ \A u \in Periodic : pc'[u] = pc[u] \/ pc'[u] = "loop"
        /\ \A u \in Receivers : pc'[u] = pc[u] \/ pc'[u] \in {"loop", "exit"}
        /\ DOMAIN pc' = Threads
    BY <1>3, Handles, Basics
  <2>. QED
    BY <1>0, <2>1 DEF PlacesOK, PeriodicPlaces, ReceiverPlaces
<1>4. ASSUME NEW c \in Components, Loop(c) \/ GiveUp(c) \/ Receive(c)
      PROVE  PlacesOK'
  <2>1. PICK place \in {"wait", "exit", "loop", "handle"} : Goto(<<c, "receive">>, place)
    BY <1>4 DEF Loop, GiveUp, Receive
  <2>. QED
    BY <1>0, <2>1, Moves, Basics DEF ReceiverPlaces
<1>5. CASE Launch
  <2>1. /\ DOMAIN pc' = Threads
        /\ pc'[Main] \in {"start", "clear"} /\ pc'[Worker] = pc[Worker]
        /\ \A u \in Periodic \cup Receivers : pc'[u] = pc[u] \/ pc'[u] = "loop"
    BY <1>0, <1>5, Basics DEF Launch, PlacesOK, Periodic
  <2>. QED
    BY <1>0, <2>1 DEF PlacesOK, PeriodicPlaces, ReceiverPlaces, MainPlaces
<1>6. CASE Arrive \/ UNCHANGED vars
  BY <1>1, <1>6 DEF Arrive, vars
<1>. QED
  BY <1>2, <1>3, <1>4, <1>5, <1>6, ActorSteps

LEMMA Locality ==
  ASSUME TypeInv, NEW t \in Producers, Acts(t)
  PROVE  /\ \A u \in Producers \ {t} : Same(u)
         /\ \A u \in Threads \ {t} : pc'[u] = pc[u]
<1>0. PlacesOK /\ LocalsOK
  BY DEF TypeInv, TypeOK
<1>1. \A u \in Threads \ {t} : pc'[u] = pc[u]
  BY <1>0, ActsMoves DEF Goto, PlacesOK
<1>2. \A u \in Producers \ {t} :
        message'[u] = message[u] /\ buf'[u] = buf[u] /\ rest'[u] = rest[u]
  <2>1. CASE UNCHANGED local
    BY <2>1 DEF local
  <2>2. CASE \E place : Done(t, place)
    BY <1>0, <2>2 DEF Done, LocalsOK
  <2>3. CASE Alloc(t) \/ Notify(t) \/ Update(t)
    BY <1>0, <2>2, <2>3 DEF Alloc, Notify, Update, LocalsOK
  <2>4. CASE Raw(t)
    BY <2>2, <2>4 DEF Raw
  <2>5. CASE t \in Periodic /\ (StartSend(t) \/ End(t))
    BY <1>0, <2>1, <2>5 DEF StartSend, End, LocalsOK
  <2>6. CASE t = Worker /\ (TestRunning \/ Wake \/ PassOn \/ Discard \/ Drained)
    BY <1>0, <2>1, <2>2, <2>6 DEF TestRunning, Wake, PassOn, Discard, Drained, LocalsOK
  <2>7. CASE t = Main /\ SendInterest
    BY <1>0, <2>7 DEF SendInterest, LocalsOK
  <2>8. CASE t = Main /\ \/ ClearRunning \/ Tell \/ Join \/ StopCommunicator
                         \/ DeleteCommunicator \/ ClearNic \/ PostNic \/ StopPool
                         \/ JoinWorker
    BY <2>1, <2>8 DEF ClearRunning, Tell, Join, StopCommunicator,
       DeleteCommunicator, ClearNic, PostNic, StopPool, JoinWorker, MainOnly
  <2>. QED
    BY <2>3, <2>4, <2>5, <2>6, <2>7, <2>8 DEF Acts
<1>. QED
  BY <1>1, <1>2, Basics DEF Same

\* The producers in any other step.
LEMMA Births ==
  ASSUME TypeInv, Phases,
         \/ \E c \in Components : Loop(c) \/ GiveUp(c) \/ Receive(c) \/ Handle(c)
         \/ Launch \/ Arrive \/ UNCHANGED vars
  PROVE  \A u \in Producers : Same(u) \/ Born(u)
<1>0. PlacesOK /\ k \in Components
  BY DEF TypeInv, TypeOK, LocalsOK
<1>1. \A u \in Producers :
        message'[u] = message[u] /\ buf'[u] = buf[u] /\ rest'[u] = rest[u]
  <2>1. UNCHANGED local
    BY DEF Loop, GiveUp, Receive, Handle, Launch, Arrive, vars
  <2>. QED
    BY <2>1 DEF local
<1>2. \A u \in Producers :
        \/ pc'[u] = pc[u]
        \/ pc[u] \in {"none", "start"} /\ pc'[u] \in {"loop", "start", "clear"}
  <2>1. CASE \E c \in Components : Loop(c) \/ GiveUp(c) \/ Receive(c)
    BY <1>0, <2>1, Basics DEF Loop, GiveUp, Receive, Goto, PlacesOK
  <2>2. CASE \E c \in Components : Handle(c)
    BY <2>2, Handles, Basics
  <2>3. CASE Launch
    <3>1. pc[Main] = "start" /\ pc'[Main] \in {"start", "clear"}
      BY <1>0, <2>3, Basics DEF Launch
    <3>2. ASSUME NEW u \in Producers, u # Main, u # <<k, "interest">>
          PROVE  pc'[u] = pc[u]
      BY <1>0, <2>3, <3>2, Basics DEF Launch
    <3>3. ASSUME <<k, "interest">> \in Producers, <<k, "interest">> # Main, k \in Asking
          PROVE  \/ pc'[<<k, "interest">>] = pc[<<k, "interest">>]
                 \/ pc[<<k, "interest">>] = "none" /\ pc'[<<k, "interest">>] = "loop"
      <4>1. <<k, "interest">> \in Periodic
        BY <3>3 DEF Periodic
      <4>2. k >= k /\ pc[Main] \in StartPlaces
        BY <1>0, <3>1, Finite DEF StartPlaces
      <4>. QED
        BY <1>0, <2>3, <4>1, <4>2, Basics DEF Launch, Phases
    <3>4. ASSUME <<k, "interest">> \in Producers, <<k, "interest">> # Main, k \notin Asking
          PROVE  pc'[<<k, "interest">>] = pc[<<k, "interest">>]
      BY <1>0, <2>3, <3>4, Basics DEF Launch
    <3>. QED
      BY <3>1, <3>2, <3>3, <3>4
  <2>4. CASE Arrive \/ UNCHANGED vars
    BY <2>4 DEF Arrive, vars
  <2>. QED
    BY <2>1, <2>2, <2>3, <2>4
<1>. QED
  BY <1>1, <1>2 DEF Same, Born

LEMMA LocalTypes ==
  ASSUME TypeInv, [Next]_vars
  PROVE  LocalsOK'
<1>0. LocalsOK /\ EndpointsOK
  BY DEF TypeInv, TypeOK
<1>1. CASE UNCHANGED <<local, threads, got, main>>
  BY <1>0, <1>1 DEF LocalsOK, local, threads, main
<1>2. ASSUME NEW t \in Producers, NEW place, Done(t, place),
             UNCHANGED <<threads, got, main>>
      PROVE  LocalsOK'
  BY <1>0, <1>2 DEF Done, LocalsOK, threads, main
<1>3. ASSUME NEW t \in Producers, Alloc(t)
      PROVE  LocalsOK'
  <2>1. CASE \E b \in Slots : buf' = [buf EXCEPT ![t] = b] /\ UNCHANGED <<message, rest>>
    BY <1>0, <1>3, <2>1 DEF Alloc, LocalsOK, threads, main
  <2>. QED
    BY <1>2, <1>3, <2>1 DEF Alloc
<1>4. ASSUME NEW t \in Producers, Raw(t)
      PROVE  LocalsOK'
  BY <1>2, <1>4 DEF Raw
<1>5. ASSUME NEW t \in Producers, Notify(t)
      PROVE  LocalsOK'
  <2>1. CASE observers = {}
    BY <1>2, <1>5, <2>1 DEF Notify
  <2>2. CASE observers # {}
    <3>1. /\ rest' = [rest EXCEPT ![t] = observers]
          /\ UNCHANGED <<message, buf, told, sends, got, k, n>>
      BY <1>5, <2>2 DEF Notify, threads, main
    <3>. QED
      BY <1>0, <3>1 DEF LocalsOK, EndpointsOK
  <2>. QED
    BY <2>1, <2>2
<1>6. ASSUME NEW t \in Producers, Update(t)
      PROVE  LocalsOK'
  <2>1. PICK c \in Components :
          \/ Done(t, Home(t))
          \/ rest' = [rest EXCEPT ![t] = @ \ {c}] /\ UNCHANGED <<message, buf>>
    BY <1>6 DEF Update
  <2>2. UNCHANGED <<threads, got, main>>
    BY <1>6 DEF Update
  <2>. QED
    BY <1>0, <1>2, <2>1, <2>2 DEF LocalsOK, threads, main
<1>7. ASSUME NEW t \in Periodic, StartSend(t)
      PROVE  LocalsOK'
  <2>1. t \in Producers
    BY Basics
  <2>2. sends' \in [Periodic -> Nat]
    BY <1>0, <1>7 DEF StartSend, LocalsOK
  <2>3. message' \in [Producers -> Received \cup {"outgoing", "nothing"}]
    BY <1>0, <1>7, <2>1 DEF StartSend, LocalsOK, Received
  <2>. QED
    BY <1>0, <1>7, <2>2, <2>3 DEF StartSend, LocalsOK, main
<1>8. CASE \E t \in Periodic : End(t)
  BY <1>1, <1>8 DEF End
<1>9. ASSUME NEW c \in Components, Loop(c) \/ GiveUp(c) \/ Receive(c) \/ Handle(c)
      PROVE  LocalsOK'
  <2>1. CASE Receive(c)
    <3>1. Head(queue[c]).has \in Received
      BY <2>1, HeadTypes DEF Receive, Pairs
    <3>. QED
      BY <1>0, <2>1, <3>1 DEF Receive, LocalsOK, local, threads, main
  <2>2. CASE Handle(c)
    BY <1>0, <2>2 DEF Handle, LocalsOK, local, threads, main
  <2>. QED
    BY <1>1, <1>9, <2>1, <2>2 DEF Loop, GiveUp
<1>10. CASE PassOn
  <2>1. FrameTypes \subseteq Received
    BY LifecycleAssumption DEF Received
  <2>. QED
    BY <1>0, <1>10, <2>1, Basics DEF PassOn, LocalsOK, threads, main
<1>11. CASE Discard \/ Drained
  BY <1>2, <1>11, Basics DEF Discard, Drained
<1>12. CASE SendInterest
  BY <1>0, <1>12, Basics DEF SendInterest, LocalsOK, Received, threads
<1>13. CASE Launch
  <2>1. /\ UNCHANGED <<local, threads, got>> /\ n' = 0
        /\ k' = 1 \/ (k # NumComponents /\ k' = k + 1)
    BY <1>13 DEF Launch
  <2>. QED
    BY <1>0, <2>1, LifecycleAssumption DEF LocalsOK, local, threads, Components
<1>14. CASE Tell
  <2>1. PICK i \in ToTell : told' = told \cup {<<k, Kinds[i]>>}
    BY <1>14 DEF Tell
  <2>2. <<k, Kinds[i]>> \in Periodic
    BY <2>1 DEF ToTell
  <2>. QED
    BY <1>0, <1>14, <2>1, <2>2 DEF Tell, LocalsOK, local, main
<1>15. CASE DeleteCommunicator
  <2>1. /\ UNCHANGED <<local, threads, got, n>>
        /\ k' = k \/ (k # NumComponents /\ k' = k + 1)
    BY <1>15 DEF DeleteCommunicator
  <2>. QED
    BY <1>0, <2>1, LifecycleAssumption DEF LocalsOK, local, threads, Components
<1>16. CASE \/ TestRunning \/ Wake \/ Arrive \/ ClearRunning \/ Join
            \/ StopCommunicator \/ ClearNic \/ PostNic \/ StopPool \/ JoinWorker
            \/ UNCHANGED vars
  BY <1>1, <1>16
  DEF TestRunning, Wake, Arrive, ClearRunning, Join, StopCommunicator, ClearNic, PostNic,
      StopPool, JoinWorker, MainOnly, vars
<1>. QED
  BY <1>3, <1>4, <1>5, <1>6, <1>7, <1>8, <1>9, <1>10, <1>11, <1>12, <1>13, <1>14, <1>15,
     <1>16, Steps

LEMMA ReadyActor ==
  ASSUME TypeInv, NEW t \in Producers, Acts(t)
  PROVE  Ready(t)'
<1>0. PlacesOK /\ LocalsOK /\ Ready(t) /\ t \in Threads /\ DOMAIN pc = Threads
  BY Basics DEF TypeInv, TypeOK, Equipped, PlacesOK
<1>1. CASE pc'[t] \notin BusyPlaces \cup {"alloc"}
  BY <1>1 DEF Ready, BusyPlaces, AlonePlaces
<1>2. CASE \E place : Done(t, place) /\ place \in {"start", "loop"}
  BY <1>0, <1>1, <1>2 DEF Done, Goto, BusyPlaces, AlonePlaces
<1>3. CASE \E place : Done(t, place) /\ place = Home(t)
  <2>1. CASE t = Worker
    BY <1>0, <1>1, <1>3, <2>1, Basics DEF Done, Goto, Home, Ready, BusyPlaces, AlonePlaces
  <2>2. CASE t # Worker
    BY <1>2, <1>3, <2>2 DEF Home
  <2>. QED
    BY <2>1, <2>2
<1>4. CASE Alloc(t)
  <2>1. CASE ~ \E place : Done(t, place) /\ (place = Home(t) \/ place = "loop")
    <3>1. PICK b \in Slots :
            /\ buf' = [buf EXCEPT ![t] = b] /\ message' = message
            /\ pc' = [pc EXCEPT ![t] = IF t = Worker THEN "recv"
                                       ELSE IF message[t] = "outgoing" THEN "raw" ELSE "notify"]
      BY <1>4, <2>1 DEF Alloc, Goto
    <3>2. buf'[t] = b /\ message'[t] = message[t]
      BY <1>0, <3>1 DEF LocalsOK
    <3>3. CASE t = Worker
      BY <1>0, <3>1, <3>2, <3>3 DEF Ready
    <3>4. CASE t # Worker /\ message[t] = "outgoing"
      BY <1>0, <3>1, <3>2, <3>4 DEF Ready
    <3>5. CASE t # Worker /\ message[t] # "outgoing"
      <4>1. message[t] \in Received
        BY <1>0, <1>4, <3>5 DEF Ready, LocalsOK, Alloc
      <4>2. pc'[t] = "notify"
        BY <1>0, <3>1, <3>5
      <4>. QED
        BY <3>2, <4>1, <4>2 DEF Ready
    <3>. QED
      BY <3>3, <3>4, <3>5
  <2>2. CASE \E place : Done(t, place) /\ (place = Home(t) \/ place = "loop")
    BY <1>2, <1>3, <2>2
  <2>. QED
    BY <2>1, <2>2
<1>5. CASE Raw(t)
  BY <1>3, <1>5 DEF Raw
<1>6. CASE Notify(t)
  <2>1. CASE observers # {}
    <3>1. /\ pc'[t] = "update" /\ rest'[t] = observers
          /\ message'[t] = message[t] /\ buf'[t] = buf[t]
      BY <1>0, <1>6, <2>1 DEF Notify, Goto, LocalsOK
    <3>. QED
      BY <1>0, <1>6, <2>1, <3>1 DEF Notify, Ready, BusyPlaces, AlonePlaces
  <2>. QED
    BY <1>3, <1>6, <2>1 DEF Notify
<1>7. CASE Update(t)
  <2>1. PICK c \in Components :
          /\ First(c, rest[t]) /\ pc[t] = "update"
          /\ \/ rest[t] = {c} /\ Done(t, Home(t))
             \/ /\ rest[t] # {c} /\ rest' = [rest EXCEPT ![t] = @ \ {c}]
                /\ UNCHANGED <<pc, message, buf>>
    BY <1>7 DEF Update
  <2>2. CASE rest[t] # {c} /\ rest' = [rest EXCEPT ![t] = @ \ {c}]
             /\ UNCHANGED <<pc, message, buf>>
    <3>1. rest'[t] = rest[t] \ {c} /\ rest[t] \ {c} # {}
      BY <1>0, <2>1, <2>2 DEF LocalsOK, First
    <3>. QED
      BY <1>0, <2>1, <2>2, <3>1 DEF Ready, BusyPlaces
  <2>. QED
    BY <1>3, <2>1, <2>2
<1>8. CASE t \in Periodic /\ (StartSend(t) \/ End(t))
  <2>1. CASE StartSend(t)
    <3>1. pc'[t] = "alloc" /\ message'[t] # "nothing"
      BY <1>0, <2>1 DEF StartSend, Goto, LocalsOK
    <3>. QED
      BY <3>1 DEF Ready, BusyPlaces, AlonePlaces
  <2>2. CASE End(t)
    BY <1>0, <1>1, <2>2 DEF End, Goto, BusyPlaces, AlonePlaces
  <2>. QED
    BY <1>8, <2>1, <2>2
<1>9. CASE t = Worker /\ (TestRunning \/ Wake \/ PassOn \/ Discard \/ Drained)
  <2>1. CASE TestRunning \/ Wake
    <3>1. pc'[t] \in {"wait", "exit", "alloc"}
      BY <1>0, <1>9, <2>1 DEF TestRunning, Wake, Goto
    <3>. QED
      BY <1>9, <3>1 DEF Ready, BusyPlaces, AlonePlaces
  <2>2. CASE PassOn
    <3>1. FrameTypes \subseteq Received
      BY LifecycleAssumption DEF Received
    <3>2. pc'[t] = "notify" /\ buf'[t] = buf[t] /\ message'[t] \in Received
      BY <1>0, <1>9, <2>2, <3>1 DEF PassOn, Goto, LocalsOK
    <3>. QED
      BY <1>0, <1>9, <2>2, <3>2 DEF PassOn, Ready, BusyPlaces, AlonePlaces
  <2>3. CASE Discard \/ Drained
    <3>1. Done(t, "loop") \/ (Done(t, "alloc") /\ Home(t) = "alloc")
      BY <1>9, <2>3, Basics DEF Discard, Drained, Home
    <3>. QED
      BY <1>2, <1>3, <3>1
  <2>. QED
    BY <1>9, <2>1, <2>2, <2>3
<1>10. CASE t = Main /\ SendInterest
  <2>1. pc'[t] = "alloc" /\ message'[t] = "internal"
    BY <1>0, <1>10 DEF SendInterest, Goto, LocalsOK
  <2>. QED
    BY <2>1 DEF Ready, BusyPlaces, AlonePlaces
<1>11. CASE t = Main /\ \/ ClearRunning \/ Tell \/ Join \/ StopCommunicator
                        \/ DeleteCommunicator \/ ClearNic \/ PostNic \/ StopPool
                        \/ JoinWorker
  BY <1>0, <1>1, <1>11
  DEF ClearRunning, Tell, Join, StopCommunicator, DeleteCommunicator, ClearNic, PostNic,
      StopPool, JoinWorker, Goto, BusyPlaces, AlonePlaces
<1>. QED
  BY <1>4, <1>5, <1>6, <1>7, <1>8, <1>9, <1>10, <1>11 DEF Acts

LEMMA EquippedStep ==
  ASSUME TypeInv, Phases, [Next]_vars
  PROVE  Equipped'
<1>0. PlacesOK /\ LocalsOK /\ Equipped /\ DOMAIN pc = Threads
  BY DEF TypeInv, TypeOK, PlacesOK
<1>1. ASSUME NEW u \in Producers, Same(u) \/ Born(u)
      PROVE  Ready(u)'
  BY <1>0, <1>1 DEF Same, Born, Ready, Equipped, BusyPlaces, AlonePlaces
<1>2. \A u \in Producers : Ready(u)'
  <2>1. CASE \E t \in Producers : Acts(t)
    BY <1>1, <2>1, ReadyActor, Locality
  <2>. QED
    BY <1>1, <2>1, Births, ActorSteps
<1>3. ASSUME NEW c \in Components, pc'[<<c, "receive">>] = "handle"
      PROVE  got'[c] \in Received
  <2>0. <<c, "receive">> \in Threads /\ <<c, "receive">> \notin Producers
    BY Basics
  <2>1. CASE \E t \in Producers : Acts(t)
    <3>1. PICK t \in Producers : Acts(t)
      BY <2>1
    <3>2. pc'[<<c, "receive">>] = pc[<<c, "receive">>]
      BY <2>0, <3>1, Locality
    <3>3. got' = got
      BY <3>1 DEF Acts, Alloc, Raw, Notify, Update, StartSend, End, TestRunning, Wake, PassOn,
         Discard, Drained, SendInterest, ClearRunning, Tell, Join, StopCommunicator,
         DeleteCommunicator, ClearNic, PostNic, StopPool, JoinWorker, MainOnly
    <3>. QED
      BY <1>0, <1>3, <3>2, <3>3 DEF Equipped
  <2>2. ASSUME NEW d \in Components, Loop(d) \/ GiveUp(d)
        PROVE  got'[c] \in Received
    BY <1>0, <1>3, <2>0, <2>2, Basics DEF Loop, GiveUp, Goto, Equipped
  <2>3. ASSUME NEW d \in Components, Receive(d)
        PROVE  got'[c] \in Received
    <3>1. CASE d = c
      <4>1. Head(queue[c]).has \in Received
        BY <2>3, <3>1, HeadTypes DEF Receive, Pairs
      <4>. QED
        BY <1>0, <2>3, <3>1, <4>1 DEF Receive, LocalsOK
    <3>2. CASE d # c
      BY <1>0, <1>3, <2>0, <2>3, <3>2, Basics DEF Receive, Goto, Equipped, LocalsOK
    <3>. QED
      BY <3>1, <3>2
  <2>4. ASSUME NEW d \in Components, Handle(d)
        PROVE  got'[c] \in Received
    <3>1. CASE d = c
      BY <1>3, <2>4, <3>1, Handles
    <3>2. CASE d # c
      <4>1. pc'[<<c, "receive">>] = pc[<<c, "receive">>]
        BY <2>0, <2>4, <3>2, Handles, Basics
      <4>2. got'[c] = got[c]
        BY <1>0, <2>4, <3>2 DEF Handle, LocalsOK
      <4>. QED
        BY <1>0, <1>3, <4>1, <4>2 DEF Equipped
    <3>. QED
      BY <3>1, <3>2
  <2>5. CASE Launch
    BY <1>0, <1>3, <2>0, <2>5, Basics DEF Launch, Equipped
  <2>6. CASE Arrive \/ UNCHANGED vars
    BY <1>0, <1>3, <2>6 DEF Arrive, vars, Equipped
  <2>. QED
    BY <2>1, <2>2, <2>3, <2>4, <2>5, <2>6, ActorSteps
<1>. QED
  BY <1>2, <1>3, SocketTypes DEF Equipped

LEMMA TypeStep ==
  ASSUME TypeInv, Phases, [Next]_vars
  PROVE  TypeInv'
BY PoolTypes, EndpointTypes, QueueTypes, PlaceTypes, LocalTypes, SocketTypes, EquippedStep
DEF TypeInv, TypeOK

-----------------------------------------------------------------------------
\* The phases of the main thread.

LEMMA PhasesInit == Init => Phases
<1>. SUFFICES ASSUME Init PROVE Phases
  OBVIOUS
<1>1. \A u \in Periodic : pc[u] = "none"
  BY Basics DEF Init
<1>. QED
  BY <1>1, Basics DEF Init, Phases

\* The steps in which the main thread starts or stops something, and the others.
LEMMA PhaseChanges ==
  ASSUME TypeInv, [Next]_vars,
         ~ (Launch \/ ClearRunning \/ StopCommunicator \/ DeleteCommunicator)
  PROVE  /\ UNCHANGED <<observers, communicator>> /\ k' = k
         /\ running' = running \/ pc[Main] \in StartPlaces
         /\ \/ pc'[Main] = pc[Main]
            \/ pc[Main] \in StartPlaces /\ pc'[Main] \in StartPlaces
            \/ pc[Main] \in {"tell", "join"} /\ pc'[Main] \in {"tell", "join"}
            \/ pc'[Main] \in {"post", "pool", "worker", "gone"}
<1>0. DOMAIN pc = Threads /\ Main \in Threads /\ Main \in Producers
  BY Basics DEF TypeInv, TypeOK, PlacesOK
<1>1. ASSUME NEW t \in Producers, Alloc(t) \/ Raw(t) \/ Notify(t) \/ Update(t)
      PROVE  /\ UNCHANGED endpoints /\ k' = k
             /\ \/ pc'[Main] = pc[Main]
                \/ pc[Main] \in StartPlaces /\ pc'[Main] \in StartPlaces
  <2>1. UNCHANGED endpoints /\ k' = k
    BY <1>1 DEF Alloc, Raw, Notify, Update, main
  <2>2. CASE t # Main
    BY <1>0, <1>1, <2>1, <2>2, Locality DEF Acts
  <2>3. CASE t = Main
    <3>1. pc[t] \in ProducerPlaces
      BY <1>1 DEF Alloc, Raw, Notify, Update, ProducerPlaces
    <3>2. PICK place : /\ Goto(t, place) \/ (place = pc[t] /\ pc' = pc)
                       /\ place \in ProducerPlaces \/ place = Home(t)
      BY <1>1, <2>3, <3>1, Basics
      DEF Alloc, Raw, Notify, Update, Done, ProducerPlaces
    <3>. QED
      BY <1>0, <2>1, <2>3, <3>1, <3>2 DEF Goto, Home, StartPlaces
  <2>. QED
    BY <2>2, <2>3
<1>2. CASE \/ \E t \in Periodic : StartSend(t) \/ End(t)
           \/ TestRunning \/ Wake \/ PassOn \/ Discard \/ Drained
  <2>1. UNCHANGED endpoints /\ k' = k
    BY <1>2 DEF StartSend, End, TestRunning, Wake, PassOn, Discard, Drained, main
  <2>2. pc'[Main] = pc[Main]
    BY <1>0, <1>2, Basics
    DEF StartSend, End, TestRunning, Wake, PassOn, Discard, Drained, Done, Goto
  <2>. QED
    BY <2>1, <2>2 DEF endpoints
<1>3. ASSUME NEW c \in Components, Loop(c) \/ GiveUp(c) \/ Receive(c) \/ Handle(c)
      PROVE  UNCHANGED endpoints /\ k' = k /\ pc'[Main] = pc[Main]
  <2>1. UNCHANGED endpoints /\ k' = k
    BY <1>3 DEF Loop, GiveUp, Receive, Handle, main
  <2>2. CASE Handle(c)
    BY <1>0, <2>1, <2>2, Handles, Basics
  <2>3. CASE Loop(c) \/ GiveUp(c) \/ Receive(c)
    BY <1>0, <2>1, <2>3, Basics DEF Loop, GiveUp, Receive, Goto
  <2>. QED
    BY <1>3, <2>2, <2>3
<1>4. CASE SendInterest
  <2>1. UNCHANGED <<observers, communicator>> /\ k' = k
    BY <1>4 DEF SendInterest
  <2>2. pc[Main] \in StartPlaces /\ pc'[Main] \in StartPlaces
    BY <1>0, <1>4 DEF SendInterest, Goto, StartPlaces, ProducerPlaces
  <2>. QED
    BY <2>1, <2>2
<1>5. CASE Tell \/ Join
  BY <1>0, <1>5 DEF Tell, Join, Goto, MainOnly, main, endpoints
<1>6. CASE ClearNic \/ PostNic \/ StopPool \/ JoinWorker
  BY <1>0, <1>6 DEF ClearNic, PostNic, StopPool, JoinWorker, Goto, MainOnly, main, endpoints
<1>7. CASE Arrive \/ UNCHANGED vars
  BY <1>7 DEF Arrive, vars, main, endpoints
<1>. QED
  BY <1>1, <1>2, <1>3, <1>4, <1>5, <1>6, <1>7, Steps DEF endpoints

\* A thread that sends interests is created once, by the main thread.
LEMMA Unborn ==
  ASSUME TypeInv, [Next]_vars, NEW c \in Components, <<c, "interest">> \in Periodic,
         pc[<<c, "interest">>] = "none", ~ (Launch /\ k = c)
  PROVE  pc'[<<c, "interest">>] = "none"
<1>0. /\ <<c, "interest">> \in Threads /\ <<c, "interest">> \in Producers
      /\ <<c, "interest">> \notin Receivers
      /\ <<c, "interest">> # Main /\ <<c, "interest">> # Worker
      /\ DOMAIN pc = Threads /\ k \in Components
  BY Basics DEF TypeInv, TypeOK, PlacesOK, LocalsOK
<1>1. ASSUME NEW t \in Producers, Acts(t)
      PROVE  pc'[<<c, "interest">>] = "none"
  <2>1. t # <<c, "interest">>
    BY <1>0, <1>1 DEF Acts, Alloc, Raw, Notify, Update, StartSend, End
  <2>. QED
    BY <1>0, <1>1, <2>1, Locality
<1>2. ASSUME NEW d \in Components, Handle(d)
      PROVE  pc'[<<c, "interest">>] = "none"
  <2>1. <<c, "interest">> # <<d, "receive">> /\ <<c, "interest">>[2] = "interest"
    OBVIOUS
  <2>. QED
    BY <1>0, <1>2, <2>1, Handles
<1>3. ASSUME NEW d \in Components, Loop(d) \/ GiveUp(d) \/ Receive(d)
      PROVE  pc'[<<c, "interest">>] = "none"
  BY <1>0, <1>3 DEF Loop, GiveUp, Receive, Goto
<1>4. CASE Launch
  BY <1>0, <1>4 DEF Launch
<1>5. CASE Arrive \/ UNCHANGED vars
  BY <1>5 DEF Arrive, vars
<1>. QED
  BY <1>1, <1>2, <1>3, <1>4, <1>5, ActorSteps

LEMMA PhasesStep ==
  ASSUME TypeInv, Phases, [Next]_vars
  PROVE  Phases'
<1>0. /\ EndpointsOK /\ DOMAIN pc = Threads /\ Main \in Threads
      /\ k \in Components /\ Components \subseteq Nat
  BY Basics, Finite DEF TypeInv, TypeOK, PlacesOK, LocalsOK
<1>1. CASE ~ (Launch \/ ClearRunning \/ StopCommunicator \/ DeleteCommunicator)
  <2>1. /\ observers' = observers /\ communicator' = communicator /\ k' = k
        /\ running' = running \/ pc[Main] \in StartPlaces
        /\ \/ pc'[Main] = pc[Main]
           \/ pc[Main] \in StartPlaces /\ pc'[Main] \in StartPlaces
           \/ pc[Main] \in {"tell", "join"} /\ pc'[Main] \in {"tell", "join"}
           \/ pc'[Main] \in {"post", "pool", "worker", "gone"}
    BY <1>1, PhaseChanges
  <2>2. /\ pc'[Main] \in StartPlaces => pc[Main] \in StartPlaces
        /\ pc'[Main] \in {"tell", "join", "receiver"} =>
             pc[Main] \in {"tell", "join", "receiver"}
        /\ pc'[Main] \in {"clear", "tell", "join", "receiver"} =>
             pc[Main] \in {"clear", "tell", "join", "receiver"}
    BY <2>1 DEF StartPlaces, ProducerPlaces
  <2>3. \A c \in Components :
          <<c, "interest">> \in Periodic /\ pc[<<c, "interest">>] = "none" =>
            pc'[<<c, "interest">>] = "none"
    BY <1>1, Unborn
  <2>4. ASSUME NEW c \in Components, communicator[c] # "running"
        PROVE  ~ running'[c] /\ pc'[Main] \notin StartPlaces
    BY <2>1, <2>2, <2>4 DEF Phases
  <2>5. pc'[Main] \in {"tell", "join", "receiver"} => ~ running'[k]
    BY <2>1, <2>2 DEF Phases, StartPlaces, ProducerPlaces
  <2>. QED
    BY <2>1, <2>2, <2>3, <2>4, <2>5 DEF Phases
<1>2. CASE Launch
  <2>1. /\ pc[Main] = "start" /\ observers' = observers /\ communicator' = communicator
        /\ \/ k = NumComponents /\ k' = 1 /\ pc'[Main] = "clear"
           \/ k # NumComponents /\ k' = k + 1 /\ pc'[Main] = "start"
    BY <1>0, <1>2 DEF Launch
  <2>2. \A c \in Components : communicator[c] = "running"
    BY <2>1 DEF Phases, StartPlaces
  <2>3. \A c \in Components :
          <<c, "interest">> \in Periodic /\ c >= k' /\ pc'[Main] \in StartPlaces =>
            pc'[<<c, "interest">>] = "none"
    <3>1. SUFFICES ASSUME NEW c \in Components, <<c, "interest">> \in Periodic, c >= k',
                          pc'[Main] \in StartPlaces
          PROVE  pc'[<<c, "interest">>] = "none"
      OBVIOUS
    <3>2. k' = k + 1
      BY <2>1, <3>1 DEF StartPlaces, ProducerPlaces
    <3>3. c >= k /\ c # k
      BY <1>0, <3>1, <3>2
    <3>4. pc[<<c, "interest">>] = "none"
      BY <2>1, <3>1, <3>3 DEF Phases, StartPlaces
    <3>. QED
      BY <3>1, <3>3, <3>4, Unborn
  <2>. QED
    BY <2>1, <2>2, <2>3 DEF Phases
<1>3. CASE ClearRunning
  <2>1. /\ pc[Main] = "clear" /\ pc'[Main] = "tell" /\ k' = k
        /\ observers' = observers /\ communicator' = communicator
        /\ running' = [running EXCEPT ![k] = FALSE]
    BY <1>0, <1>3 DEF ClearRunning, Goto, main
  <2>2. /\ ~ running'[k]
        /\ \A c \in Components : running'[c] => running[c]
    BY <1>0, <2>1 DEF EndpointsOK
  <2>3. \A c \in Components :
          communicator'[c] # "running" => ~ running'[c] /\ pc'[Main] \notin StartPlaces
    BY <2>1, <2>2 DEF Phases, StartPlaces, ProducerPlaces
  <2>. QED
    BY <2>1, <2>2, <2>3 DEF Phases, StartPlaces, ProducerPlaces
<1>4. CASE StopCommunicator
  <2>1. /\ pc[Main] = "tell" /\ pc'[Main] = "receiver" /\ k' = k
        /\ observers' = observers /\ running' = running
        /\ communicator' = [communicator EXCEPT ![k] = "stopped"]
    BY <1>0, <1>4 DEF StopCommunicator, Goto, main
  <2>2. communicator[k] # "deleted" /\ ~ running[k]
    BY <1>0, <2>1 DEF Phases
  <2>3. \A c \in Components :
          /\ communicator'[c] = "deleted" <=> communicator[c] = "deleted"
          /\ communicator'[c] # "running" => c = k \/ communicator[c] # "running"
    BY <1>0, <2>1, <2>2 DEF EndpointsOK
  <2>. QED
    BY <2>1, <2>2, <2>3 DEF Phases, StartPlaces, ProducerPlaces
<1>5. CASE DeleteCommunicator
  <2>1. /\ pc[Main] = "receiver" /\ running' = running /\ observers' = observers \ {k}
        /\ communicator' = [communicator EXCEPT ![k] = "deleted"]
        /\ \/ k = NumComponents /\ k' = k /\ pc'[Main] = "flag"
           \/ k # NumComponents /\ k' = k + 1 /\ pc'[Main] = "clear"
    BY <1>0, <1>5 DEF DeleteCommunicator, Goto
  <2>2. ~ running[k]
    BY <2>1 DEF Phases
  <2>3. \A c \in Components :
          /\ communicator'[c] = "deleted" <=> c = k \/ communicator[c] = "deleted"
          /\ communicator'[c] # "running" => c = k \/ communicator[c] # "running"
    BY <1>0, <2>1 DEF EndpointsOK
  <2>4. observers' = {c \in Components : communicator'[c] # "deleted"}
    BY <2>1, <2>3 DEF Phases
  <2>5. \A c \in Components :
          communicator'[c] # "running" => ~ running'[c] /\ pc'[Main] \notin StartPlaces
    BY <2>1, <2>2, <2>3 DEF Phases, StartPlaces, ProducerPlaces
  <2>6. pc'[Main] = "clear" => \A c \in Components : c >= k' => communicator'[c] # "deleted"
    <3>1. SUFFICES ASSUME NEW c \in Components, pc'[Main] = "clear", c >= k'
          PROVE  communicator'[c] # "deleted"
      OBVIOUS
    <3>2. c >= k /\ c # k
      BY <1>0, <2>1, <3>1
    <3>. QED
      BY <2>1, <2>3, <3>2 DEF Phases
  <2>. QED
    BY <2>1, <2>4, <2>5, <2>6 DEF Phases, StartPlaces, ProducerPlaces
<1>. QED
  BY <1>1, <1>2, <1>3, <1>4, <1>5

LEMMA PhaseInvariant == Spec => [](TypeInv /\ Phases)
<1>1. Init => TypeInv /\ Phases
  BY TypeInit, PhasesInit
<1>2. TypeInv /\ Phases /\ [Next]_vars => (TypeInv /\ Phases)'
  BY TypeStep, PhasesStep
<1>. QED
  BY <1>1, <1>2, PTL DEF Spec

(***************************************************************************)
(* The state keeps its types: no counter of the agent goes below zero, the *)
(* index of the component stays in range, and the thread that alloc fails  *)
(* has a place to go on from (Vehicle::start, stop, NIC::alloc).           *)
(***************************************************************************)
THEOREM TypeCorrect == Spec => []TypeOK
BY PhaseInvariant, PTL DEF TypeInv

-----------------------------------------------------------------------------
\* What the steps do to buffers and lists, whoever takes them.

\* Nobody gets or gives back a buffer by what happens to producer u.
Quiet(u) ==
  \A b \in Slots :
    /\ HoldsAlone(u, b)' <=> HoldsAlone(u, b)
    /\ \A c \in Components : Gives(u, c, b)' <=> Gives(u, c, b)

\* Producer t is done with component c.
Sheds(t, c) ==
  /\ pc[t] = "update" /\ c \in rest[t]
  /\ \/ rest[t] = {c} /\ pc'[t] \notin BusyPlaces /\ rest'[t] = {}
     \/ pc'[t] = "update" /\ buf'[t] = buf[t] /\ rest'[t] = rest[t] \ {c}

Calm ==
  /\ \A u \in Producers : Quiet(u)
  /\ UNCHANGED <<reference_counter, lost, queue>>

Takes(t, b) ==
  /\ pc[t] = "alloc" /\ pc'[t] \in AlonePlaces /\ buf'[t] = b
  /\ reference_counter[b] = 0
  /\ reference_counter' = [reference_counter EXCEPT ![b] = 1]
  /\ UNCHANGED <<lost, queue>>

Releases(t, b) ==
  /\ pc[t] \in AlonePlaces /\ buf[t] = b /\ pc'[t] \notin BusyPlaces
  /\ reference_counter' = [reference_counter EXCEPT ![b] = @ - 1]
  /\ UNCHANGED <<lost, queue>>

Shares(t, b) ==
  /\ pc[t] = "notify" /\ buf[t] = b /\ pc'[t] = "update" /\ buf'[t] = b
  /\ observers # {} /\ rest'[t] = observers
  /\ reference_counter' = [reference_counter EXCEPT ![b] = Cardinality(observers)]
  /\ UNCHANGED <<lost, queue>>

Passes(t, c, b) ==
  /\ buf[t] = b /\ Sheds(t, c)
  /\ \E p \in Pairs : p.slot = b /\ queue' = [queue EXCEPT ![c] = Append(@, p)]
  /\ UNCHANGED <<reference_counter, lost>>

Wastes(t, c, b) ==
  /\ buf[t] = b /\ Sheds(t, c) /\ communicator[c] = "deleted"
  /\ lost' = [lost EXCEPT ![b] = @ \cup {<<c, t>>}]
  /\ UNCHANGED <<reference_counter, queue>>

Collects(c, b) ==
  /\ queue[c] # <<>> /\ b = Head(queue[c]).slot
  /\ queue' = [queue EXCEPT ![c] = Tail(@)]
  /\ reference_counter' = [reference_counter EXCEPT ![b] = @ - 1]
  /\ UNCHANGED lost

Drops(c, b) ==
  /\ queue[c] # <<>> /\ b = Head(queue[c]).slot /\ communicator[c] # "running"
  /\ queue' = [queue EXCEPT ![c] = Tail(@)]
  /\ lost' = [lost EXCEPT ![b] = @ \cup {<<c, <<c, "receive">>>>}]
  /\ UNCHANGED reference_counter

Clears(c) ==
  /\ communicator'[c] = "deleted"
  /\ queue' = [queue EXCEPT ![c] = <<>>]
  /\ lost' = [b \in Slots |-> IF b \in Waiting(c) THEN lost[b] \cup {<<c, Main>>}
                                                  ELSE lost[b]]
  /\ UNCHANGED reference_counter

LEMMA QuietWhen ==
  ASSUME NEW u \in Producers,
         \/ Same(u) \/ Born(u)
         \/ pc[u] \notin BusyPlaces /\ pc'[u] \notin BusyPlaces
         \/ pc[u] \in AlonePlaces /\ pc'[u] \in AlonePlaces /\ buf'[u] = buf[u]
  PROVE  Quiet(u)
BY DEF Quiet, Same, Born, HoldsAlone, Gives, BusyPlaces, AlonePlaces

\* What a step of producer t does, with regard to buffers and lists.
LEMMA ActsDo ==
  ASSUME TypeInv, NEW t \in Producers, Acts(t)
  PROVE  \/ Calm
         \/ /\ \A u \in Producers \ {t} : Quiet(u)
            /\ \E b \in Slots :
                 \/ Takes(t, b) \/ Releases(t, b) \/ Shares(t, b)
                 \/ \E c \in Components : Passes(t, c, b) \/ Wastes(t, c, b)
         \/ t = Main /\ (\A u \in Producers : Quiet(u)) /\ \E c \in Components : Clears(c)
<1>0. /\ PlacesOK /\ LocalsOK /\ DOMAIN pc = Threads /\ t \in Threads
      /\ k \in Components
  BY Basics DEF TypeInv, TypeOK, PlacesOK, LocalsOK
<1>1. \A u \in Producers \ {t} : Quiet(u)
  BY Locality, QuietWhen
<1>2. ASSUME UNCHANGED <<reference_counter, lost, queue>>,
             pc[t] \notin BusyPlaces, pc'[t] \notin BusyPlaces
      PROVE  Calm
  BY <1>1, <1>2, QuietWhen DEF Calm
<1>3. CASE Alloc(t)
  <2>1. pc[t] = "alloc" /\ pc[t] \notin BusyPlaces /\ UNCHANGED <<lost, queue>>
    BY <1>3 DEF Alloc, BusyPlaces, AlonePlaces, queues
  <2>2. CASE UNCHANGED reference_counter
             /\ Done(t, IF t = Worker THEN "loop" ELSE Home(t))
    <3>1. pc'[t] \notin BusyPlaces
      BY <1>0, <2>2 DEF Done, Goto, Home, BusyPlaces, AlonePlaces
    <3>. QED
      BY <1>2, <2>1, <2>2, <3>1
  <2>3. ASSUME NEW b \in Slots, reference_counter[b] = 0,
               reference_counter' = [reference_counter EXCEPT ![b] = 1],
               buf' = [buf EXCEPT ![t] = b],
               Goto(t, IF t = Worker THEN "recv"
                       ELSE IF message[t] = "outgoing" THEN "raw" ELSE "notify")
        PROVE  Takes(t, b)
    <3>1. pc'[t] \in AlonePlaces /\ buf'[t] = b
      BY <1>0, <2>3 DEF Goto, AlonePlaces, LocalsOK
    <3>. QED
      BY <2>1, <2>3, <3>1 DEF Takes
  <2>. QED
    BY <1>1, <1>3, <2>2, <2>3 DEF Alloc
<1>4. ASSUME NEW place, Done(t, place), place \notin BusyPlaces, pc[t] \in AlonePlaces,
             Free(buf[t]), UNCHANGED queues
      PROVE  buf[t] \in Slots /\ Releases(t, buf[t])
  <2>1. buf[t] \in Slots
    BY <1>4, BufTypes DEF BusyPlaces
  <2>2. pc'[t] \notin BusyPlaces
    BY <1>0, <1>4 DEF Done, Goto
  <2>. QED
    BY <1>4, <2>1, <2>2 DEF Releases, Free, queues
<1>5. Home(t) \notin BusyPlaces /\ "loop" \notin BusyPlaces /\ "alloc" \notin BusyPlaces
  BY DEF Home, BusyPlaces, AlonePlaces
<1>6. CASE Raw(t)
  <2>1. Done(t, Home(t)) /\ pc[t] \in AlonePlaces /\ Free(buf[t]) /\ UNCHANGED queues
    BY <1>6 DEF Raw, AlonePlaces
  <2>. QED
    BY <1>1, <1>4, <1>5, <2>1
<1>7. CASE Notify(t)
  <2>0. pc[t] \in AlonePlaces /\ pc[t] = "notify" /\ UNCHANGED queues
    BY <1>7 DEF Notify, AlonePlaces
  <2>1. CASE observers = {}
    <3>1. Done(t, Home(t)) /\ Free(buf[t])
      BY <1>7, <2>1 DEF Notify
    <3>. QED
      BY <1>1, <1>4, <1>5, <2>0, <3>1
  <2>2. CASE observers # {}
    <3>1. buf[t] \in Slots
      BY <2>0, BufTypes DEF BusyPlaces
    <3>2. /\ rest' = [rest EXCEPT ![t] = observers]
          /\ reference_counter' = [reference_counter EXCEPT ![buf[t]] = Cardinality(observers)]
          /\ Goto(t, "update") /\ UNCHANGED <<lost, buf>>
      BY <1>7, <2>2 DEF Notify
    <3>3. pc'[t] = "update" /\ rest'[t] = observers /\ buf'[t] = buf[t]
      BY <1>0, <3>2 DEF Goto, LocalsOK
    <3>4. Shares(t, buf[t])
      BY <2>0, <2>2, <3>2, <3>3 DEF Shares, queues
    <3>. QED
      BY <1>1, <3>1, <3>4
  <2>. QED
    BY <2>1, <2>2
<1>8. CASE Update(t)
  <2>1. PICK c \in Components, p \in Pairs :
           /\ pc[t] = "update" /\ First(c, rest[t])
           /\ p = [slot |-> buf[t], has |-> message[t]]
           /\ UNCHANGED <<free_buffers, reference_counter>>
           /\ \/ /\ communicator[c] # "deleted" /\ UNCHANGED lost
                 /\ queue' = [queue EXCEPT ![c] = Append(@, p)]
              \/ /\ communicator[c] = "deleted" /\ UNCHANGED queues
                 /\ lost' = [lost EXCEPT ![buf[t]] = @ \cup {<<c, t>>}]
           /\ \/ rest[t] = {c} /\ Done(t, Home(t))
              \/ /\ rest[t] # {c}
                 /\ rest' = [rest EXCEPT ![t] = @ \ {c}]
                 /\ UNCHANGED <<pc, message, buf>>
    BY <1>8, Updates
  <2>2. buf[t] \in Slots /\ p.slot = buf[t]
    BY <2>1, BufTypes DEF BusyPlaces
  <2>3. Sheds(t, c)
    <3>1. CASE rest[t] = {c} /\ Done(t, Home(t))
      <4>1. pc'[t] = Home(t) /\ rest'[t] = {}
        BY <1>0, <3>1 DEF Done, Goto, LocalsOK
      <4>. QED
        BY <1>5, <2>1, <3>1, <4>1 DEF Sheds
    <3>2. CASE rest' = [rest EXCEPT ![t] = @ \ {c}] /\ UNCHANGED <<pc, message, buf>>
      <4>1. rest'[t] = rest[t] \ {c}
        BY <1>0, <3>2 DEF LocalsOK
      <4>. QED
        BY <2>1, <3>2, <4>1 DEF Sheds, First
    <3>. QED
      BY <2>1, <3>1, <3>2
  <2>4. Passes(t, c, buf[t]) \/ Wastes(t, c, buf[t])
    BY <2>1, <2>2, <2>3 DEF Passes, Wastes, queues
  <2>. QED
    BY <1>1, <2>2, <2>4
<1>9. CASE t \in Periodic /\ (StartSend(t) \/ End(t))
  <2>1. pc[t] = "loop" /\ pc'[t] \in {"alloc", "exit"}
    BY <1>0, <1>9 DEF StartSend, End, Goto
  <2>2. UNCHANGED <<reference_counter, lost, queue>>
    BY <1>9 DEF StartSend, End, pool, queues
  <2>. QED
    BY <1>2, <2>1, <2>2 DEF BusyPlaces, AlonePlaces
<1>10. CASE t = Worker /\ (TestRunning \/ Wake)
  <2>1. pc[t] \in {"loop", "wait"} /\ pc'[t] \in {"wait", "exit", "alloc"}
    BY <1>0, <1>10 DEF TestRunning, Wake, Goto
  <2>2. UNCHANGED <<reference_counter, lost, queue>>
    BY <1>10 DEF TestRunning, Wake, pool, queues
  <2>. QED
    BY <1>2, <2>1, <2>2 DEF BusyPlaces, AlonePlaces
<1>11. CASE t = Worker /\ PassOn
  <2>1. pc[t] = "recv" /\ pc'[t] = "notify" /\ buf' = buf
    BY <1>0, <1>11 DEF PassOn, Goto
  <2>2. UNCHANGED <<reference_counter, lost, queue>>
    BY <1>11 DEF PassOn, pool, queues
  <2>3. Quiet(t)
    BY <2>1, QuietWhen DEF AlonePlaces
  <2>. QED
    BY <1>1, <2>2, <2>3 DEF Calm
<1>12. CASE t = Worker /\ (Discard \/ Drained)
  <2>1. /\ pc[t] \in AlonePlaces /\ Free(buf[t]) /\ UNCHANGED queues
        /\ Done(t, "alloc") \/ Done(t, "loop")
    BY <1>12 DEF Discard, Drained, AlonePlaces
  <2>. QED
    BY <1>1, <1>4, <1>5, <2>1
<1>13. CASE t = Main /\ \/ SendInterest \/ ClearRunning \/ Tell \/ Join
                        \/ StopCommunicator \/ ClearNic \/ PostNic \/ StopPool
                        \/ JoinWorker
  <2>1. /\ pc[t] \in {"start", "clear", "tell", "join", "flag", "post", "pool", "worker"}
        /\ pc'[t] \in {"alloc", "tell", "join", "receiver", "post", "pool", "worker", "gone"}
    BY <1>0, <1>13
    DEF SendInterest, ClearRunning, Tell, Join, StopCommunicator, ClearNic, PostNic, StopPool,
        JoinWorker, Goto
  <2>2. UNCHANGED <<reference_counter, lost, queue>>
    BY <1>13
    DEF SendInterest, ClearRunning, Tell, Join, StopCommunicator, ClearNic, PostNic, StopPool,
        JoinWorker, MainOnly, pool, queues
  <2>. QED
    BY <1>2, <2>1, <2>2 DEF BusyPlaces, AlonePlaces
<1>14. CASE t = Main /\ DeleteCommunicator
  <2>1. pc[t] = "receiver" /\ pc'[t] \in {"flag", "clear"}
    BY <1>0, <1>14 DEF DeleteCommunicator, Goto
  <2>2. Quiet(t)
    BY <2>1, QuietWhen DEF BusyPlaces, AlonePlaces
  <2>3. communicator'[k] = "deleted"
    BY <1>0, <1>14 DEF DeleteCommunicator, TypeInv, TypeOK, EndpointsOK
  <2>4. Clears(k)
    BY <1>14, <2>3 DEF DeleteCommunicator, Clears
  <2>. QED
    BY <1>0, <1>1, <1>14, <2>2, <2>4
<1>. QED
  BY <1>3, <1>6, <1>7, <1>8, <1>9, <1>10, <1>11, <1>12, <1>13, <1>14 DEF Acts

LEMMA Effects ==
  ASSUME TypeInv, Phases, [Next]_vars
  PROVE  \/ Calm
         \/ \E t \in Producers :
              /\ \A u \in Producers \ {t} : Quiet(u)
              /\ \E b \in Slots :
                   \/ Takes(t, b) \/ Releases(t, b) \/ Shares(t, b)
                   \/ \E c \in Components : Passes(t, c, b) \/ Wastes(t, c, b)
         \/ /\ \A u \in Producers : Quiet(u)
            /\ \E c \in Components :
                 Clears(c) \/ \E b \in Slots : Collects(c, b) \/ Drops(c, b)
<1>1. CASE \E t \in Producers : Acts(t)
  BY <1>1, ActsDo
<1>2. ASSUME \/ \E c \in Components : Loop(c) \/ GiveUp(c) \/ Receive(c) \/ Handle(c)
             \/ Launch \/ Arrive \/ UNCHANGED vars
      PROVE  \A u \in Producers : Quiet(u)
  BY <1>2, Births, QuietWhen
<1>3. CASE Launch \/ Arrive \/ UNCHANGED vars \/ \E c \in Components : Loop(c) \/ Handle(c)
  <2>1. UNCHANGED <<reference_counter, lost, queue>>
    BY <1>3 DEF Launch, Arrive, Loop, Handle, vars, pool, queues
  <2>. QED
    BY <1>2, <1>3, <2>1 DEF Calm
<1>4. ASSUME NEW c \in Components, GiveUp(c)
      PROVE  \/ UNCHANGED <<reference_counter, lost, queue>>
             \/ \E b \in Slots : Drops(c, b)
  <2>1. CASE queue[c] = <<>>
    BY <1>4, <2>1 DEF GiveUp, Take
  <2>2. CASE queue[c] # <<>>
    <3>1. Head(queue[c]).slot \in Slots
      BY <2>2, HeadTypes
    <3>2. Drops(c, Head(queue[c]).slot)
      BY <1>4, <2>2 DEF GiveUp, Take, Lose, Drops
    <3>. QED
      BY <3>1, <3>2
  <2>. QED
    BY <2>1, <2>2
<1>5. ASSUME NEW c \in Components, Receive(c)
      PROVE  \E b \in Slots : Collects(c, b)
  <2>1. Head(queue[c]).slot \in Slots
    BY <1>5, HeadTypes DEF Receive
  <2>2. Collects(c, Head(queue[c]).slot)
    BY <1>5 DEF Receive, Take, Free, Collects
  <2>. QED
    BY <2>1, <2>2
<1>6. CASE \E c \in Components : GiveUp(c) \/ Receive(c)
  BY <1>2, <1>4, <1>5, <1>6 DEF Calm
<1>. QED
  BY <1>1, <1>3, <1>6, ActorSteps

-----------------------------------------------------------------------------
\* Who has to free which buffer.

LEMMA Sets ==
  ASSUME TypeInv, NEW b \in Slots
  PROVE  /\ Holders(b) \subseteq Producers /\ Owers(b) \subseteq Components
         /\ IsFiniteSet(Holders(b)) /\ Cardinality(Holders(b)) \in Nat
         /\ IsFiniteSet(Owers(b)) /\ Cardinality(Owers(b)) \in Nat
         /\ IsFiniteSet(lost[b]) /\ Cardinality(lost[b]) \in Nat
         /\ reference_counter[b] \in Int
         /\ DOMAIN reference_counter = Slots /\ DOMAIN lost = Slots
<1>1. PoolOK
  BY DEF TypeInv, TypeOK
<1>2. Holders(b) \subseteq Producers /\ Owers(b) \subseteq Components
  BY DEF Holders, Owers
<1>3. IsFiniteSet(Threads)
  <2>1. IsFiniteSet({"receive"})
    BY FS_Singleton
  <2>2. IsFiniteSet(Components \X {"receive"})
    BY <2>1, Finite, FS_Product
  <2>3. Receivers \subseteq Components \X {"receive"}
    BY DEF Receivers
  <2>4. IsFiniteSet(Receivers)
    BY <2>2, <2>3, FS_Subset
  <2>. QED
    BY <2>4, Finite, FS_Union DEF Threads
<1>4. IsFiniteSet(Components \X Threads)
  BY <1>3, Finite, FS_Product
<1>5. lost[b] \subseteq Components \X Threads
  BY <1>1 DEF PoolOK
<1>6. IsFiniteSet(lost[b])
  BY <1>4, <1>5, FS_Subset
<1>7. IsFiniteSet(Holders(b)) /\ IsFiniteSet(Owers(b))
  BY <1>2, Finite, FS_Subset
<1>8. reference_counter[b] \in Int /\ DOMAIN reference_counter = Slots /\ DOMAIN lost = Slots
  BY <1>1 DEF PoolOK
<1>. QED
  BY <1>2, <1>6, <1>7, <1>8, FS_CardinalityType

\* A buffer that is free.
LEMMA Unused ==
  ASSUME TypeInv, NEW b \in Slots, Settled(b), reference_counter[b] = 0
  PROVE  Holders(b) = {} /\ Owers(b) = {} /\ lost[b] = {}
<1>1. /\ Cardinality(Holders(b)) = 0 /\ Cardinality(Owers(b)) = 0
      /\ Cardinality(lost[b]) = 0
  BY Sets DEF Settled
<1>. QED
  BY <1>1, Sets, FS_EmptySet

\* The ways in which the books stay balanced.
LEMMA SettledStays ==
  ASSUME NEW b \in Slots, Settled(b), Holders(b)' = Holders(b), Owers(b)' = Owers(b),
         lost'[b] = lost[b], reference_counter'[b] = reference_counter[b]
  PROVE  Settled(b)'
BY DEF Settled

LEMMA SettledTaken ==
  ASSUME TypeInv, NEW b \in Slots, Settled(b), NEW t, Holders(b)' = {t},
         Owers(b)' = Owers(b), lost'[b] = lost[b],
         reference_counter[b] = 0, reference_counter'[b] = 1
  PROVE  Settled(b)'
<1>1. Owers(b)' = {} /\ lost'[b] = {}
  BY Unused
<1>2. Cardinality({}) = 0 /\ Cardinality({t}) = 1
  BY FS_EmptySet, FS_Singleton
<1>. QED
  BY <1>1, <1>2 DEF Settled

LEMMA SettledReleased ==
  ASSUME TypeInv, NEW b \in Slots, Settled(b), NEW t \in Holders(b), Holders(b)' = {},
         Owers(b)' = Owers(b), lost'[b] = lost[b],
         reference_counter'[b] = reference_counter[b] - 1
  PROVE  Settled(b)'
<1>1. Holders(b) = {t} /\ Owers(b) = {} /\ lost[b] = {}
  BY DEF Settled
<1>2. Cardinality({}) = 0 /\ Cardinality({t}) = 1
  BY FS_EmptySet, FS_Singleton
<1>3. reference_counter[b] = 1
  BY <1>1, <1>2 DEF Settled
<1>. QED
  BY <1>1, <1>2, <1>3 DEF Settled

LEMMA SettledShared ==
  ASSUME TypeInv, NEW b \in Slots, Settled(b), NEW t \in Holders(b), Holders(b)' = {},
         lost'[b] = lost[b], NEW C \in SUBSET Components, Owers(b)' = C,
         reference_counter'[b] = Cardinality(C)
  PROVE  Settled(b)'
<1>1. lost[b] = {}
  BY DEF Settled
<1>2. Cardinality({}) = 0
  BY FS_EmptySet
<1>3. Cardinality(C) \in Nat
  BY Finite, FS_Subset, FS_CardinalityType
<1>. QED
  BY <1>1, <1>2, <1>3 DEF Settled

LEMMA SettledCollected ==
  ASSUME TypeInv, NEW b \in Slots, Settled(b), NEW c \in Owers(b),
         Holders(b)' = Holders(b), Owers(b)' = Owers(b) \ {c}, lost'[b] = lost[b],
         reference_counter'[b] = reference_counter[b] - 1
  PROVE  Settled(b)'
<1>1. Cardinality(Owers(b) \ {c}) = Cardinality(Owers(b)) - 1
  BY Sets, FS_RemoveElement
<1>2. Holders(b) = {}
  BY DEF Settled
<1>3. reference_counter'[b] =
        Cardinality(Holders(b)) + Cardinality(Owers(b) \ {c}) + Cardinality(lost[b])
  BY <1>1, Sets DEF Settled
<1>. QED
  BY <1>2, <1>3 DEF Settled

LEMMA SettledLost ==
  ASSUME TypeInv, NEW b \in Slots, Settled(b), NEW c \in Owers(b), NEW t,
         Holders(b)' = Holders(b), Owers(b)' = Owers(b) \ {c},
         lost'[b] = lost[b] \cup {<<c, t>>},
         reference_counter'[b] = reference_counter[b]
  PROVE  Settled(b)'
<1>1. Cardinality(Owers(b) \ {c}) = Cardinality(Owers(b)) - 1
  BY Sets, FS_RemoveElement
<1>2. Holders(b) = {}
  BY DEF Settled
<1>3. <<c, t>> \notin lost[b]
  BY DEF Settled
<1>4. Cardinality(lost[b] \cup {<<c, t>>}) = Cardinality(lost[b]) + 1
  BY <1>3, Sets, FS_AddElement
<1>5. reference_counter'[b] =
        Cardinality(Holders(b)) + Cardinality(Owers(b) \ {c}) +
          Cardinality(lost[b] \cup {<<c, t>>})
  BY <1>1, <1>4, Sets DEF Settled
<1>6. \A l \in lost'[b] : l[1] \notin Owers(b)'
  BY DEF Settled
<1>. QED
  BY <1>2, <1>5, <1>6 DEF Settled

\* Who owes what, by what producers are handing out and what is waiting.
LEMMA Owing ==
  ASSUME NEW b \in Slots, NEW c \in Components
  PROVE  c \in Owers(b) <=> b \in Waiting(c) \/ \E t \in Producers : Gives(t, c, b)
BY DEF Owers, Owes, WillGet, Gives

LEMMA QuietHolders ==
  ASSUME NEW b \in Slots, NEW t, \A u \in Producers \ {t} : Quiet(u)
  PROVE  \A u \in Producers \ {t} : u \in Holders(b)' <=> u \in Holders(b)
BY DEF Quiet, Holders

LEMMA AllQuiet ==
  ASSUME NEW b \in Slots, \A u \in Producers : Quiet(u)
  PROVE  Holders(b)' = Holders(b)
BY DEF Quiet, Holders

\* Nothing is handed out and nothing received.
LEMMA ListsStay ==
  ASSUME queue' = queue, Once, OneUpdates, Distinct,
         \A b \in Slots : \A t \in Producers : \A c \in Components :
           Gives(t, c, b)' <=> Gives(t, c, b)
  PROVE  Once' /\ OneUpdates' /\ Distinct' /\ \A b \in Slots : Owers(b)' = Owers(b)
<1>1. \A c : Waiting(c)' = Waiting(c)
  BY DEF Waiting
<1>2. ASSUME NEW b \in Slots
      PROVE  Owers(b)' = Owers(b)
  <2>1. \A c \in Components : Owes(c, b)' <=> Owes(c, b)
    BY <1>1 DEF Owes, WillGet, Gives
  <2>. QED
    BY <2>1 DEF Owers
<1>3. Once'
  BY DEF Once
<1>. QED
  BY <1>1, <1>2, <1>3 DEF OneUpdates, Distinct

LEMMA CalmDebts ==
  ASSUME TypeInv, Debts, Calm
  PROVE  Debts'
<1>1. /\ queue' = queue /\ lost' = lost /\ reference_counter' = reference_counter
      /\ \A u \in Producers : Quiet(u)
  BY DEF Calm
<1>2. \A b \in Slots : \A t \in Producers : \A c \in Components :
        Gives(t, c, b)' <=> Gives(t, c, b)
  BY <1>1 DEF Quiet
<1>3. Once' /\ OneUpdates' /\ Distinct' /\ \A b \in Slots : Owers(b)' = Owers(b)
  BY <1>1, <1>2, ListsStay DEF Debts
<1>4. \A b \in Slots : Settled(b)'
  BY <1>1, <1>3, AllQuiet, SettledStays DEF Debts
<1>. QED
  BY <1>3, <1>4 DEF Debts

LEMMA TakesDebts ==
  ASSUME TypeInv, Debts, NEW t \in Producers, \A u \in Producers \ {t} : Quiet(u),
         NEW b \in Slots, Takes(t, b)
  PROVE  Debts'
<1>1. \A a \in Slots : \A u \in Producers : \A c \in Components :
        Gives(u, c, a)' <=> Gives(u, c, a)
  <2>1. \A a \in Slots : \A c \in Components : ~ Gives(t, c, a) /\ ~ Gives(t, c, a)'
    BY DEF Takes, Gives, AlonePlaces
  <2>. QED
    BY <2>1 DEF Quiet
<1>2. Once' /\ OneUpdates' /\ Distinct' /\ \A a \in Slots : Owers(a)' = Owers(a)
  BY <1>1, ListsStay DEF Debts, Takes
<1>3. \A a \in Slots : t \notin Holders(a) /\ (t \in Holders(a)' <=> a = b)
  BY DEF Takes, Holders, HoldsAlone, AlonePlaces
<1>4. ASSUME NEW a \in Slots
      PROVE  Settled(a)'
  <2>1. lost'[a] = lost[a] /\ Settled(a)
    BY DEF Takes, Debts
  <2>2. \A u \in Producers \ {t} : u \in Holders(a)' <=> u \in Holders(a)
    BY QuietHolders
  <2>3. Holders(a)' \subseteq Producers /\ Holders(a) \subseteq Producers
    BY DEF Holders
  <2>4. CASE a = b
    <3>1. Holders(a) = {}
      BY <2>1, <2>4, Unused DEF Takes
    <3>2. Holders(a)' = {t}
      BY <1>3, <2>2, <2>3, <2>4, <3>1
    <3>3. reference_counter[a] = 0 /\ reference_counter'[a] = 1
      BY <2>4, Sets DEF Takes
    <3>. QED
      BY <1>2, <2>1, <3>2, <3>3, SettledTaken
  <2>5. CASE a # b
    <3>1. Holders(a)' = Holders(a)
      BY <1>3, <2>2, <2>3, <2>5
    <3>2. reference_counter'[a] = reference_counter[a]
      BY <2>5, Sets DEF Takes
    <3>. QED
      BY <1>2, <2>1, <3>1, <3>2, SettledStays
  <2>. QED
    BY <2>4, <2>5
<1>. QED
  BY <1>2, <1>4 DEF Debts

LEMMA ReleasesDebts ==
  ASSUME TypeInv, Debts, NEW t \in Producers, \A u \in Producers \ {t} : Quiet(u),
         NEW b \in Slots, Releases(t, b)
  PROVE  Debts'
<1>1. \A a \in Slots : \A u \in Producers : \A c \in Components :
        Gives(u, c, a)' <=> Gives(u, c, a)
  <2>1. \A a \in Slots : \A c \in Components : ~ Gives(t, c, a) /\ ~ Gives(t, c, a)'
    BY DEF Releases, Gives, AlonePlaces, BusyPlaces
  <2>. QED
    BY <2>1 DEF Quiet
<1>2. Once' /\ OneUpdates' /\ Distinct' /\ \A a \in Slots : Owers(a)' = Owers(a)
  BY <1>1, ListsStay DEF Debts, Releases
<1>3. \A a \in Slots : (t \in Holders(a) <=> a = b) /\ t \notin Holders(a)'
  BY DEF Releases, Holders, HoldsAlone, AlonePlaces, BusyPlaces
<1>4. ASSUME NEW a \in Slots
      PROVE  Settled(a)'
  <2>1. lost'[a] = lost[a] /\ Settled(a)
    BY DEF Releases, Debts
  <2>2. \A u \in Producers \ {t} : u \in Holders(a)' <=> u \in Holders(a)
    BY QuietHolders
  <2>3. Holders(a)' \subseteq Producers /\ Holders(a) \subseteq Producers
    BY DEF Holders
  <2>4. CASE a = b
    <3>1. t \in Holders(a) /\ Holders(a) = {t}
      BY <1>3, <2>1, <2>4 DEF Settled
    <3>2. Holders(a)' = {}
      BY <1>3, <2>2, <2>3, <3>1
    <3>3. reference_counter'[a] = reference_counter[a] - 1
      BY <2>4, Sets DEF Releases
    <3>. QED
      BY <1>2, <2>1, <3>1, <3>2, <3>3, SettledReleased
  <2>5. CASE a # b
    <3>1. Holders(a)' = Holders(a)
      BY <1>3, <2>2, <2>3, <2>5
    <3>2. reference_counter'[a] = reference_counter[a]
      BY <2>5, Sets DEF Releases
    <3>. QED
      BY <1>2, <2>1, <3>1, <3>2, SettledStays
  <2>. QED
    BY <2>4, <2>5
<1>. QED
  BY <1>2, <1>4 DEF Debts

LEMMA SharesDebts ==
  ASSUME TypeInv, Debts, NEW t \in Producers, \A u \in Producers \ {t} : Quiet(u),
         NEW b \in Slots, Shares(t, b)
  PROVE  Debts'
<1>0. observers \in SUBSET Components /\ queue' = queue
  BY DEF TypeInv, TypeOK, EndpointsOK, Shares
<1>1. \A a \in Slots : (t \in Holders(a) <=> a = b) /\ t \notin Holders(a)'
  BY DEF Shares, Holders, HoldsAlone
<1>2. \A a \in Slots : \A c \in Components :
        ~ Gives(t, c, a) /\ (Gives(t, c, a)' <=> a = b /\ c \in observers)
  BY DEF Shares, Gives
<1>3. \A a \in Slots : \A u \in Producers \ {t} : \A c \in Components :
        Gives(u, c, a)' <=> Gives(u, c, a)
  BY DEF Quiet
<1>4. Settled(b) /\ Owers(b) = {}
  BY <1>1 DEF Debts, Settled
<1>5. \A c \in Components : b \notin Waiting(c) /\ \A u \in Producers : ~ Gives(u, c, b)
  BY <1>4, Owing
<1>6. \A c : Waiting(c)' = Waiting(c)
  BY <1>0 DEF Waiting
<1>7. Owers(b)' = observers /\ \A a \in Slots \ {b} : Owers(a)' = Owers(a)
  <2>1. \A a \in Slots : \A c \in Components :
          Owes(c, a)' <=> IF a = b THEN c \in observers ELSE Owes(c, a)
    <3>1. SUFFICES ASSUME NEW a \in Slots, NEW c \in Components
          PROVE  Owes(c, a)' <=> IF a = b THEN c \in observers ELSE Owes(c, a)
      OBVIOUS
    <3>2. Owes(c, a) <=> a \in Waiting(c) \/ \E u \in Producers : Gives(u, c, a)
      BY DEF Owes, WillGet, Gives
    <3>3. Owes(c, a)' <=> a \in Waiting(c)' \/ \E u \in Producers : Gives(u, c, a)'
      BY DEF Owes, WillGet, Gives
    <3>. QED
      BY <1>2, <1>3, <1>5, <1>6, <3>2, <3>3
  <2>. QED
    BY <1>0, <2>1 DEF Owers
<1>8. ASSUME NEW a \in Slots
      PROVE  Settled(a)'
  <2>1. lost'[a] = lost[a] /\ Settled(a)
    BY DEF Shares, Debts
  <2>2. \A u \in Producers \ {t} : u \in Holders(a)' <=> u \in Holders(a)
    BY QuietHolders
  <2>3. Holders(a)' \subseteq Producers /\ Holders(a) \subseteq Producers
    BY DEF Holders
  <2>4. CASE a = b
    <3>1. t \in Holders(a) /\ Holders(a) = {t}
      BY <1>1, <2>1, <2>4 DEF Settled
    <3>2. Holders(a)' = {}
      BY <1>1, <2>2, <2>3, <3>1
    <3>3. reference_counter'[a] = Cardinality(observers)
      BY <2>4, Sets DEF Shares
    <3>. QED
      BY <1>0, <1>7, <2>1, <2>4, <3>1, <3>2, <3>3, SettledShared
  <2>5. CASE a # b
    <3>1. Holders(a)' = Holders(a)
      BY <1>1, <2>2, <2>3, <2>5
    <3>2. reference_counter'[a] = reference_counter[a]
      BY <2>5, Sets DEF Shares
    <3>. QED
      BY <1>7, <2>1, <2>5, <3>1, <3>2, SettledStays
  <2>. QED
    BY <2>4, <2>5
<1>9. OneUpdates'
  <2>1. SUFFICES ASSUME NEW a \in Slots, NEW u \in Producers, NEW v \in Producers,
                        NEW c \in Components, NEW d \in Components,
                        Gives(u, c, a)', Gives(v, d, a)'
        PROVE  u = v
    BY DEF OneUpdates
  <2>2. CASE a = b
    BY <1>3, <1>5, <2>1, <2>2
  <2>3. CASE a # b
    <3>1. Gives(u, c, a) /\ Gives(v, d, a)
      BY <1>2, <1>3, <2>1, <2>3
    <3>. QED
      BY <3>1 DEF Debts, OneUpdates
  <2>. QED
    BY <2>2, <2>3
<1>10. Distinct'
  <2>1. SUFFICES ASSUME NEW a \in Slots, NEW u \in Producers, NEW c \in Components,
                        Gives(u, c, a)'
        PROVE  a \notin Waiting(c)
    BY <1>6 DEF Distinct
  <2>2. CASE a = b
    BY <1>5, <2>2
  <2>3. CASE a # b
    BY <1>2, <1>3, <2>1, <2>3 DEF Debts, Distinct
  <2>. QED
    BY <2>2, <2>3
<1>11. Once'
  BY <1>0 DEF Debts, Once
<1>. QED
  BY <1>8, <1>9, <1>10, <1>11 DEF Debts

\* A producer that is done with a component gives it nothing any more.
LEMMA ShedsGives ==
  ASSUME TypeInv, Debts, NEW t \in Producers, \A u \in Producers \ {t} : Quiet(u),
         NEW b \in Slots, NEW c \in Components, buf[t] = b, Sheds(t, c)
  PROVE  /\ \A a \in Slots : Holders(a)' = Holders(a)
         /\ Gives(t, c, b) /\ b \notin Waiting(c) /\ c \in Owers(b)
         /\ \A a \in Slots : \A u \in Producers : \A d \in Components :
              Gives(u, d, a)' <=> Gives(u, d, a) /\ ~ (u = t /\ d = c)
         /\ OneUpdates'
         /\ \A u \in Producers : ~ Gives(u, c, b)'
<1>1. Gives(t, c, b)
  BY DEF Sheds, Gives
<1>2. b \notin Waiting(c) /\ c \in Owers(b)
  BY <1>1, Owing DEF Debts, Distinct
<1>3. \A a \in Slots : Holders(a)' = Holders(a)
  <2>1. \A a \in Slots : t \notin Holders(a) /\ t \notin Holders(a)'
    BY DEF Sheds, Holders, HoldsAlone, BusyPlaces, AlonePlaces
  <2>2. \A a \in Slots : \A u \in Producers \ {t} : u \in Holders(a)' <=> u \in Holders(a)
    BY QuietHolders
  <2>3. \A a \in Slots : Holders(a)' \subseteq Producers /\ Holders(a) \subseteq Producers
    BY DEF Holders
  <2>. QED
    BY <2>1, <2>2, <2>3
<1>4. \A a \in Slots : \A u \in Producers : \A d \in Components :
        Gives(u, d, a)' <=> Gives(u, d, a) /\ ~ (u = t /\ d = c)
  <2>1. \A a \in Slots : \A d \in Components :
          Gives(t, d, a)' <=> Gives(t, d, a) /\ d # c
    BY DEF Sheds, Gives, BusyPlaces
  <2>2. \A a \in Slots : \A u \in Producers \ {t} : \A d \in Components :
          Gives(u, d, a)' <=> Gives(u, d, a)
    BY DEF Quiet
  <2>. QED
    BY <2>1, <2>2
<1>5. OneUpdates'
  <2>1. SUFFICES ASSUME NEW a \in Slots, NEW u \in Producers, NEW v \in Producers,
                        NEW d \in Components, NEW e \in Components,
                        Gives(u, d, a)', Gives(v, e, a)'
        PROVE  u = v
    BY DEF OneUpdates
  <2>2. Gives(u, d, a) /\ Gives(v, e, a)
    BY <1>4, <2>1
  <2>. QED
    BY <2>2 DEF Debts, OneUpdates
<1>6. \A u \in Producers : ~ Gives(u, c, b)'
  BY <1>1, <1>4 DEF Debts, OneUpdates
<1>. QED
  BY <1>1, <1>2, <1>3, <1>4, <1>5, <1>6

LEMMA PassesDebts ==
  ASSUME TypeInv, Debts, NEW t \in Producers, \A u \in Producers \ {t} : Quiet(u),
         NEW b \in Slots, NEW c \in Components, Passes(t, c, b)
  PROVE  Debts'
<1>0. /\ queue \in [Components -> Seq(Pairs)] /\ buf[t] = b /\ Sheds(t, c)
      /\ lost' = lost /\ reference_counter' = reference_counter
  BY DEF TypeInv, TypeOK, QueuesOK, Passes
<1>1. PICK p \in Pairs : p.slot = b /\ queue' = [queue EXCEPT ![c] = Append(@, p)]
  BY DEF Passes
<1>2. /\ queue'[c] = Append(queue[c], p) /\ queue[c] \in Seq(Pairs)
      /\ \A d \in Components \ {c} : queue'[d] = queue[d]
  BY <1>0, <1>1
<1>3. /\ Len(queue[c]) \in Nat /\ DOMAIN queue[c] = 1 .. Len(queue[c])
      /\ DOMAIN queue'[c] = 1 .. Len(queue[c]) + 1
      /\ \A j \in DOMAIN queue[c] : queue'[c][j] = queue[c][j]
      /\ queue'[c][Len(queue[c]) + 1] = p
  BY <1>2, Adding
<1>4. /\ Waiting(c)' = Waiting(c) \cup {b}
      /\ \A d \in Components \ {c} : Waiting(d)' = Waiting(d)
  <2>1. DOMAIN queue'[c] = DOMAIN queue[c] \cup {Len(queue[c]) + 1}
    BY <1>3
  <2>2. Waiting(c)' = Waiting(c) \cup {b}
    BY <1>1, <1>3, <2>1 DEF Waiting
  <2>. QED
    BY <1>2, <2>2 DEF Waiting
<1>5. /\ \A a \in Slots : Holders(a)' = Holders(a)
      /\ Gives(t, c, b) /\ b \notin Waiting(c)
      /\ \A a \in Slots : \A u \in Producers : \A d \in Components :
           Gives(u, d, a)' <=> Gives(u, d, a) /\ ~ (u = t /\ d = c)
      /\ OneUpdates' /\ \A u \in Producers : ~ Gives(u, c, b)'
  BY <1>0, ShedsGives
<1>6. \A a \in Slots : Owers(a)' = Owers(a)
  <2>1. SUFFICES ASSUME NEW a \in Slots, NEW d \in Components
        PROVE  Owes(d, a)' <=> Owes(d, a)
    BY DEF Owers
  <2>2. Owes(d, a) <=> a \in Waiting(d) \/ \E u \in Producers : Gives(u, d, a)
    BY DEF Owes, WillGet, Gives
  <2>3. Owes(d, a)' <=> a \in Waiting(d)' \/ \E u \in Producers : Gives(u, d, a)'
    BY DEF Owes, WillGet, Gives
  <2>4. Gives(t, c, a) => a = b
    BY <1>0 DEF Gives
  <2>. QED
    BY <1>4, <1>5, <2>2, <2>3, <2>4
<1>7. \A a \in Slots : Settled(a)'
  BY <1>0, <1>5, <1>6, SettledStays DEF Debts
<1>8. Once'
  <2>1. SUFFICES ASSUME NEW d \in Components, NEW i \in DOMAIN queue'[d],
                        NEW j \in DOMAIN queue'[d],
                        queue'[d][i].slot = queue'[d][j].slot
        PROVE  i = j
    BY DEF Once
  <2>2. CASE d # c
    BY <1>2, <2>1, <2>2 DEF Debts, Once
  <2>3. CASE d = c
    <3>1. \A m \in DOMAIN queue[c] : queue[c][m].slot # b
      BY <1>5 DEF Waiting
    <3>2. CASE i \in DOMAIN queue[c] /\ j \in DOMAIN queue[c]
      BY <1>3, <2>1, <2>3, <3>2 DEF Debts, Once
    <3>3. CASE i \notin DOMAIN queue[c] \/ j \notin DOMAIN queue[c]
      BY <1>1, <1>3, <2>1, <2>3, <3>1, <3>3
    <3>. QED
      BY <3>2, <3>3
  <2>. QED
    BY <2>2, <2>3
<1>9. Distinct'
  <2>1. SUFFICES ASSUME NEW a \in Slots, NEW u \in Producers, NEW d \in Components,
                        Gives(u, d, a)'
        PROVE  a \notin Waiting(d)'
    BY DEF Distinct
  <2>2. Gives(u, d, a) /\ a \notin Waiting(d)
    BY <1>5, <2>1 DEF Debts, Distinct
  <2>. QED
    BY <1>4, <1>5, <2>1, <2>2
<1>. QED
  BY <1>5, <1>7, <1>8, <1>9 DEF Debts

LEMMA WastesDebts ==
  ASSUME TypeInv, Debts, NEW t \in Producers, \A u \in Producers \ {t} : Quiet(u),
         NEW b \in Slots, NEW c \in Components, Wastes(t, c, b)
  PROVE  Debts'
<1>0. /\ buf[t] = b /\ Sheds(t, c) /\ queue' = queue
      /\ reference_counter' = reference_counter
      /\ lost' = [lost EXCEPT ![b] = @ \cup {<<c, t>>}]
  BY DEF Wastes
<1>1. \A d : Waiting(d)' = Waiting(d)
  BY <1>0 DEF Waiting
<1>2. /\ \A a \in Slots : Holders(a)' = Holders(a)
      /\ Gives(t, c, b) /\ b \notin Waiting(c) /\ c \in Owers(b)
      /\ \A a \in Slots : \A u \in Producers : \A d \in Components :
           Gives(u, d, a)' <=> Gives(u, d, a) /\ ~ (u = t /\ d = c)
      /\ OneUpdates' /\ \A u \in Producers : ~ Gives(u, c, b)'
  BY <1>0, ShedsGives
<1>3. Owers(b)' = Owers(b) \ {c} /\ \A a \in Slots \ {b} : Owers(a)' = Owers(a)
  <2>1. \A a \in Slots : \A d \in Components :
          Owes(d, a)' <=> Owes(d, a) /\ ~ (d = c /\ a = b)
    <3>1. SUFFICES ASSUME NEW a \in Slots, NEW d \in Components
          PROVE  Owes(d, a)' <=> Owes(d, a) /\ ~ (d = c /\ a = b)
      OBVIOUS
    <3>2. Owes(d, a) <=> a \in Waiting(d) \/ \E u \in Producers : Gives(u, d, a)
      BY DEF Owes, WillGet, Gives
    <3>3. Owes(d, a)' <=> a \in Waiting(d)' \/ \E u \in Producers : Gives(u, d, a)'
      BY DEF Owes, WillGet, Gives
    <3>4. Gives(t, c, a) => a = b
      BY <1>0 DEF Gives
    <3>. QED
      BY <1>1, <1>2, <3>2, <3>3, <3>4
  <2>. QED
    BY <2>1 DEF Owers
<1>4. ASSUME NEW a \in Slots
      PROVE  Settled(a)'
  <2>1. Settled(a) /\ reference_counter'[a] = reference_counter[a] /\ Holders(a)' = Holders(a)
    BY <1>0, <1>2 DEF Debts
  <2>2. CASE a = b
    <3>1. lost'[a] = lost[a] \cup {<<c, t>>}
      BY <1>0, <2>2, Sets
    <3>. QED
      BY <1>2, <1>3, <2>1, <2>2, <3>1, SettledLost
  <2>3. CASE a # b
    <3>1. lost'[a] = lost[a]
      BY <1>0, <2>3, Sets
    <3>. QED
      BY <1>3, <2>1, <2>3, <3>1, SettledStays
  <2>. QED
    BY <2>2, <2>3
<1>5. Once'
  BY <1>0 DEF Debts, Once
<1>6. Distinct'
  BY <1>1, <1>2 DEF Debts, Distinct
<1>. QED
  BY <1>2, <1>4, <1>5, <1>6 DEF Debts

\* The first pair is taken out of a list.
LEMMA TailWaiting ==
  ASSUME TypeInv, Once, NEW c \in Components, queue[c] # <<>>,
         queue' = [queue EXCEPT ![c] = Tail(@)], NEW b, b = Head(queue[c]).slot
  PROVE  /\ b \in Waiting(c) /\ Waiting(c)' = Waiting(c) \ {b}
         /\ \A d \in Components \ {c} : Waiting(d)' = Waiting(d)
         /\ Once'
<1>0. queue \in [Components -> Seq(Pairs)]
  BY DEF TypeInv, TypeOK, QueuesOK
<1>1. /\ queue'[c] = Tail(queue[c]) /\ queue[c] \in Seq(Pairs)
      /\ \A d \in Components \ {c} : queue'[d] = queue[d]
  BY <1>0
<1>2. /\ b = queue[c][1].slot /\ Len(queue[c]) \in Nat \ {0}
      /\ DOMAIN queue[c] = 1 .. Len(queue[c])
      /\ DOMAIN queue'[c] = 1 .. Len(queue[c]) - 1
      /\ \A j \in DOMAIN queue'[c] : queue'[c][j] = queue[c][j + 1]
  <2>1. /\ Head(queue[c]) = queue[c][1]
        /\ DOMAIN queue[c] = 1 .. Len(queue[c])
        /\ DOMAIN Tail(queue[c]) = 1 .. Len(queue[c]) - 1
        /\ Len(queue[c]) \in Nat \ {0}
        /\ \A j \in DOMAIN Tail(queue[c]) : Tail(queue[c])[j] = queue[c][j + 1]
    BY <1>1, Taking
  <2>. QED
    BY <1>1, <2>1
<1>3. b \in Waiting(c)
  BY <1>2 DEF Waiting
<1>4. \A i \in DOMAIN queue[c] : queue[c][i].slot = b => i = 1
  BY <1>2 DEF Once
<1>5. Waiting(c)' = Waiting(c) \ {b}
  <2>1. \A j \in DOMAIN queue'[c] : j + 1 \in DOMAIN queue[c] /\ j + 1 # 1
    BY <1>2
  <2>2. \A i \in DOMAIN queue[c] : i # 1 => i - 1 \in DOMAIN queue'[c] /\ (i - 1) + 1 = i
    BY <1>2
  <2>3. ASSUME NEW a \in Waiting(c)'
        PROVE  a \in Waiting(c) \ {b}
    BY <1>2, <1>4, <2>1, <2>3 DEF Waiting
  <2>4. ASSUME NEW a \in Waiting(c) \ {b}
        PROVE  a \in Waiting(c)'
    <3>1. PICK i \in DOMAIN queue[c] : a = queue[c][i].slot
      BY <2>4 DEF Waiting
    <3>2. i # 1
      BY <1>2, <2>4, <3>1
    <3>3. i - 1 \in DOMAIN queue'[c] /\ queue'[c][i - 1] = queue[c][i]
      BY <1>2, <2>2, <3>2
    <3>. QED
      BY <3>1, <3>3 DEF Waiting
  <2>. QED
    BY <2>3, <2>4
<1>6. \A d \in Components \ {c} : Waiting(d)' = Waiting(d)
  BY <1>1 DEF Waiting
<1>7. Once'
  <2>1. SUFFICES ASSUME NEW d \in Components, NEW i \in DOMAIN queue'[d],
                        NEW j \in DOMAIN queue'[d],
                        queue'[d][i].slot = queue'[d][j].slot
        PROVE  i = j
    BY DEF Once
  <2>2. CASE d # c
    BY <1>1, <2>1, <2>2 DEF Once
  <2>3. CASE d = c
    <3>1. i \in Nat /\ j \in Nat /\ i + 1 \in DOMAIN queue[c] /\ j + 1 \in DOMAIN queue[c]
      BY <1>2, <2>1, <2>3
    <3>2. queue[c][i + 1].slot = queue[c][j + 1].slot
      BY <1>2, <2>1, <2>3
    <3>3. i + 1 = j + 1
      BY <3>1, <3>2 DEF Once
    <3>. QED
      BY <3>1, <3>3
  <2>. QED
    BY <2>2, <2>3
<1>. QED
  BY <1>3, <1>5, <1>6, <1>7

\* Lists lose what is waiting for component c, for the buffers in L.
LEMMA Unlisted ==
  ASSUME Debts, \A u \in Producers : Quiet(u), NEW c \in Components,
         NEW L, L \subseteq Waiting(c), Waiting(c)' = Waiting(c) \ L,
         \A d \in Components \ {c} : Waiting(d)' = Waiting(d)
  PROVE  /\ \A a \in Slots : Holders(a)' = Holders(a)
         /\ \A a \in Slots \cap L : c \in Owers(a) /\ Owers(a)' = Owers(a) \ {c}
         /\ \A a \in Slots \ L : Owers(a)' = Owers(a)
         /\ OneUpdates' /\ Distinct'
<1>1. \A a \in Slots : \A u \in Producers : \A d \in Components :
        Gives(u, d, a)' <=> Gives(u, d, a)
  BY DEF Quiet
<1>2. \A a \in Slots : \A d \in Components :
        Owes(d, a)' <=> Owes(d, a) /\ ~ (d = c /\ a \in L)
  <2>1. SUFFICES ASSUME NEW a \in Slots, NEW d \in Components
        PROVE  Owes(d, a)' <=> Owes(d, a) /\ ~ (d = c /\ a \in L)
    OBVIOUS
  <2>2. Owes(d, a) <=> a \in Waiting(d) \/ \E u \in Producers : Gives(u, d, a)
    BY DEF Owes, WillGet, Gives
  <2>3. Owes(d, a)' <=> a \in Waiting(d)' \/ \E u \in Producers : Gives(u, d, a)'
    BY DEF Owes, WillGet, Gives
  <2>4. a \in Waiting(d) => \A u \in Producers : ~ Gives(u, d, a)
    BY DEF Debts, Distinct
  <2>. QED
    BY <1>1, <2>2, <2>3, <2>4
<1>3. \A a \in Slots \cap L : c \in Owers(a) /\ Owers(a)' = Owers(a) \ {c}
  <2>1. \A a \in L : Owes(c, a)
    BY DEF Owes
  <2>. QED
    BY <1>2, <2>1 DEF Owers
<1>4. \A a \in Slots \ L : Owers(a)' = Owers(a)
  BY <1>2 DEF Owers
<1>5. OneUpdates'
  BY <1>1 DEF Debts, OneUpdates
<1>6. Distinct'
  BY <1>1 DEF Debts, Distinct
<1>. QED
  BY <1>3, <1>4, <1>5, <1>6, AllQuiet

LEMMA CollectsDebts ==
  ASSUME TypeInv, Debts, \A u \in Producers : Quiet(u), NEW c \in Components,
         NEW b \in Slots, Collects(c, b)
  PROVE  Debts'
<1>1. /\ b \in Waiting(c) /\ Waiting(c)' = Waiting(c) \ {b}
      /\ \A d \in Components \ {c} : Waiting(d)' = Waiting(d)
      /\ Once'
  BY TailWaiting DEF Collects, Debts
<1>2. /\ \A a \in Slots : Holders(a)' = Holders(a)
      /\ \A a \in Slots \cap {b} : c \in Owers(a) /\ Owers(a)' = Owers(a) \ {c}
      /\ \A a \in Slots \ {b} : Owers(a)' = Owers(a)
      /\ OneUpdates' /\ Distinct'
  <2>1. {b} \subseteq Waiting(c)
    BY <1>1
  <2>. QED
    BY <1>1, <2>1, Unlisted
<1>3. ASSUME NEW a \in Slots
      PROVE  Settled(a)'
  <2>1. Settled(a) /\ lost'[a] = lost[a] /\ Holders(a)' = Holders(a)
    BY <1>2 DEF Collects, Debts
  <2>2. CASE a = b
    <3>1. reference_counter'[a] = reference_counter[a] - 1
      BY <2>2, Sets DEF Collects
    <3>2. c \in Owers(a) /\ Owers(a)' = Owers(a) \ {c}
      BY <1>2, <2>2
    <3>. QED
      BY <2>1, <3>1, <3>2, SettledCollected
  <2>3. CASE a # b
    <3>1. reference_counter'[a] = reference_counter[a]
      BY <2>3, Sets DEF Collects
    <3>. QED
      BY <1>2, <2>1, <2>3, <3>1, SettledStays
  <2>. QED
    BY <2>2, <2>3
<1>. QED
  BY <1>1, <1>2, <1>3 DEF Debts

LEMMA DropsDebts ==
  ASSUME TypeInv, Debts, \A u \in Producers : Quiet(u), NEW c \in Components,
         NEW b \in Slots, Drops(c, b)
  PROVE  Debts'
<1>1. /\ b \in Waiting(c) /\ Waiting(c)' = Waiting(c) \ {b}
      /\ \A d \in Components \ {c} : Waiting(d)' = Waiting(d)
      /\ Once'
  BY TailWaiting DEF Drops, Debts
<1>2. /\ \A a \in Slots : Holders(a)' = Holders(a)
      /\ \A a \in Slots \cap {b} : c \in Owers(a) /\ Owers(a)' = Owers(a) \ {c}
      /\ \A a \in Slots \ {b} : Owers(a)' = Owers(a)
      /\ OneUpdates' /\ Distinct'
  <2>1. {b} \subseteq Waiting(c)
    BY <1>1
  <2>. QED
    BY <1>1, <2>1, Unlisted
<1>3. ASSUME NEW a \in Slots
      PROVE  Settled(a)'
  <2>1. /\ Settled(a) /\ reference_counter'[a] = reference_counter[a]
        /\ Holders(a)' = Holders(a)
    BY <1>2 DEF Drops, Debts
  <2>2. CASE a = b
    <3>1. lost'[a] = lost[a] \cup {<<c, <<c, "receive">>>>}
      BY <2>2, Sets DEF Drops
    <3>2. c \in Owers(a) /\ Owers(a)' = Owers(a) \ {c}
      BY <1>2, <2>2
    <3>. QED
      BY <2>1, <3>1, <3>2, SettledLost
  <2>3. CASE a # b
    <3>1. lost'[a] = lost[a]
      BY <2>3, Sets DEF Drops
    <3>. QED
      BY <1>2, <2>1, <2>3, <3>1, SettledStays
  <2>. QED
    BY <2>2, <2>3
<1>. QED
  BY <1>1, <1>2, <1>3 DEF Debts

LEMMA ClearsDebts ==
  ASSUME TypeInv, Debts, \A u \in Producers : Quiet(u), NEW c \in Components, Clears(c)
  PROVE  Debts'
<1>0. queue \in [Components -> Seq(Pairs)]
  BY DEF TypeInv, TypeOK, QueuesOK
<1>1. queue'[c] = <<>> /\ \A d \in Components \ {c} : queue'[d] = queue[d]
  BY <1>0 DEF Clears
<1>2. DOMAIN queue'[c] = {}
  BY <1>1
<1>3. /\ Waiting(c)' = Waiting(c) \ Waiting(c)
      /\ \A d \in Components \ {c} : Waiting(d)' = Waiting(d)
  BY <1>1, <1>2 DEF Waiting
<1>4. Once'
  BY <1>1, <1>2 DEF Debts, Once
<1>5. /\ \A a \in Slots : Holders(a)' = Holders(a)
      /\ \A a \in Slots \cap Waiting(c) : c \in Owers(a) /\ Owers(a)' = Owers(a) \ {c}
      /\ \A a \in Slots \ Waiting(c) : Owers(a)' = Owers(a)
      /\ OneUpdates' /\ Distinct'
  BY <1>3, Unlisted
<1>6. ASSUME NEW a \in Slots
      PROVE  Settled(a)'
  <2>1. /\ Settled(a) /\ reference_counter'[a] = reference_counter[a]
        /\ Holders(a)' = Holders(a)
    BY <1>5 DEF Clears, Debts
  <2>2. CASE a \in Waiting(c)
    <3>1. lost'[a] = lost[a] \cup {<<c, Main>>}
      BY <2>2 DEF Clears
    <3>. QED
      BY <1>5, <2>1, <2>2, <3>1, SettledLost
  <2>3. CASE a \notin Waiting(c)
    <3>1. lost'[a] = lost[a]
      BY <2>3 DEF Clears
    <3>. QED
      BY <1>5, <2>1, <2>3, <3>1, SettledStays
  <2>. QED
    BY <2>2, <2>3
<1>. QED
  BY <1>4, <1>5, <1>6 DEF Debts

LEMMA DebtsInit == Init => Debts
<1>. SUFFICES ASSUME Init PROVE Debts
  OBVIOUS
<1>1. \A t \in Producers : pc[t] \in {"start", "loop", "none"}
  BY Basics DEF Init
<1>2. \A t \in Producers : \A b : ~ HoldsAlone(t, b) /\ \A c : ~ Gives(t, c, b)
  BY <1>1 DEF HoldsAlone, Gives
<1>3. \A c \in Components : DOMAIN queue[c] = {}
  BY DEF Init
<1>4. \A c \in Components : Waiting(c) = {}
  BY <1>3 DEF Waiting
<1>5. ASSUME NEW b \in Slots
      PROVE  Settled(b)
  <2>1. Holders(b) = {} /\ lost[b] = {} /\ reference_counter[b] = 0
    BY <1>2 DEF Holders, Init
  <2>2. Owers(b) = {}
    BY <1>2, <1>4 DEF Owers, Owes, WillGet, Gives
  <2>3. Cardinality({}) = 0
    BY FS_EmptySet
  <2>. QED
    BY <2>1, <2>2, <2>3 DEF Settled
<1>6. Once
  BY <1>3 DEF Once
<1>. QED
  BY <1>2, <1>5, <1>6 DEF Debts, OneUpdates, Distinct

LEMMA DebtsStep ==
  ASSUME TypeInv, Phases, Debts, [Next]_vars
  PROVE  Debts'
BY Effects, CalmDebts, TakesDebts, ReleasesDebts, SharesDebts, PassesDebts, WastesDebts,
   CollectsDebts, DropsDebts, ClearsDebts

-----------------------------------------------------------------------------
\* Who loses a buffer, and where.

LEMMA CommunicatorStep ==
  ASSUME TypeInv, Phases, [Next]_vars, NEW c \in Components
  PROVE  /\ communicator[c] # "running" => communicator'[c] # "running"
         /\ communicator[c] = "deleted" => communicator'[c] = "deleted"
<1>0. EndpointsOK /\ k \in Components /\ Components \subseteq Nat
  BY Finite DEF TypeInv, TypeOK, LocalsOK
<1>1. CASE ~ (Launch \/ ClearRunning \/ StopCommunicator \/ DeleteCommunicator)
  BY <1>1, PhaseChanges DEF endpoints
<1>2. CASE Launch \/ ClearRunning
  BY <1>2 DEF Launch, ClearRunning
<1>3. CASE StopCommunicator
  <2>1. communicator[k] # "deleted"
    BY <1>0, <1>3 DEF StopCommunicator, Phases
  <2>. QED
    BY <1>0, <1>3, <2>1 DEF StopCommunicator, EndpointsOK
<1>4. CASE DeleteCommunicator
  BY <1>0, <1>4 DEF DeleteCommunicator, EndpointsOK
<1>. QED
  BY <1>1, <1>2, <1>3, <1>4

\* A producer copies the list of observers or is done with some of them.
LEMMA Rests ==
  ASSUME TypeInv, Phases, [Next]_vars, NEW u \in Producers
  PROVE  rest'[u] \subseteq rest[u] \/ rest'[u] \subseteq observers
<1>0. LocalsOK
  BY DEF TypeInv, TypeOK
<1>1. ASSUME NEW place, Done(u, place)
      PROVE  rest'[u] \subseteq rest[u]
  BY <1>0, <1>1 DEF Done, LocalsOK
<1>2. CASE Acts(u)
  <2>1. CASE Alloc(u) \/ Raw(u)
    BY <1>1, <2>1 DEF Alloc, Raw
  <2>2. CASE Notify(u)
    BY <1>0, <1>1, <2>2 DEF Notify, LocalsOK
  <2>3. CASE Update(u)
    BY <1>0, <1>1, <2>3 DEF Update, LocalsOK
  <2>4. CASE u \in Periodic /\ (StartSend(u) \/ End(u))
    BY <2>4 DEF StartSend, End, local
  <2>5. CASE u = Worker /\ (TestRunning \/ Wake \/ PassOn \/ Discard \/ Drained)
    BY <1>1, <2>5 DEF TestRunning, Wake, PassOn, Discard, Drained, local
  <2>6. CASE u = Main /\ \/ SendInterest \/ ClearRunning \/ Tell \/ Join
                         \/ StopCommunicator \/ DeleteCommunicator
                         \/ ClearNic \/ PostNic \/ StopPool \/ JoinWorker
    BY <2>6 DEF SendInterest, ClearRunning, Tell, Join, StopCommunicator,
       DeleteCommunicator, ClearNic, PostNic, StopPool, JoinWorker, MainOnly, local
  <2>. QED
    BY <1>2, <2>1, <2>2, <2>3, <2>4, <2>5, <2>6 DEF Acts
<1>3. CASE \E t \in Producers \ {u} : Acts(t)
  <2>1. Same(u)
    BY <1>3, Locality
  <2>. QED
    BY <2>1 DEF Same
<1>4. CASE ~ \E t \in Producers : Acts(t)
  <2>1. Same(u) \/ Born(u)
    BY <1>4, Births, ActorSteps
  <2>. QED
    BY <2>1 DEF Same, Born
<1>. QED
  BY <1>2, <1>3, <1>4

\* A loss is new only where a component is stopped, and a producer but the main
\* thread loses the buffer it is handing out, to a component that was deleted.
LEMMA Losses ==
  ASSUME TypeInv, Phases, [Next]_vars, NEW a \in Slots, NEW l \in lost'[a], l \notin lost[a]
  PROVE  /\ communicator[l[1]] # "running" \/ communicator'[l[1]] # "running"
         /\ l[2] \in Producers \ {Main} =>
              /\ buf[l[2]] = a /\ Sheds(l[2], l[1])
              /\ l[1] \in Components /\ communicator[l[1]] = "deleted"
<1>0. DOMAIN lost = Slots
  BY DEF TypeInv, TypeOK, PoolOK
<1>1. lost' # lost
  OBVIOUS
<1>2. ASSUME NEW t \in Producers, NEW b \in Slots, NEW c \in Components, Wastes(t, c, b)
      PROVE  l = <<c, t>> /\ buf[t] = a /\ Sheds(t, c) /\ communicator[c] = "deleted"
  BY <1>0, <1>2 DEF Wastes
<1>3. ASSUME NEW b \in Slots, NEW c \in Components, Drops(c, b)
      PROVE  /\ l = <<c, <<c, "receive">>>> /\ communicator[c] # "running"
             /\ <<c, "receive">> \notin Producers
  BY <1>0, <1>3, Basics DEF Drops
<1>4. ASSUME NEW c \in Components, Clears(c)
      PROVE  l = <<c, Main>> /\ communicator'[c] = "deleted"
  BY <1>0, <1>4 DEF Clears
<1>5. \/ \E t \in Producers, b \in Slots, c \in Components : Wastes(t, c, b)
      \/ \E b \in Slots, c \in Components : Drops(c, b)
      \/ \E c \in Components : Clears(c)
  BY <1>1, Effects DEF Calm, Takes, Releases, Shares, Passes, Collects
<1>6. CASE \E t \in Producers, b \in Slots, c \in Components : Wastes(t, c, b)
  <2>1. PICK t \in Producers, b \in Slots, c \in Components : Wastes(t, c, b)
    BY <1>6
  <2>2. l = <<c, t>> /\ buf[t] = a /\ Sheds(t, c) /\ communicator[c] = "deleted"
    BY <1>2, <2>1
  <2>3. l[1] = c /\ l[2] = t
    BY <2>2
  <2>. QED
    BY <2>2, <2>3
<1>7. CASE \E b \in Slots, c \in Components : Drops(c, b)
  <2>1. PICK b \in Slots, c \in Components : Drops(c, b)
    BY <1>7
  <2>2. /\ l = <<c, <<c, "receive">>>> /\ communicator[c] # "running"
        /\ <<c, "receive">> \notin Producers
    BY <1>3, <2>1
  <2>3. l[1] = c /\ l[2] = <<c, "receive">>
    BY <2>2
  <2>. QED
    BY <2>2, <2>3
<1>8. CASE \E c \in Components : Clears(c)
  <2>1. PICK c \in Components : Clears(c)
    BY <1>8
  <2>2. l[1] = c /\ l[2] = Main
    BY <1>4, <2>1
  <2>. QED
    BY <1>4, <2>1, <2>2
<1>. QED
  BY <1>5, <1>6, <1>7, <1>8

LEMMA StoppedStep ==
  ASSUME TypeInv, Phases, Stopped, [Next]_vars
  PROVE  Stopped'
<1>1. SUFFICES ASSUME NEW b \in Slots, NEW l \in lost'[b]
      PROVE  communicator'[l[1]] # "running"
  BY DEF Stopped
<1>2. PoolOK'
  BY PoolTypes
<1>3. l[1] \in Components
  BY <1>2 DEF PoolOK
<1>4. communicator[l[1]] # "running" \/ communicator'[l[1]] # "running"
  BY Losses DEF Stopped
<1>. QED
  BY <1>3, <1>4, CommunicatorStep

LEMMA LateStep ==
  ASSUME TypeInv, Phases, Late, [Next]_vars
  PROVE  Late'
<1>1. SUFFICES ASSUME NEW t \in Producers \ {Main}, NEW c \in Components, NEW b \in Slots,
                      <<c, t>> \in lost'[b]
      PROVE  /\ communicator'[c] = "deleted" /\ c \notin rest'[t]
             /\ \A a \in Slots : <<c, t>> \in lost'[a] => a = b
  BY DEF Late
<1>2. \A a \in Slots : <<c, t>> \in lost'[a] /\ <<c, t>> \notin lost[a] =>
        buf[t] = a /\ Sheds(t, c) /\ communicator[c] = "deleted"
  BY Losses
<1>3. communicator[c] = "deleted"
  BY <1>1, <1>2 DEF Late
<1>4. communicator'[c] = "deleted"
  BY <1>3, CommunicatorStep
<1>5. c \notin observers
  BY <1>3 DEF Phases
<1>6. c \notin rest'[t]
  <2>1. CASE <<c, t>> \in lost[b]
    BY <1>5, <2>1, Rests DEF Late
  <2>2. CASE <<c, t>> \notin lost[b]
    BY <1>1, <1>2, <2>2 DEF Sheds
  <2>. QED
    BY <2>1, <2>2
<1>7. ASSUME NEW a \in Slots, <<c, t>> \in lost'[a]
      PROVE  a = b
  <2>1. CASE <<c, t>> \in lost[a] /\ <<c, t>> \in lost[b]
    BY <2>1 DEF Late
  <2>2. CASE <<c, t>> \notin lost[a] /\ <<c, t>> \notin lost[b]
    BY <1>1, <1>2, <1>7, <2>2
  <2>3. ASSUME NEW d \in Slots, NEW e \in Slots, <<c, t>> \in lost[d],
               <<c, t>> \in lost'[e], <<c, t>> \notin lost[e]
        PROVE  FALSE
    <3>1. c \in rest[t]
      BY <1>2, <2>3 DEF Sheds
    <3>. QED
      BY <2>3, <3>1 DEF Late
  <2>. QED
    BY <1>1, <1>7, <2>1, <2>2, <2>3
<1>. QED
  BY <1>4, <1>6, <1>7

-----------------------------------------------------------------------------
LEMMA LifeInvariant == Spec => []LifeInv
<1>1. Init => LifeInv
  <2>1. Init => Stopped /\ Late
    BY DEF Init, Stopped, Late
  <2>. QED
    BY <2>1, TypeInit, PhasesInit, DebtsInit DEF LifeInv
<1>2. LifeInv /\ [Next]_vars => LifeInv'
  BY TypeStep, PhasesStep, DebtsStep, StoppedStep, LateStep DEF LifeInv
<1>. QED
  BY <1>1, <1>2, PTL DEF Spec

(***************************************************************************)
(* For any components, interests and buffers, and wherever start and stop  *)
(* are: the counter of a buffer is the number of frees to come and of      *)
(* those lost, and one is lost only at a component that is being stopped   *)
(* (notify, Communicator::receive, ~Communicator).                         *)
(***************************************************************************)
THEOREM EveryFreeIsDue == Spec => []ClaimsAddUp
<1>1. LifeInv => ClaimsAddUp
  <2>1. SUFFICES ASSUME LifeInv, NEW b \in Slots
        PROVE  /\ reference_counter[b] = Claims(b) + Cardinality(lost[b])
               /\ \A l \in lost[b] : ~ running[l[1]] /\ communicator[l[1]] # "running"
    BY DEF ClaimsAddUp
  <2>2. Claims(b) = Cardinality(Holders(b)) + Cardinality(Owers(b))
    BY DEF Claims, Holders, Owers
  <2>3. reference_counter[b] = Claims(b) + Cardinality(lost[b])
    BY <2>1, <2>2 DEF LifeInv, Debts, Settled
  <2>4. lost[b] \subseteq Components \X Threads
    BY <2>1 DEF LifeInv, TypeInv, TypeOK, PoolOK
  <2>5. ASSUME NEW l \in lost[b]
        PROVE  ~ running[l[1]] /\ communicator[l[1]] # "running"
    BY <2>1, <2>4, <2>5 DEF LifeInv, Stopped, Phases
  <2>. QED
    BY <2>3, <2>5
<1>. QED
  BY <1>1, LifeInvariant, PTL

(***************************************************************************)
(* No thread writes to a deleted communicator twice: it knows it from one  *)
(* copy of the observers at most, made before detach (notify, detach).     *)
(***************************************************************************)
THEOREM LateAtMostOnce == Spec => []LateOnce
<1>1. LifeInv => LateOnce
  <2>1. SUFFICES ASSUME LifeInv, NEW t \in Producers \ {Main}, NEW c \in Components
        PROVE  Cardinality({b \in Slots : <<c, t>> \in lost[b]}) <= 1
    BY DEF LateOnce
  <2>2. CASE {b \in Slots : <<c, t>> \in lost[b]} = {}
    <3>1. Cardinality({}) = 0 /\ 0 <= 1
      BY FS_EmptySet
    <3>. QED
      BY <2>2, <3>1
  <2>3. ASSUME NEW b \in Slots, <<c, t>> \in lost[b]
        PROVE  Cardinality({a \in Slots : <<c, t>> \in lost[a]}) <= 1
    <3>1. {a \in Slots : <<c, t>> \in lost[a]} = {b}
      BY <2>1, <2>3 DEF LifeInv, Late
    <3>. QED
      BY <3>1, FS_Singleton
  <2>. QED
    BY <2>2, <2>3
<1>. QED
  BY <1>1, LifeInvariant, PTL

-----------------------------------------------------------------------------
\* Who waits for whom.

NicPlaces  == {"flag", "post", "pool", "worker", "gone"}
StopPlaces == {"clear", "tell", "join", "receiver"}

\* A receive thread that waits has a token for every pair in its list, and one more
\* when its communicator is stopped.
Tokens ==
  \A c \in Components :
    /\ semaphore[c] >= Len(queue[c])
    /\ communicator[c] # "running" /\ pc[<<c, "receive">>] = "wait" =>
         semaphore[c] > Len(queue[c])

\* What the main thread has done to the components it is through with.
Course ==
  /\ \A c \in Components :
       /\ pc[Main] \in NicPlaces \/ (pc[Main] \in StopPlaces /\ c < k) =>
            communicator[c] # "running"
       /\ pc[Main] \notin StartPlaces \/ c < k => pc[<<c, "receive">>] # "none"
  /\ pc[Main] = "receiver" => communicator[k] # "running"
  /\ pc[Main] \in StartPlaces => told = {}

\* A thread that was told to end has been joined, unless main is just joining it,
\* and a component whose communicator is stopped has no periodic threads.
Ends ==
  /\ \A t \in told : pc[t] # "none" /\ (pc[Main] # "join" => pc[t] = "exit")
  /\ \A t \in Periodic : communicator[t[1]] # "running" => pc[t] \in {"none", "exit"}

\* The token for a worker that waits when the NIC is cleaned up.
NicToken ==
  /\ pc[Main] \in {"post", "pool", "worker", "gone"} => ~ nic_running
  /\ pc[Main] \in {"pool", "worker"} /\ pc[Worker] = "wait" => sem > 0

\* Every free slot has its token, and stop has left one more, which only the worker
\* can take.
FreeSlots == {b \in Slots : reference_counter[b] = 0}
Extra == IF pc[Main] = "worker" /\ pc[Worker] \in ProducerPlaces \cup {"recv"} THEN 1 ELSE 0
Enough == free_buffers >= Cardinality(FreeSlots) + Extra

WaitInv == Tokens /\ Course /\ Ends /\ NicToken /\ Enough

LEMMA WaitInit == Init => WaitInv
<1>. SUFFICES ASSUME Init PROVE WaitInv
  OBVIOUS
<1>0. /\ Main \in Threads /\ pc[Main] = "start" /\ told = {} /\ k = 1
      /\ \A t \in Periodic : pc[t] = "none"
  BY Basics DEF Init
<1>1. Tokens
  <2>1. \A c \in Components :
          queue[c] = <<>> /\ semaphore[c] = 0 /\ communicator[c] = "running"
    BY DEF Init
  <2>. QED
    BY <2>1, EmptySeq DEF Tokens
<1>2. Course
  <2>1. \A c \in Components : ~ c < k
    BY <1>0, LifecycleAssumption DEF Components
  <2>2. \A c \in Components : communicator[c] = "running"
    BY DEF Init
  <2>. QED
    BY <1>0, <2>1, <2>2 DEF Course, NicPlaces, StopPlaces, StartPlaces
<1>3. Ends /\ NicToken
  BY <1>0 DEF Ends, NicToken
<1>4. Enough
  <2>1. FreeSlots = Slots /\ free_buffers = SIZE /\ Extra = 0
    BY <1>0 DEF Init, FreeSlots, Extra
  <2>2. Cardinality(Slots) = SIZE /\ SIZE \in Nat
    BY FS_Interval, LifecycleAssumption DEF Slots
  <2>. QED
    BY <2>1, <2>2 DEF Enough
<1>. QED
  BY <1>1, <1>2, <1>3, <1>4 DEF WaitInv

\* A component that does not run any more gets no new thread.
LEMMA HandlesOwn ==
  ASSUME TypeInv, NEW c \in Components, Handle(c)
  PROVE  \A u \in Threads \ {<<c, "receive">>} :
           pc'[u] = pc[u] \/ (running[c] /\ u[1] = c /\ pc[u] = "none" /\ u \in Periodic)
<1>1. DOMAIN pc = Threads
  BY DEF TypeInv, TypeOK, PlacesOK
<1>2. \A u \in Threads \ {<<c, "receive">>} :
        pc'[u] = pc[u] \/ (u \in Periodic /\ pc[u] = "none")
  BY Handles
<1>3. \/ running[c] /\ pc' = [pc EXCEPT ![<<c, "receive">>] = "loop", ![<<c, got[c]>>] = "loop"]
      \/ \E place : pc' = [pc EXCEPT ![<<c, "receive">>] = place]
  BY DEF Handle, Goto
<1>. QED
  BY <1>1, <1>2, <1>3

\* A receive thread waits only while its component runs, and is created once.
LEMMA ReceiverMoves ==
  ASSUME TypeInv, [Next]_vars, NEW c \in Components
  PROVE  /\ pc'[<<c, "receive">>] = "wait" => pc[<<c, "receive">>] = "wait" \/ running[c]
         /\ pc'[<<c, "receive">>] = "none" => pc[<<c, "receive">>] = "none"
<1>0. /\ DOMAIN pc = Threads /\ <<c, "receive">> \in Threads
      /\ \A t \in Producers : t # <<c, "receive">>
  BY Basics DEF TypeInv, TypeOK, PlacesOK
<1>1. ASSUME NEW t \in Producers, Acts(t)
      PROVE  pc'[<<c, "receive">>] = pc[<<c, "receive">>]
  BY <1>0, <1>1, Locality
<1>2. ASSUME NEW d \in Components, Loop(d) \/ GiveUp(d) \/ Receive(d)
      PROVE  /\ pc'[<<c, "receive">>] = "wait" => pc[<<c, "receive">>] = "wait" \/ running[c]
             /\ pc'[<<c, "receive">>] # "none" \/ pc[<<c, "receive">>] = "none"
  <2>1. PICK place : /\ Goto(<<d, "receive">>, place) /\ place # "none"
                     /\ place = "wait" => running[d]
    BY <1>2 DEF Loop, GiveUp, Receive
  <2>. QED
    BY <1>0, <2>1, Basics DEF Goto
<1>3. ASSUME NEW d \in Components, Handle(d)
      PROVE  \/ pc'[<<c, "receive">>] = pc[<<c, "receive">>]
             \/ pc'[<<c, "receive">>] \in {"loop", "exit"}
  BY <1>0, <1>3, Handles, Basics
<1>4. CASE Launch
  BY <1>0, <1>4 DEF Launch
<1>5. CASE Arrive \/ UNCHANGED vars
  BY <1>5 DEF Arrive, vars
<1>. QED
  BY <1>1, <1>2, <1>3, <1>4, <1>5, ActorSteps

\* What a step does to the list of a component and to its semaphore.
LEMMA TokenChanges ==
  ASSUME TypeInv, [Next]_vars, NEW c \in Components
  PROVE  \/ /\ semaphore'[c] = semaphore[c] /\ queue'[c] = queue[c]
            /\ communicator'[c] # "running" => communicator[c] # "running"
         \/ /\ semaphore'[c] = semaphore[c] + 1 /\ communicator'[c] = communicator[c]
            /\ \E p \in Pairs : queue'[c] = Append(queue[c], p)
         \/ /\ semaphore[c] > 0 /\ semaphore'[c] = semaphore[c] - 1
            /\ communicator'[c] = communicator[c] /\ pc'[<<c, "receive">>] # "wait"
            /\ \/ queue[c] # <<>> /\ queue'[c] = Tail(queue[c])
               \/ queue[c] = <<>> /\ queue'[c] = <<>>
         \/ semaphore'[c] = semaphore[c] + 1 /\ queue'[c] = queue[c]
         \/ /\ pc[<<c, "receive">>] = "exit" /\ pc'[<<c, "receive">>] = "exit"
            /\ semaphore'[c] = semaphore[c] /\ queue'[c] = <<>>
<1>0. /\ QueuesOK /\ EndpointsOK /\ DOMAIN pc = Threads /\ k \in Components
      /\ \A d \in Components : <<d, "receive">> \in Threads /\ Main # <<d, "receive">>
  BY Basics DEF TypeInv, TypeOK, PlacesOK, LocalsOK
<1>1. ASSUME NEW t \in Producers, Update(t)
      PROVE  \/ semaphore'[c] = semaphore[c] /\ queue'[c] = queue[c] /\ communicator' = communicator
             \/ /\ semaphore'[c] = semaphore[c] + 1 /\ communicator' = communicator
                /\ \E p \in Pairs : queue'[c] = Append(queue[c], p)
  <2>1. communicator' = communicator
    BY <1>1 DEF Update, endpoints
  <2>2. PICK d \in Components, p \in Pairs :
          \/ /\ queue' = [queue EXCEPT ![d] = Append(@, p)]
             /\ semaphore' = [semaphore EXCEPT ![d] = @ + 1]
          \/ UNCHANGED <<queue, semaphore>>
    BY <1>1, Updates DEF queues
  <2>. QED
    BY <1>0, <2>1, <2>2 DEF QueuesOK
<1>2. ASSUME NEW d \in Components, GiveUp(d) \/ Receive(d), d # c
      PROVE  semaphore'[c] = semaphore[c] /\ queue'[c] = queue[c] /\ communicator' = communicator
  BY <1>0, <1>2 DEF GiveUp, Receive, Take, QueuesOK, endpoints
<1>3. CASE GiveUp(c) \/ Receive(c)
  <2>0. Take(c) /\ communicator' = communicator
    BY <1>3 DEF GiveUp, Receive, endpoints
  <2>1. /\ semaphore[c] > 0 /\ semaphore'[c] = semaphore[c] - 1
    BY <1>0, <2>0 DEF Take, QueuesOK
  <2>3. DOMAIN queue = Components
    BY <1>0 DEF QueuesOK
  <2>4. \/ queue[c] # <<>> /\ queue'[c] = Tail(queue[c])
        \/ queue[c] = <<>> /\ queue'[c] = <<>>
    BY <2>0, <2>3 DEF Take
  <2>2. pc'[<<c, "receive">>] # "wait"
    BY <1>0, <1>3 DEF GiveUp, Receive, Goto
  <2>. QED
    BY <2>0, <2>1, <2>2, <2>4
<1>4. CASE StopCommunicator
  BY <1>0, <1>4 DEF StopCommunicator, QueuesOK, EndpointsOK
<1>5. CASE DeleteCommunicator
  <2>1. pc[<<k, "receive">>] = "exit" /\ pc'[<<k, "receive">>] = "exit"
    BY <1>0, <1>5 DEF DeleteCommunicator, Goto
  <2>2. CASE c = k
    BY <1>0, <1>5, <2>1, <2>2 DEF DeleteCommunicator, QueuesOK
  <2>3. CASE c # k
    BY <1>0, <1>5, <2>3 DEF DeleteCommunicator, QueuesOK, EndpointsOK
  <2>. QED
    BY <2>2, <2>3
<1>6. CASE \/ \E t \in Producers : Alloc(t) \/ Raw(t) \/ Notify(t)
           \/ \E t \in Periodic : StartSend(t) \/ End(t)
           \/ \E d \in Components : Loop(d) \/ Handle(d)
  BY <1>6 DEF Alloc, Raw, Notify, StartSend, End, Loop, Handle, queues, endpoints
<1>7. CASE \/ TestRunning \/ Wake \/ PassOn \/ Discard \/ Drained \/ Arrive
           \/ UNCHANGED vars
  BY <1>7
  DEF TestRunning, Wake, PassOn, Discard, Drained, Arrive, vars, queues, endpoints
<1>8. CASE \/ SendInterest \/ Launch \/ ClearRunning \/ Tell \/ Join
           \/ ClearNic \/ PostNic \/ StopPool \/ JoinWorker
  BY <1>8
  DEF SendInterest, Launch, ClearRunning, Tell, Join, ClearNic, PostNic, StopPool,
      JoinWorker, MainOnly, queues, endpoints
<1>. QED
  BY <1>1, <1>2, <1>3, <1>4, <1>5, <1>6, <1>7, <1>8, Steps

LEMMA TokensStep ==
  ASSUME TypeInv, Phases, Tokens, [Next]_vars
  PROVE  Tokens'
<1>1. SUFFICES ASSUME NEW c \in Components
      PROVE  /\ semaphore'[c] >= Len(queue'[c])
             /\ communicator'[c] # "running" /\ pc'[<<c, "receive">>] = "wait" =>
                  semaphore'[c] > Len(queue'[c])
  BY DEF Tokens
<1>2. semaphore[c] \in Nat /\ queue[c] \in Seq(Pairs) /\ Len(queue[c]) \in Nat
  BY LenProperties DEF TypeInv, TypeOK, QueuesOK
<1>3. /\ semaphore[c] >= Len(queue[c])
      /\ communicator[c] # "running" /\ pc'[<<c, "receive">>] = "wait" =>
           semaphore[c] > Len(queue[c])
  BY ReceiverMoves DEF Tokens, Phases
<1>4. ASSUME NEW p \in Pairs
      PROVE  Len(Append(queue[c], p)) = Len(queue[c]) + 1
  BY <1>2, AppendProperties
<1>5. queue[c] # <<>> => Len(Tail(queue[c])) = Len(queue[c]) - 1
  BY <1>2, HeadTailProperties
<1>6. Len(<<>>) = 0
  BY EmptySeq
<1>7. CASE /\ semaphore'[c] = semaphore[c] + 1 /\ communicator'[c] = communicator[c]
           /\ \E p \in Pairs : queue'[c] = Append(queue[c], p)
  <2>1. Len(queue'[c]) = Len(queue[c]) + 1
    BY <1>4, <1>7
  <2>. QED
    BY <1>2, <1>3, <1>7, <2>1
<1>8. CASE semaphore'[c] = semaphore[c] + 1 /\ queue'[c] = queue[c]
  <2>1. Len(queue'[c]) = Len(queue[c])
    BY <1>8
  <2>. QED
    BY <1>2, <1>3, <1>8, <2>1
<1>9. CASE /\ semaphore[c] > 0 /\ semaphore'[c] = semaphore[c] - 1
           /\ communicator'[c] = communicator[c] /\ pc'[<<c, "receive">>] # "wait"
           /\ \/ queue[c] # <<>> /\ queue'[c] = Tail(queue[c])
              \/ queue[c] = <<>> /\ queue'[c] = <<>>
  <2>1. Len(queue'[c]) = Len(queue[c]) - 1 \/ Len(queue'[c]) = 0
    <3>1. CASE queue[c] # <<>> /\ queue'[c] = Tail(queue[c])
      BY <1>5, <3>1
    <3>2. CASE queue'[c] = <<>>
      BY <1>6, <3>2
    <3>. QED
      BY <1>9, <3>1, <3>2
  <2>. QED
    BY <1>2, <1>3, <1>9, <2>1
<1>10. CASE /\ semaphore'[c] = semaphore[c] /\ queue'[c] = queue[c]
            /\ communicator'[c] # "running" => communicator[c] # "running"
  BY <1>3, <1>10
<1>11. CASE /\ pc[<<c, "receive">>] = "exit" /\ pc'[<<c, "receive">>] = "exit"
            /\ semaphore'[c] = semaphore[c] /\ queue'[c] = <<>>
  BY <1>2, <1>6, <1>11
<1>. QED
  BY <1>7, <1>8, <1>9, <1>10, <1>11, TokenChanges

\* Only the main thread moves itself, ...
LEMMA MainStays ==
  ASSUME TypeInv, [Next]_vars, ~ Acts(Main), ~ Launch
  PROVE  pc'[Main] = pc[Main]
<1>0. DOMAIN pc = Threads /\ Main \in Threads /\ Main \in Producers /\ Main \notin Periodic
  BY Basics DEF TypeInv, TypeOK, PlacesOK
<1>1. ASSUME NEW t \in Producers, Acts(t)
      PROVE  pc'[Main] = pc[Main]
  BY <1>0, <1>1, Locality
<1>2. ASSUME NEW c \in Components, Loop(c) \/ GiveUp(c) \/ Receive(c)
      PROVE  pc'[Main] = pc[Main]
  <2>1. PICK place : Goto(<<c, "receive">>, place)
    BY <1>2 DEF Loop, GiveUp, Receive
  <2>. QED
    BY <1>0, <2>1, Basics DEF Goto
<1>3. ASSUME NEW c \in Components, Handle(c)
      PROVE  pc'[Main] = pc[Main]
  BY <1>0, <1>3, Handles, Basics
<1>4. CASE Arrive \/ UNCHANGED vars
  BY <1>4 DEF Arrive, vars
<1>. QED
  BY <1>1, <1>2, <1>3, <1>4, ActorSteps

\* ... and comes to the clean-up of the NIC and to a receive thread in these steps.
LEMMA MainMoves ==
  ASSUME TypeInv, [Next]_vars, pc'[Main] # pc[Main]
  PROVE  /\ pc'[Main] = "post" => ClearNic /\ pc[Main] = "flag"
         /\ pc'[Main] = "pool" => PostNic /\ pc[Main] = "post"
         /\ pc'[Main] = "worker" => StopPool /\ pc[Main] = "pool"
         /\ pc'[Main] = "gone" => JoinWorker /\ pc[Main] = "worker"
         /\ pc'[Main] = "flag" => DeleteCommunicator
         /\ pc'[Main] = "receiver" => StopCommunicator
         /\ pc[Main] = "join" => Join
<1>0. DOMAIN pc = Threads /\ Main \in Threads /\ Main \notin Periodic /\ Main # Worker
  BY Basics DEF TypeInv, TypeOK, PlacesOK
<1>1. CASE Launch
  BY <1>0, <1>1 DEF Launch
<1>2. CASE Alloc(Main) \/ Raw(Main) \/ Notify(Main) \/ Update(Main)
  <2>1. pc[Main] \in ProducerPlaces
    BY <1>2 DEF Alloc, Raw, Notify, Update, ProducerPlaces
  <2>2. PICK place : /\ Goto(Main, place) \/ (place = pc[Main] /\ pc' = pc)
                     /\ place \in ProducerPlaces \/ place = Home(Main)
    BY <1>0, <1>2, <2>1 DEF Alloc, Raw, Notify, Update, Done, ProducerPlaces
  <2>. QED
    BY <1>0, <2>1, <2>2 DEF Goto, Home, ProducerPlaces
<1>3. CASE \/ SendInterest \/ ClearRunning \/ Tell \/ Join
           \/ StopCommunicator \/ DeleteCommunicator
           \/ ClearNic \/ PostNic \/ StopPool \/ JoinWorker
  BY <1>0, <1>3
  DEF SendInterest, ClearRunning, Tell, Join, StopCommunicator, DeleteCommunicator,
      ClearNic, PostNic, StopPool, JoinWorker, Goto
<1>. QED
  BY <1>0, <1>1, <1>2, <1>3, MainStays DEF Acts

\* A periodic thread that has ended stays so, and none is created that nobody runs.
LEMMA PeriodicMoves ==
  ASSUME TypeInv, [Next]_vars, NEW t \in Periodic, ~ Launch
  PROVE  /\ pc[t] = "exit" => pc'[t] = "exit"
         /\ pc[t] # "none" => pc'[t] # "none"
         /\ pc[t] = "none" => pc'[t] = "none" \/ running[t[1]]
<1>0. /\ DOMAIN pc = Threads /\ t \in Threads /\ t \in Producers /\ t \notin Receivers
      /\ t # Main /\ t # Worker /\ pc[t] \in PeriodicPlaces
  BY Basics DEF TypeInv, TypeOK, PlacesOK
<1>1. CASE Acts(t)
  <2>1. pc[t] \notin {"exit", "none"}
    BY <1>0, <1>1 DEF Acts, Alloc, Raw, Notify, Update, StartSend, End
  <2>2. pc'[t] # "none"
    BY <1>0, <1>1, <2>1, ActsMoves DEF Goto, Home, ProducerPlaces
  <2>. QED
    BY <2>1, <2>2
<1>2. ASSUME NEW u \in Producers \ {t}, Acts(u)
      PROVE  pc'[t] = pc[t]
  BY <1>0, <1>2, Locality
<1>3. ASSUME NEW c \in Components, Loop(c) \/ GiveUp(c) \/ Receive(c)
      PROVE  pc'[t] = pc[t]
  <2>1. PICK place : Goto(<<c, "receive">>, place)
    BY <1>3 DEF Loop, GiveUp, Receive
  <2>. QED
    BY <1>0, <2>1, Basics DEF Goto
<1>4. ASSUME NEW c \in Components, Handle(c)
      PROVE  /\ pc'[t] = pc[t] \/ (pc[t] = "none" /\ running[t[1]])
             /\ pc[t] # "none" => pc'[t] # "none"
  BY <1>0, <1>4, HandlesOwn, Basics
<1>5. CASE Arrive \/ UNCHANGED vars
  BY <1>5 DEF Arrive, vars
<1>. QED
  BY <1>1, <1>2, <1>3, <1>4, <1>5, ActorSteps

LEMMA ToldStays ==
  ASSUME [Next]_vars, ~ Tell
  PROVE  told' = told
<1>1. CASE \/ \E t \in Producers : Alloc(t) \/ Raw(t) \/ Notify(t) \/ Update(t)
           \/ \E t \in Periodic : StartSend(t) \/ End(t)
           \/ \E c \in Components : Loop(c) \/ GiveUp(c) \/ Receive(c) \/ Handle(c)
  BY <1>1 DEF Alloc, Raw, Notify, Update, StartSend, End, Loop, GiveUp, Receive, Handle, threads
<1>2. CASE \/ TestRunning \/ Wake \/ PassOn \/ Discard \/ Drained \/ Arrive
           \/ SendInterest \/ Launch \/ ClearRunning \/ UNCHANGED vars
  BY <1>2
  DEF TestRunning, Wake, PassOn, Discard, Drained, Arrive, SendInterest, Launch,
      ClearRunning, MainOnly, vars, threads
<1>3. CASE \/ Join \/ StopCommunicator \/ DeleteCommunicator
           \/ ClearNic \/ PostNic \/ StopPool \/ JoinWorker
  BY <1>3
  DEF Join, StopCommunicator, DeleteCommunicator, ClearNic, PostNic, StopPool, JoinWorker,
      MainOnly, threads
<1>. QED
  BY <1>1, <1>2, <1>3, Steps

LEMMA CourseStep ==
  ASSUME TypeInv, Phases, Course, [Next]_vars
  PROVE  Course'
<1>0. /\ DOMAIN pc = Threads /\ Main \in Threads /\ k \in Components
      /\ Components \subseteq Nat /\ NumComponents \in Nat
      /\ \A c \in Components : c <= NumComponents /\ c >= 1
      /\ \A c \in Components : <<c, "receive">> \in Threads /\ Main # <<c, "receive">>
  BY Basics, Finite, LifecycleAssumption
  DEF TypeInv, TypeOK, PlacesOK, LocalsOK, Components
<1>01. \A c \in Components :
         /\ communicator[c] # "running" => communicator'[c] # "running"
         /\ pc[<<c, "receive">>] # "none" => pc'[<<c, "receive">>] # "none"
  BY CommunicatorStep, ReceiverMoves
<1>1. CASE ~ (Launch \/ ClearRunning \/ StopCommunicator \/ DeleteCommunicator)
  <2>1. /\ k' = k
        /\ \/ pc'[Main] = pc[Main]
           \/ pc[Main] \in StartPlaces /\ pc'[Main] \in StartPlaces
           \/ pc[Main] \in {"tell", "join"} /\ pc'[Main] \in {"tell", "join"}
           \/ /\ pc'[Main] \in {"post", "pool", "worker", "gone"}
              /\ pc[Main] \in NicPlaces
    BY <1>1, PhaseChanges, MainMoves DEF NicPlaces
  <2>2. told' = told \/ pc[Main] \notin StartPlaces
    BY ToldStays DEF Tell, StartPlaces, ProducerPlaces
  <2>3. /\ pc'[Main] \in NicPlaces => pc[Main] \in NicPlaces
        /\ pc'[Main] \in StopPlaces => pc[Main] \in StopPlaces
        /\ pc'[Main] \notin StartPlaces => pc[Main] \notin StartPlaces
        /\ pc'[Main] = "receiver" => pc[Main] = "receiver"
        /\ pc'[Main] \in StartPlaces => pc[Main] \in StartPlaces
    BY <2>1 DEF NicPlaces, StopPlaces, StartPlaces, ProducerPlaces
  <2>. QED
    BY <1>0, <1>01, <2>1, <2>2, <2>3 DEF Course
<1>2. CASE Launch
  <2>1. /\ pc[Main] = "start" /\ told' = told /\ pc'[<<k, "receive">>] = "loop"
        /\ \/ k = NumComponents /\ k' = 1 /\ pc'[Main] = "clear"
           \/ k # NumComponents /\ k' = k + 1 /\ pc'[Main] = "start"
    BY <1>0, <1>2 DEF Launch, threads
  <2>2. told' = {}
    BY <2>1 DEF Course, StartPlaces
  <2>3. \A c \in Components : c \in Nat /\ ~ c < 1
    BY DEF Components
  <2>4. \A c \in Components :
          c < k' \/ pc'[Main] # "start" => pc'[<<c, "receive">>] # "none"
    <3>1. SUFFICES ASSUME NEW c \in Components, c < k' \/ pc'[Main] # "start"
          PROVE  pc'[<<c, "receive">>] # "none"
      OBVIOUS
    <3>2. c < k \/ c = k
      <4>1. c \in Nat /\ k \in Nat /\ c <= NumComponents /\ ~ c < 1
        BY <1>0, <2>3
      <4>. QED
        BY <1>0, <2>1, <3>1, <4>1
    <3>. QED
      BY <1>01, <2>1, <3>2 DEF Course
  <2>. QED
    BY <2>1, <2>2, <2>3, <2>4 DEF Course, NicPlaces, StopPlaces, StartPlaces, ProducerPlaces
<1>3. CASE ClearRunning
  <2>1. pc[Main] = "clear" /\ pc'[Main] = "tell" /\ k' = k
    BY <1>0, <1>3 DEF ClearRunning, Goto, main
  <2>. QED
    BY <1>01, <2>1 DEF Course, NicPlaces, StopPlaces, StartPlaces, ProducerPlaces
<1>4. CASE StopCommunicator
  <2>1. pc[Main] = "tell" /\ pc'[Main] = "receiver" /\ k' = k
    BY <1>0, <1>4 DEF StopCommunicator, Goto, main
  <2>2. communicator'[k] # "running"
    BY <1>0, <1>4 DEF StopCommunicator, TypeInv, TypeOK, EndpointsOK
  <2>. QED
    BY <1>01, <2>1, <2>2 DEF Course, NicPlaces, StopPlaces, StartPlaces, ProducerPlaces
<1>5. CASE DeleteCommunicator
  <2>1. /\ pc[Main] = "receiver"
        /\ \/ k = NumComponents /\ k' = k /\ pc'[Main] = "flag"
           \/ k # NumComponents /\ k' = k + 1 /\ pc'[Main] = "clear"
    BY <1>0, <1>5 DEF DeleteCommunicator, Goto
  <2>2. communicator[k] # "running"
    BY <2>1 DEF Course
  <2>3. \A c \in Components :
          c < k' \/ pc'[Main] = "flag" => communicator'[c] # "running"
    <3>1. SUFFICES ASSUME NEW c \in Components, c < k' \/ pc'[Main] = "flag"
          PROVE  communicator'[c] # "running"
      OBVIOUS
    <3>2. c < k \/ c = k
      BY <1>0, <2>1, <3>1
    <3>. QED
      BY <1>01, <2>1, <2>2, <3>2 DEF Course, StopPlaces
  <2>. QED
    BY <1>01, <2>1, <2>3 DEF Course, NicPlaces, StopPlaces, StartPlaces, ProducerPlaces
<1>. QED
  BY <1>1, <1>2, <1>3, <1>4, <1>5

\* The periodic threads of a component.
LEMMA PeriodicKinds ==
  ASSUME NEW t \in Periodic
  PROVE  t[1] \in Components /\ \E i \in 1 .. 3 : t = <<t[1], Kinds[i]>>
<1>1. /\ Kinds[1] = "interest" /\ Kinds[2] = "internal" /\ Kinds[3] = "external"
      /\ 2 .. 3 = {2, 3} /\ 1 .. 3 = {1, 2, 3}
  BY DEF Kinds
<1>2. \E c \in Components, i \in 1 .. 3 : t = <<c, Kinds[i]>>
  BY <1>1, LifecycleAssumption DEF Periodic
<1>. QED
  BY <1>2

LEMMA EndsStep ==
  ASSUME TypeInv, Phases, Course, Ends, [Next]_vars
  PROVE  Ends'
<1>0. /\ DOMAIN pc = Threads /\ Main \in Threads /\ k \in Components /\ EndpointsOK
      /\ told \subseteq Periodic
      /\ \A t \in Periodic : t \in Threads /\ t # Main /\ t[1] \in Components
  BY Basics, PeriodicKinds DEF TypeInv, TypeOK, PlacesOK, LocalsOK
<1>1. ASSUME NEW t \in told'
      PROVE  pc'[t] # "none" /\ (pc'[Main] # "join" => pc'[t] = "exit")
  <2>1. CASE Tell
    <3>1. /\ pc' = [pc EXCEPT ![Main] = "join"]
          /\ t \in told \/ (t \in Periodic /\ pc[t] # "none")
      BY <1>1, <2>1 DEF Tell, Goto, ToTell
    <3>2. t \in Periodic /\ pc[t] # "none"
      BY <1>0, <3>1 DEF Ends
    <3>. QED
      BY <1>0, <3>1, <3>2
  <2>2. CASE ~ Tell
    <3>1. t \in told /\ t \in Periodic /\ pc[t] # "none"
      BY <1>0, <1>1, <2>2, ToldStays DEF Ends
    <3>2. ~ Launch
      BY <3>1 DEF Launch, Course, StartPlaces
    <3>3. pc'[Main] # "join" => pc[t] = "exit"
      <4>1. CASE pc[Main] = "join" /\ pc'[Main] # "join"
        BY <3>1, <4>1, MainMoves DEF Join
      <4>. QED
        BY <3>1, <4>1 DEF Ends
    <3>. QED
      BY <3>1, <3>2, <3>3, PeriodicMoves
  <2>. QED
    BY <2>1, <2>2
<1>2. ASSUME NEW t \in Periodic, communicator'[t[1]] # "running"
      PROVE  pc'[t] \in {"none", "exit"}
  <2>1. CASE communicator[t[1]] # "running"
    <3>1. ~ running[t[1]] /\ ~ Launch
      BY <1>0, <2>1 DEF Phases, Launch, StartPlaces
    <3>2. pc[t] \in {"none", "exit"}
      BY <2>1 DEF Ends
    <3>. QED
      BY <3>1, <3>2, PeriodicMoves
  <2>2. CASE communicator[t[1]] = "running" /\ StopCommunicator
    <3>1. /\ pc' = [pc EXCEPT ![Main] = "receiver"] /\ pc[Main] = "tell" /\ ToTell = {}
          /\ communicator' = [communicator EXCEPT ![k] = "stopped"]
      BY <2>2 DEF StopCommunicator, Goto
    <3>2. t[1] = k
      BY <1>0, <1>2, <2>2, <3>1 DEF EndpointsOK
    <3>3. PICK i \in 1 .. 3 : t = <<k, Kinds[i]>>
      BY <3>2, PeriodicKinds
    <3>4. t \in told \/ pc[t] = "none"
      BY <3>1, <3>3 DEF ToTell
    <3>5. pc[t] \in {"none", "exit"}
      BY <3>1, <3>4 DEF Ends
    <3>. QED
      BY <1>0, <3>1, <3>5
  <2>3. CASE communicator[t[1]] = "running" /\ ~ StopCommunicator
    <3>1. communicator'[t[1]] = communicator[t[1]]
      <4>1. CASE DeleteCommunicator
        <5>1. communicator[k] # "running"
          BY <4>1 DEF DeleteCommunicator, Course
        <5>. QED
          BY <1>0, <2>3, <4>1, <5>1 DEF DeleteCommunicator, EndpointsOK
      <4>2. CASE Launch \/ ClearRunning
        BY <4>2 DEF Launch, ClearRunning
      <4>. QED
        BY <2>3, <4>1, <4>2, PhaseChanges DEF endpoints
    <3>. QED
      BY <1>2, <2>3, <3>1
  <2>. QED
    BY <2>1, <2>2, <2>3
<1>. QED
  BY <1>1, <1>2 DEF Ends

\* The steps that take a token of the worker, and those that stop it.
LEMMA NicChanges ==
  ASSUME TypeInv, [Next]_vars
  PROVE  /\ nic_running' => nic_running
         /\ ClearNic => ~ nic_running'
         /\ PostNic => sem' > 0
         /\ sem' >= sem \/ (Wake /\ pc'[Worker] # "wait")
         /\ pc'[Worker] = "wait" => pc[Worker] = "wait" \/ nic_running
         /\ pc'[Worker] \in ProducerPlaces \cup {"recv"} =>
              pc[Worker] \in ProducerPlaces \cup {"recv"} \/ nic_running
<1>0. /\ DOMAIN pc = Threads /\ Worker \in Threads /\ Worker \in Producers
      /\ Worker # Main /\ Worker \notin Periodic /\ sem \in Nat
  BY Basics DEF TypeInv, TypeOK, PlacesOK, SocketOK
<1>1. /\ nic_running' => nic_running
      /\ ClearNic => ~ nic_running'
      /\ sem' = sem \/ ((Arrive \/ PostNic) /\ sem' = sem + 1) \/ Wake
  <2>1. CASE \/ \E t \in Producers : Alloc(t) \/ Raw(t) \/ Notify(t) \/ Update(t)
             \/ \E t \in Periodic : StartSend(t) \/ End(t)
             \/ \E c \in Components : Loop(c) \/ GiveUp(c) \/ Receive(c) \/ Handle(c)
             \/ UNCHANGED vars
    <3>1. UNCHANGED socket
      BY <2>1
      DEF Alloc, Raw, Notify, Update, StartSend, End, Loop, GiveUp, Receive, Handle, vars
    <3>. QED
      BY <3>1 DEF socket, ClearNic
  <2>2. CASE \/ TestRunning \/ Drained \/ SendInterest \/ Launch \/ ClearRunning \/ Tell
             \/ Join \/ StopCommunicator \/ DeleteCommunicator \/ StopPool \/ JoinWorker
    <3>1. UNCHANGED socket
      BY <2>2
      DEF TestRunning, Drained, SendInterest, Launch, ClearRunning, Tell, Join,
          StopCommunicator, DeleteCommunicator, StopPool, JoinWorker, MainOnly
    <3>. QED
      BY <3>1 DEF socket, ClearNic
  <2>3. CASE Wake \/ PassOn \/ Discard \/ Arrive \/ ClearNic \/ PostNic
    BY <1>0, <2>3 DEF Wake, PassOn, Discard, Arrive, ClearNic, PostNic
  <2>. QED
    BY <2>1, <2>2, <2>3, Steps
<1>2. PostNic => sem' > 0
  BY <1>0 DEF PostNic
<1>3. /\ Wake => pc'[Worker] # "wait"
      /\ pc'[Worker] = "wait" => pc[Worker] = "wait" \/ nic_running
      /\ pc'[Worker] \in ProducerPlaces \cup {"recv"} =>
           pc[Worker] \in ProducerPlaces \cup {"recv"} \/ nic_running
  <2>1. CASE Alloc(Worker) \/ Raw(Worker) \/ Notify(Worker) \/ Update(Worker)
    <3>1. pc[Worker] \in ProducerPlaces
      BY <2>1 DEF Alloc, Raw, Notify, Update, ProducerPlaces
    <3>2. pc' = pc \/ \E place : Goto(Worker, place) /\ place # "wait"
      <4>1. CASE Alloc(Worker)
        <5>1. Goto(Worker, "recv") \/ Goto(Worker, "loop")
          BY <4>1 DEF Alloc, Done
        <5>. QED
          BY <5>1
      <4>2. CASE Raw(Worker) \/ Notify(Worker) \/ Update(Worker)
        <5>1. Home(Worker) = "alloc"
          BY <1>0 DEF Home
        <5>2. \/ Goto(Worker, Home(Worker)) \/ Goto(Worker, "update")
              \/ pc' = pc
          BY <4>2 DEF Raw, Notify, Update, Done
        <5>. QED
          BY <5>1, <5>2
      <4>. QED
        BY <2>1, <4>1, <4>2
    <3>. QED
      BY <1>0, <2>1, <3>1, <3>2
      DEF Goto, Wake, Alloc, Raw, Notify, Update, ProducerPlaces
  <2>2. CASE TestRunning \/ Wake
    BY <1>0, <2>2 DEF TestRunning, Wake, Goto, ProducerPlaces
  <2>3. CASE PassOn \/ Discard \/ Drained
    BY <1>0, <2>3 DEF PassOn, Discard, Drained, Done, Goto, Wake, ProducerPlaces
  <2>4. CASE pc'[Worker] = pc[Worker]
    BY <1>0, <2>4 DEF Wake, Goto, ProducerPlaces
  <2>5. ASSUME NEW t \in Producers, Acts(t), t # Worker
        PROVE  pc'[Worker] = pc[Worker]
    BY <1>0, <2>5, Locality
  <2>6. ASSUME NEW c \in Components, Loop(c) \/ GiveUp(c) \/ Receive(c) \/ Handle(c)
        PROVE  pc'[Worker] = pc[Worker]
    <3>1. CASE Handle(c)
      BY <1>0, <3>1, Handles, Basics
    <3>2. CASE Loop(c) \/ GiveUp(c) \/ Receive(c)
      <4>1. PICK place : Goto(<<c, "receive">>, place)
        BY <3>2 DEF Loop, GiveUp, Receive
      <4>. QED
        BY <1>0, <4>1, Basics DEF Goto
    <3>. QED
      BY <2>6, <3>1, <3>2
  <2>7. CASE Launch
    <3>1. Worker # <<k, "receive">> /\ ~ (k \in Asking /\ Worker = <<k, "interest">>)
      BY <1>0, Basics DEF Periodic, TypeInv, TypeOK, LocalsOK
    <3>. QED
      BY <1>0, <2>4, <2>7, <3>1 DEF Launch
  <2>8. CASE Arrive \/ UNCHANGED vars
    BY <2>4, <2>8 DEF Arrive, vars
  <2>. QED
    BY <1>0, <2>1, <2>2, <2>3, <2>4, <2>5, <2>6, <2>7, <2>8, ActorSteps DEF Acts
<1>. QED
  BY <1>0, <1>1, <1>2, <1>3

LEMMA NicTokenStep ==
  ASSUME TypeInv, NicToken, [Next]_vars
  PROVE  NicToken'
<1>1. sem \in Nat /\ sem' \in Nat
  BY SocketTypes DEF TypeInv, TypeOK, SocketOK
<1>2. pc'[Main] \in {"post", "pool", "worker", "gone"} => ~ nic_running'
  <2>1. CASE pc'[Main] = pc[Main]
    BY <2>1, NicChanges DEF NicToken
  <2>2. CASE pc'[Main] # pc[Main]
    BY <2>2, MainMoves, NicChanges DEF NicToken
  <2>. QED
    BY <2>1, <2>2
<1>3. ASSUME pc'[Main] \in {"pool", "worker"}, pc'[Worker] = "wait"
      PROVE  sem' > 0
  <2>1. CASE PostNic
    BY <2>1, NicChanges
  <2>2. CASE ~ PostNic
    <3>1. pc[Main] \in {"pool", "worker"}
      BY <1>3, <2>2, MainMoves
    <3>2. pc[Worker] = "wait" /\ sem > 0
      BY <1>3, <3>1, NicChanges DEF NicToken
    <3>. QED
      BY <1>1, <1>3, <3>2, NicChanges
  <2>. QED
    BY <2>1, <2>2
<1>. QED
  BY <1>2, <1>3 DEF NicToken

LEMMA FreeSets ==
  ASSUME TypeInv
  PROVE  /\ IsFiniteSet(FreeSlots) /\ Cardinality(FreeSlots) \in Nat /\ free_buffers \in Nat
         /\ FreeSlots \subseteq Slots /\ DOMAIN reference_counter = Slots
         /\ \A b \in Slots : reference_counter[b] \in Int
<1>1. PoolOK /\ IsFiniteSet(Slots)
  BY Finite DEF TypeInv, TypeOK
<1>2. FreeSlots \subseteq Slots
  BY DEF FreeSlots
<1>. QED
  BY <1>1, <1>2, FS_Subset, FS_CardinalityType DEF PoolOK

\* A step that takes no buffer leaves as many tokens for the free slots as before.
LEMMA FreeKeeps ==
  ASSUME TypeInv, NEW b \in Slots, Free(b)
  PROVE  free_buffers' - Cardinality(FreeSlots') >= free_buffers - Cardinality(FreeSlots)
<1>1. /\ IsFiniteSet(FreeSlots) /\ Cardinality(FreeSlots) \in Nat /\ free_buffers \in Nat
      /\ DOMAIN reference_counter = Slots /\ reference_counter[b] \in Int
  BY FreeSets
<1>2. reference_counter' = [reference_counter EXCEPT ![b] = @ - 1]
  BY DEF Free
<1>3. CASE reference_counter[b] = 1
  <2>1. FreeSlots' = FreeSlots \cup {b} /\ b \notin FreeSlots
    BY <1>1, <1>2, <1>3 DEF FreeSlots
  <2>2. Cardinality(FreeSlots \cup {b}) = Cardinality(FreeSlots) + 1
    BY <1>1, <2>1, FS_AddElement
  <2>3. free_buffers' = free_buffers + 1
    BY <1>3 DEF Free
  <2>. QED
    BY <1>1, <2>1, <2>2, <2>3
<1>4. CASE reference_counter[b] # 1
  <2>1. FreeSlots' \subseteq FreeSlots
    BY <1>1, <1>2, <1>4 DEF FreeSlots
  <2>2. Cardinality(FreeSlots') \in Nat /\ Cardinality(FreeSlots') <= Cardinality(FreeSlots)
    BY <1>1, <2>1, FS_Subset, FS_CardinalityType
  <2>3. free_buffers' = free_buffers
    BY <1>1, <1>4 DEF Free
  <2>. QED
    BY <1>1, <2>2, <2>3
<1>. QED
  BY <1>3, <1>4

LEMMA PoolKeeps ==
  ASSUME TypeInv, [Next]_vars, \A t \in Producers : ~ Alloc(t)
  PROVE  /\ free_buffers' - Cardinality(FreeSlots') >= free_buffers - Cardinality(FreeSlots)
         /\ StopPool => free_buffers' = free_buffers + 1 /\ FreeSlots' = FreeSlots
<1>0. /\ IsFiniteSet(FreeSlots) /\ Cardinality(FreeSlots) \in Nat /\ free_buffers \in Nat
      /\ DOMAIN reference_counter = Slots
  BY FreeSets
<1>1. StopPool => free_buffers' = free_buffers + 1 /\ FreeSlots' = FreeSlots
  BY DEF StopPool, FreeSlots
<1>2. CASE StopPool
  BY <1>0, <1>1, <1>2
<1>3. CASE UNCHANGED <<free_buffers, reference_counter>>
  <2>1. free_buffers' = free_buffers /\ FreeSlots' = FreeSlots
    BY <1>3 DEF FreeSlots
  <2>. QED
    BY <1>0, <1>1, <2>1
<1>4. CASE \E b \in Slots : Free(b)
  BY <1>1, <1>4, FreeKeeps
<1>5. ASSUME NEW t \in Producers, Raw(t) \/ Notify(t) \/ Update(t)
      PROVE  \/ UNCHANGED <<free_buffers, reference_counter>>
             \/ \E b \in Slots : Free(b)
             \/ free_buffers' = free_buffers /\ FreeSlots' \subseteq FreeSlots
  <2>1. pc[t] \in BusyPlaces => buf[t] \in Slots
    BY BufTypes
  <2>2. CASE Raw(t)
    BY <2>1, <2>2 DEF Raw, BusyPlaces, AlonePlaces
  <2>3. CASE Notify(t) /\ observers = {}
    BY <2>1, <2>3 DEF Notify, BusyPlaces, AlonePlaces
  <2>4. CASE Notify(t) /\ observers # {}
    <3>1. /\ reference_counter' =
               [reference_counter EXCEPT ![buf[t]] = Cardinality(observers)]
          /\ free_buffers' = free_buffers
      BY <2>4 DEF Notify
    <3>2. IsFiniteSet(observers)
      BY Finite, FS_Subset DEF TypeInv, TypeOK, EndpointsOK
    <3>3. Cardinality(observers) # 0
      BY <2>4, <3>2, FS_EmptySet
    <3>. QED
      BY <1>0, <3>1, <3>3 DEF FreeSlots
  <2>5. CASE Update(t)
    BY <2>5 DEF Update
  <2>. QED
    BY <1>5, <2>2, <2>3, <2>4, <2>5
<1>6. CASE free_buffers' = free_buffers /\ FreeSlots' \subseteq FreeSlots
  <2>1. Cardinality(FreeSlots') \in Nat /\ Cardinality(FreeSlots') <= Cardinality(FreeSlots)
    BY <1>0, <1>6, FS_Subset, FS_CardinalityType
  <2>. QED
    BY <1>0, <1>1, <1>6, <2>1
<1>7. ASSUME NEW c \in Components, Receive(c)
      PROVE  \E b \in Slots : Free(b)
  BY <1>7, HeadTypes DEF Receive
<1>8. CASE Discard \/ Drained
  <2>1. Free(buf[Worker]) /\ pc[Worker] = "recv"
    BY <1>8 DEF Discard, Drained
  <2>2. buf[Worker] \in Slots
    BY <2>1, BufTypes, Basics DEF BusyPlaces, AlonePlaces
  <2>. QED
    BY <1>4, <2>1, <2>2
<1>9. CASE \/ \E t \in Periodic : StartSend(t) \/ End(t)
           \/ \E c \in Components : Loop(c) \/ GiveUp(c) \/ Handle(c)
           \/ TestRunning \/ Wake \/ PassOn \/ Arrive \/ UNCHANGED vars
  BY <1>3, <1>9
  DEF StartSend, End, Loop, GiveUp, Handle, TestRunning, Wake, PassOn, Arrive, vars, pool
<1>10. CASE \/ SendInterest \/ Launch \/ ClearRunning \/ Tell \/ Join
            \/ StopCommunicator \/ DeleteCommunicator \/ ClearNic \/ PostNic \/ JoinWorker
  BY <1>3, <1>10
  DEF SendInterest, Launch, ClearRunning, Tell, Join, StopCommunicator,
      DeleteCommunicator, ClearNic, PostNic, JoinWorker, MainOnly, pool
<1>11. CASE \E t \in Producers : Raw(t) \/ Notify(t) \/ Update(t)
  BY <1>3, <1>4, <1>5, <1>6, <1>11
<1>12. CASE \E c \in Components : Receive(c)
  BY <1>4, <1>7, <1>12
<1>. QED
  BY <1>2, <1>8, <1>9, <1>10, <1>11, <1>12, Steps

\* The token of stop is for the worker alone: no other thread sends any more.
LEMMA EnoughStep ==
  ASSUME TypeInv, Course, Ends, NicToken, Enough, [Next]_vars
  PROVE  Enough'
<1>0. /\ IsFiniteSet(FreeSlots) /\ Cardinality(FreeSlots) \in Nat /\ free_buffers \in Nat
      /\ DOMAIN reference_counter = Slots /\ DOMAIN pc = Threads
      /\ Main \in Threads /\ Worker \in Threads /\ Main # Worker
      /\ \A b \in Slots : reference_counter[b] \in Int
  BY FreeSets, Basics DEF TypeInv, TypeOK, PlacesOK
<1>1. free_buffers' \in Nat /\ IsFiniteSet(FreeSlots') /\ Cardinality(FreeSlots') \in Nat
  <2>1. FreeSlots' \subseteq Slots
    BY DEF FreeSlots
  <2>. QED
    BY <2>1, PoolTypes, Finite, FS_Subset, FS_CardinalityType DEF PoolOK
<1>2. Extra \in {0, 1} /\ Extra' \in {0, 1}
  BY DEF Extra
<1>3. free_buffers >= Cardinality(FreeSlots) + Extra
  BY DEF Enough
<1>4. Extra' <= Extra \/ StopPool
  <2>1. CASE Extra' = 1 /\ ~ StopPool
    <3>1. pc'[Main] = "worker" /\ pc'[Worker] \in ProducerPlaces \cup {"recv"}
      BY <2>1 DEF Extra
    <3>2. pc[Main] = "worker"
      BY <2>1, <3>1, MainMoves
    <3>3. pc[Worker] \in ProducerPlaces \cup {"recv"}
      BY <3>1, <3>2, NicChanges DEF NicToken
    <3>4. Extra = 1
      BY <3>2, <3>3 DEF Extra
    <3>. QED
      BY <2>1, <3>4
  <2>. QED
    BY <1>2, <2>1
<1>5. CASE \A t \in Producers : ~ Alloc(t)
  <2>1. CASE StopPool
    <3>1. free_buffers' = free_buffers + 1 /\ FreeSlots' = FreeSlots
      BY <1>5, <2>1, PoolKeeps
    <3>2. Cardinality(FreeSlots') = Cardinality(FreeSlots)
      BY <3>1
    <3>. QED
      BY <1>0, <1>2, <1>3, <3>1, <3>2 DEF Enough
  <2>2. CASE ~ StopPool
    <3>1. free_buffers' - Cardinality(FreeSlots') >= free_buffers - Cardinality(FreeSlots)
      BY <1>5, PoolKeeps
    <3>. QED
      BY <1>0, <1>1, <1>2, <1>3, <1>4, <2>2, <3>1 DEF Enough
  <2>. QED
    BY <2>1, <2>2
<1>6. ASSUME NEW t \in Producers, Alloc(t)
      PROVE  Enough'
  <2>1. pc[t] = "alloc" /\ free_buffers > 0 /\ free_buffers' = free_buffers - 1
    BY <1>6 DEF Alloc
  <2>2. ~ StopPool
    <3>1. pc'[Main] = "worker" => pc[Main] = "worker"
      <4>1. CASE t = Main
        BY <1>0, <1>6, <4>1 DEF Alloc, Done, Goto, Home
      <4>2. CASE t # Main
        BY <1>0, <1>6, <4>2, Locality DEF Acts
      <4>. QED
        BY <4>1, <4>2
    <3>. QED
      BY <1>0, <3>1 DEF StopPool, Goto
  <2>3. CASE \E b \in Slots : /\ reference_counter[b] = 0
                              /\ reference_counter' = [reference_counter EXCEPT ![b] = 1]
    <3>1. PICK b \in Slots : /\ reference_counter[b] = 0
                             /\ reference_counter' = [reference_counter EXCEPT ![b] = 1]
      BY <2>3
    <3>2. FreeSlots' = FreeSlots \ {b} /\ b \in FreeSlots
      BY <1>0, <3>1 DEF FreeSlots
    <3>3. Cardinality(FreeSlots \ {b}) = Cardinality(FreeSlots) - 1
      BY <1>0, <3>2, FS_RemoveElement
    <3>4. Cardinality(FreeSlots') = Cardinality(FreeSlots) - 1
      BY <3>2, <3>3
    <3>. QED
      BY <1>0, <1>2, <1>3, <1>4, <2>1, <2>2, <3>4 DEF Enough
  <2>4. CASE /\ \A b \in Slots : reference_counter[b] > 0
             /\ Done(t, IF t = Worker THEN "loop" ELSE Home(t))
             /\ UNCHANGED reference_counter
    <3>1. FreeSlots' = {}
      BY <1>0, <2>4 DEF FreeSlots
    <3>2. Cardinality(FreeSlots') = 0
      BY <3>1, FS_EmptySet
    <3>3. Extra' = 0
      <4>1. CASE t = Worker
        <5>1. pc'[Worker] = "loop"
          BY <1>0, <2>4, <4>1 DEF Done, Goto
        <5>. QED
          BY <5>1 DEF Extra, ProducerPlaces
      <4>2. CASE t = Main
        <5>1. pc'[Main] = "start"
          BY <1>0, <2>4, <4>2 DEF Done, Goto, Home
        <5>. QED
          BY <5>1 DEF Extra
      <4>3. CASE t \in Periodic
        <5>1. communicator[t[1]] = "running" /\ t[1] \in Components
          BY <2>1, <4>3, PeriodicKinds DEF Ends
        <5>2. pc[Main] # "worker"
          BY <5>1 DEF Course, NicPlaces
        <5>3. pc'[Main] = pc[Main]
          BY <1>0, <1>6, <4>3, Locality, Basics DEF Acts
        <5>. QED
          BY <5>2, <5>3 DEF Extra
      <4>. QED
        BY <4>1, <4>2, <4>3, Basics
    <3>. QED
      BY <1>0, <2>1, <3>2, <3>3 DEF Enough
  <2>. QED
    BY <1>6, <2>3, <2>4 DEF Alloc
<1>. QED
  BY <1>5, <1>6

LEMMA WaitInvariant == Spec => [](LifeInv /\ WaitInv)
<1>1. Init => WaitInv
  BY WaitInit
<1>2. LifeInv /\ WaitInv /\ [Next]_vars => WaitInv'
  BY TokensStep, CourseStep, EndsStep, NicTokenStep, EnoughStep DEF LifeInv, WaitInv
<1>. QED
  BY <1>1, <1>2, LifeInvariant, PTL DEF Spec

\* A receive thread that cannot go on is deaf or has no token, ...
LEMMA Hearing ==
  ASSUME TypeInv, NEW c \in Components, Waits(<<c, "receive">>)
  PROVE  Deaf(c) \/ (pc[<<c, "receive">>] = "wait" /\ semaphore[c] = 0)
<1>1. /\ pc[<<c, "receive">>] \in ReceiverPlaces
      /\ <<c, "receive">> \notin Periodic
      /\ <<c, "receive">> # Main /\ <<c, "receive">> # Worker
  BY Basics DEF TypeInv, TypeOK, PlacesOK
<1>. QED
  BY <1>1, Basics DEF Waits, Deaf, ReceiverPlaces

\* ... a communicator that has been stopped cannot leave it so, ...
LEMMA StoppedIsDeaf ==
  ASSUME TypeInv, Tokens, NEW c \in Components, Waits(<<c, "receive">>),
         communicator[c] # "running"
  PROVE  Deaf(c)
<1>1. Len(queue[c]) \in Nat
  BY LenProperties DEF TypeInv, TypeOK, QueuesOK
<1>. QED
  BY <1>1, Hearing DEF Tokens

\* ... and a producer that cannot go on has no buffer.
LEMMA NotBusy ==
  ASSUME NEW t \in Producers, Waits(t)
  PROVE  pc[t] \notin BusyPlaces
BY Basics DEF Waits, BusyPlaces, AlonePlaces

LEMMA Starving ==
  ASSUME LifeInv, WaitInv, \A t \in Threads : Waits(t), free_buffers = 0
  PROVE  Starved
<1>0. TypeInv /\ Tokens /\ Debts /\ Stopped
  BY DEF LifeInv, WaitInv
<1>1. FreeSlots = {}
  <2>1. /\ IsFiniteSet(FreeSlots) /\ Cardinality(FreeSlots) \in Nat
        /\ Extra \in {0, 1} /\ 0 >= Cardinality(FreeSlots) + Extra
    BY <1>0, FreeSets DEF WaitInv, Enough, Extra
  <2>2. Cardinality(FreeSlots) = 0
    BY <2>1
  <2>. QED
    BY <2>1, <2>2, FS_EmptySet
<1>2. ASSUME NEW b \in Slots
      PROVE  \E c \in Components :
               Deaf(c) /\ (b \in Waiting(c) \/ \E t \in Threads : <<c, t>> \in lost[b])
  <2>1. Settled(b) /\ reference_counter[b] # 0
    BY <1>0, <1>1 DEF Debts, FreeSlots
  <2>2. ~ (Holders(b) = {} /\ Owers(b) = {} /\ lost[b] = {})
    <3>1. Cardinality({}) = 0
      BY FS_EmptySet
    <3>. QED
      BY <2>1, <3>1 DEF Settled
  <2>3. \A t \in Producers : pc[t] \notin BusyPlaces
    BY NotBusy, Basics
  <2>4. Holders(b) = {}
    BY <2>3 DEF Holders, HoldsAlone, BusyPlaces, AlonePlaces
  <2>5. CASE Owers(b) # {}
    <3>1. PICK c \in Components : c \in Owers(b)
      BY <2>5 DEF Owers
    <3>2. b \in Waiting(c)
      BY <2>3, <3>1, Owing DEF Gives, BusyPlaces
    <3>3. queue[c] \in Seq(Pairs) /\ queue[c] # <<>> /\ semaphore[c] \in Nat
      <4>1. queue[c] \in Seq(Pairs) /\ semaphore[c] \in Nat
        BY <1>0 DEF TypeInv, TypeOK, QueuesOK
      <4>2. PICK i \in DOMAIN queue[c] : queue[c][i].slot = b
        BY <3>2 DEF Waiting
      <4>3. DOMAIN <<>> = {}
        OBVIOUS
      <4>. QED
        BY <4>1, <4>2, <4>3
    <3>4. semaphore[c] > 0
      <4>1. Len(queue[c]) > 0 /\ Len(queue[c]) \in Nat
        BY <3>3, Taking
      <4>2. semaphore[c] >= Len(queue[c])
        BY <1>0 DEF Tokens
      <4>. QED
        BY <3>3, <4>1, <4>2
    <3>5. Waits(<<c, "receive">>)
      BY Basics
    <3>6. Deaf(c)
      BY <1>0, <3>3, <3>4, <3>5, Hearing
    <3>. QED
      BY <3>2, <3>6
  <2>6. CASE lost[b] # {}
    <3>1. PICK l \in lost[b] : TRUE
      BY <2>6
    <3>2. lost[b] \subseteq Components \X Threads
      BY <1>0 DEF TypeInv, TypeOK, PoolOK
    <3>3. PICK c \in Components, t \in Threads : l = <<c, t>>
      BY <3>1, <3>2
    <3>4. l[1] = c
      BY <3>3
    <3>5. communicator[c] # "running"
      BY <1>0, <3>1, <3>4 DEF Stopped
    <3>6. Deaf(c)
      BY <1>0, <3>5, StoppedIsDeaf, Basics
    <3>. QED
      BY <3>1, <3>3, <3>6
  <2>. QED
    BY <2>2, <2>4, <2>5, <2>6
<1>. QED
  BY <1>2 DEF Starved

(***************************************************************************)
(* For any components, interests and buffers: when no thread can go on     *)
(* before the agent is gone, every buffer is kept for a component that     *)
(* does not receive, and main() sends an interest or waits for a thread    *)
(* that is sending.  So no wait for a receive thread or for the NIC is in  *)
(* vain: each has the token it needs (Communicator::stop, cleanup_nic,     *)
(* BufferPool::stop).                                                      *)
(***************************************************************************)
THEOREM NothingElseBlocks == Spec => []OnlyStarvationBlocks
<1>1. LifeInv /\ WaitInv => OnlyStarvationBlocks
  <2>. SUFFICES ASSUME LifeInv, WaitInv, \A t \in Threads : Waits(t), pc[Main] # "gone"
       PROVE  Starved /\ pc[Main] \in {"alloc", "join"}
    BY DEF OnlyStarvationBlocks
  <2>0. /\ TypeInv /\ Tokens /\ Course /\ Ends /\ NicToken /\ Enough
        /\ Waits(Main) /\ Waits(Worker)
        /\ pc[Main] \in MainPlaces /\ pc[Worker] \in WorkerPlaces
        /\ Main # Worker /\ Main \notin Periodic /\ Worker \notin Periodic
        /\ \A c \in Components : Main # <<c, "receive">> /\ Worker # <<c, "receive">>
        /\ told \subseteq Periodic /\ k \in Components
    BY Basics DEF LifeInv, WaitInv, TypeInv, TypeOK, PlacesOK, LocalsOK
  <2>1. \/ pc[Main] = "alloc" /\ free_buffers = 0
        \/ pc[Main] = "join" /\ \E u \in told : pc[u] # "exit"
        \/ pc[Main] = "receiver" /\ pc[<<k, "receive">>] # "exit"
        \/ pc[Main] = "worker" /\ pc[Worker] # "exit"
    BY <2>0 DEF Waits, MainPlaces, ProducerPlaces
  <2>2. ASSUME NEW u \in told, pc[u] # "exit"
        PROVE  free_buffers = 0
    <3>1. /\ u \in Periodic /\ u # Main /\ u # Worker /\ pc[u] # "none"
          /\ pc[u] \in PeriodicPlaces /\ Waits(u)
          /\ \A c \in Components : u # <<c, "receive">>
      BY <2>0, <2>2, Basics DEF Ends, TypeInv, TypeOK, PlacesOK
    <3>. QED
      BY <2>2, <3>1 DEF Waits, PeriodicPlaces, ProducerPlaces
  <2>3. CASE pc[Main] = "receiver" /\ pc[<<k, "receive">>] # "exit"
    <3>1. pc[<<k, "receive">>] # "none" /\ communicator[k] # "running"
      BY <2>0, <2>3 DEF Course, StartPlaces, ProducerPlaces
    <3>2. Deaf(k)
      BY <2>0, <3>1, StoppedIsDeaf, Basics
    <3>. QED
      BY <2>3, <3>1, <3>2 DEF Deaf
  <2>4. CASE pc[Main] = "worker" /\ pc[Worker] # "exit"
    <3>1. \/ pc[Worker] = "alloc" /\ free_buffers = 0
          \/ pc[Worker] = "wait" /\ sem = 0
      BY <2>0, <2>4 DEF Waits, WorkerPlaces, ProducerPlaces
    <3>2. ~ (pc[Worker] = "wait" /\ sem = 0)
      BY <2>0, <2>4 DEF NicToken
    <3>3. pc[Worker] = "alloc" => Extra = 1
      BY <2>4 DEF Extra, ProducerPlaces
    <3>4. Cardinality(FreeSlots) \in Nat /\ free_buffers >= Cardinality(FreeSlots) + Extra
      BY <2>0, FreeSets DEF Enough
    <3>. QED
      BY <3>1, <3>2, <3>3, <3>4
  <2>. QED
    BY <2>1, <2>2, <2>3, <2>4, Starving
<1>. QED
  BY <1>1, WaitInvariant, PTL
=============================================================================
