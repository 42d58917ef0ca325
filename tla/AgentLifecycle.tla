--------------------------- MODULE AgentLifecycle ---------------------------
(***************************************************************************)
(* The life of a vehicle (source/main.cpp, Vehicle, Component, SmartData,  *)
(* Communicator, NIC): it is constructed with all its components, starts   *)
(* them one after the other, runs, stops them one after the other and      *)
(* finally stops its NIC.  In the meantime its components' threads send to *)
(* everybody in the agent, itself included, and frames of other agents     *)
(* come in; every message takes a buffer of one pool, which comes back     *)
(* when each communicator that was attached has received it.               *)
(*                                                                         *)
(* MessageBus has the steps of sending and receiving a message, SmartData  *)
(* those of the threads of one component.  Here they are coarser: an       *)
(* operation of the pool, of an observer's list or of a periodic thread is *)
(* one step.  A component's task thread sends nothing and is left out.  An *)
(* interest is handled in the step that tests _running: what happens when  *)
(* stop comes between is in SmartData.                                     *)
(***************************************************************************)
EXTENDS Integers, Sequences, FiniteSets

CONSTANTS
  NumComponents, \* how many components the vehicle has
  Main, Worker,  \* the thread of main() and the one of the NIC
  Interests,     \* how many internal interests each component has
  Asking,        \* the components that have external interests
  Answering,     \* the components in whose data the interests are
  FrameTypes,    \* what the frames of other agents contain
  SIZE,          \* buffers in the pool
  MaxSends,      \* bound on the messages of a periodic thread, for each kind
  MaxFrames,     \* bound on the frames that arrive
  None           \* no buffer

\* Vehicle::_components, by their index, which is the order of their ports too.
Components == 1 .. NumComponents
Slots      == 0 .. SIZE - 1

\* The periodic threads SmartData may create, in the order stop deletes them: the
\* one that sends external interests, and those that answer internal and external
\* interests in its component's data.
Kinds     == <<"interest", "internal", "external">>
Periodic  == {<<c, "interest">> : c \in Asking} \cup
             {<<c, Kinds[i]>> : c \in Answering, i \in 2 .. 3}
Receivers == {<<c, "receive">> : c \in Components}
Producers == Periodic \cup {Main, Worker}
Threads   == Producers \cup Receivers

\* Interests of this agent, those of others and responses; all of them are for
\* port 0, which is everybody.  "outgoing" is whatever is sent to other agents.
Received == {"internal", "external", "response"}

ASSUME LifecycleAssumption ==
  /\ NumComponents \in Nat \ {0}
  /\ Main # Worker /\ {Main, Worker} \cap (Periodic \cup Receivers) = {}
  /\ Interests \in [Components -> Nat]
  /\ Asking \subseteq Components /\ Answering \subseteq Components
  /\ FrameTypes \subseteq {"external", "response"}
  /\ SIZE \in Nat \ {0} /\ MaxFrames \in Nat
  /\ MaxSends \in [{"interest", "internal", "external"} -> Nat]
  /\ None \notin Slots

VARIABLES
  free_buffers,      \* BufferPool::_free_buffers
  reference_counter, \* Buffer::_reference_counter, 0 in a free buffer
  lost,              \* history: who keeps a buffer for good, [component, thread]
  observers,         \* Protocol::_observed, the communicators attached
  communicator,      \* Communicator::_running, and whether it is deleted
  running,           \* SmartData::_running
  queue,             \* Concurrent_Observer::_data, pairs of a buffer and what is in it
  semaphore,         \* Concurrent_Observer::_semaphore
  pc,                \* where each thread is
  told,              \* the periodic threads whose running flag is cleared
  sends,             \* messages each periodic thread has begun to send
  message,           \* what a producer is sending
  buf,               \* the buffer it holds
  rest,              \* the copy of the observers it has still to update
  got,               \* what a receive thread has received and not yet handled
  k, n,              \* the component main is at, and the interests of it sent
  frames, arrived,   \* frames in the socket, and how many have come so far
  sem,               \* NIC::_sem
  nic_running,       \* NIC::_running
  crashed            \* an update of a deleted communicator ended the process

pool      == <<free_buffers, reference_counter, lost>>
endpoints == <<observers, communicator, running>>
queues    == <<queue, semaphore>>
threads   == <<told, sends>>
local     == <<message, buf, rest>>
main      == <<k, n>>
socket    == <<frames, arrived, sem, nic_running>>
vars == <<pool, endpoints, queues, pc, threads, local, got, main, socket, crashed>>

ProducerPlaces == {"alloc", "raw", "notify", "update"}
MainPlaces == ProducerPlaces \cup
  {"start", "clear", "tell", "join", "receiver", "flag", "post", "pool", "worker",
   "gone"}
WorkerPlaces == ProducerPlaces \cup {"loop", "wait", "recv", "exit"}
PeriodicPlaces == ProducerPlaces \cup {"none", "loop", "exit"}
ReceiverPlaces == {"none", "loop", "wait", "handle", "exit"}

Pairs == [slot : Slots, has : Received]

PoolOK ==
  /\ free_buffers \in Nat
  /\ reference_counter \in [Slots -> Int]
  /\ lost \in [Slots -> SUBSET (Components \X Threads)]

EndpointsOK ==
  /\ observers \in SUBSET Components
  /\ communicator \in [Components -> {"running", "stopped", "deleted"}]
  /\ running \in [Components -> BOOLEAN]

QueuesOK ==
  /\ queue \in [Components -> Seq(Pairs)]
  /\ semaphore \in [Components -> Nat]

PlacesOK ==
  /\ DOMAIN pc = Threads
  /\ pc[Main] \in MainPlaces /\ pc[Worker] \in WorkerPlaces
  /\ \A t \in Periodic : pc[t] \in PeriodicPlaces
  /\ \A t \in Receivers : pc[t] \in ReceiverPlaces

LocalsOK ==
  /\ told \in SUBSET Periodic
  /\ sends \in [Periodic -> Nat]
  /\ message \in [Producers -> Received \cup {"outgoing", "nothing"}]
  /\ buf \in [Producers -> Slots \cup {None}]
  /\ rest \in [Producers -> SUBSET Components]
  /\ got \in [Components -> Received \cup {"nothing"}]
  /\ k \in Components /\ n \in Nat

SocketOK ==
  /\ frames \in 0 .. MaxFrames /\ arrived \in 0 .. MaxFrames /\ sem \in Nat
  /\ nic_running \in BOOLEAN /\ crashed \in BOOLEAN

TypeOK ==
  PoolOK /\ EndpointsOK /\ QueuesOK /\ PlacesOK /\ LocalsOK /\ SocketOK

-----------------------------------------------------------------------------
\* The constructors: the NIC has started its worker, and the communicators of
\* all components are attached before the first component starts.
Init ==
  /\ free_buffers = SIZE
  /\ reference_counter = [b \in Slots |-> 0]
  /\ lost = [b \in Slots |-> {}]
  /\ observers = Components
  /\ communicator = [c \in Components |-> "running"]
  /\ running = [c \in Components |-> FALSE]
  /\ queue = [c \in Components |-> <<>>]
  /\ semaphore = [c \in Components |-> 0]
  /\ pc = [t \in Threads |-> IF t = Main THEN "start"
                             ELSE IF t = Worker THEN "loop" ELSE "none"]
  /\ told = {}
  /\ sends = [t \in Periodic |-> 0]
  /\ message = [t \in Producers |-> "nothing"]
  /\ buf = [t \in Producers |-> None]
  /\ rest = [t \in Producers |-> {}]
  /\ got = [c \in Components |-> "nothing"]
  /\ k = 1 /\ n = 0
  /\ frames = 0 /\ arrived = 0 /\ sem = 0
  /\ nic_running = TRUE
  /\ crashed = FALSE

Goto(t, place) == pc' = [pc EXCEPT ![t] = place]

\* Where a producer goes when it is done with a message.
Home(t) == IF t = Main THEN "start" ELSE IF t = Worker THEN "alloc" ELSE "loop"

\* Thread t is done with its message and its local variables go out of scope.
Done(t, place) ==
  /\ Goto(t, place)
  /\ message' = [message EXCEPT ![t] = "nothing"]
  /\ buf' = [buf EXCEPT ![t] = None]
  /\ rest' = [rest EXCEPT ![t] = {}]

\* BufferPool::free.
Free(b) ==
  /\ reference_counter' = [reference_counter EXCEPT ![b] = @ - 1]
  /\ free_buffers' = free_buffers + (IF reference_counter[b] = 1 THEN 1 ELSE 0)
  /\ UNCHANGED lost

\* Nobody will free buffer b for component c any more; t is to blame.
Lose(b, c, t) == lost' = [lost EXCEPT ![b] = @ \cup {<<c, t>>}]

-----------------------------------------------------------------------------
\* Sending a message, by any producer.

\* NIC::alloc blocks while there is no token.  The token of BufferPool::stop lets
\* it through to a pool that may have no buffer: then the worker's turn is over, and
\* Protocol::send would fail (its callers have ended when the pool is stopped).
Alloc(t) ==
  /\ pc[t] = "alloc"
  /\ free_buffers > 0
  /\ free_buffers' = free_buffers - 1
  /\ \/ \E b \in Slots :
          /\ reference_counter[b] = 0
          /\ \A a \in 0 .. b - 1 : reference_counter[a] > 0
          /\ reference_counter' = [reference_counter EXCEPT ![b] = 1]
          /\ buf' = [buf EXCEPT ![t] = b]
          /\ Goto(t, IF t = Worker THEN "recv"
                     ELSE IF message[t] = "outgoing" THEN "raw" ELSE "notify")
          /\ UNCHANGED <<message, rest>>
     \/ /\ \A b \in Slots : reference_counter[b] > 0
        /\ Done(t, IF t = Worker THEN "loop" ELSE Home(t))
        /\ UNCHANGED reference_counter
  /\ UNCHANGED <<lost, endpoints, queues, threads, got, main, socket, crashed>>

\* NIC::send puts a message for other agents on the network and frees its buffer.
Raw(t) ==
  /\ pc[t] = "raw"
  /\ Free(buf[t])
  /\ Done(t, Home(t))
  /\ UNCHANGED <<endpoints, queues, threads, got, main, socket, crashed>>

\* A slip: the counter of the buffer leaves out the last observer.
NotifyTooFew(t) ==
  /\ pc[t] = "notify"
  /\ observers # {}
  /\ rest' = [rest EXCEPT ![t] = observers]
  /\ reference_counter' =
       [reference_counter EXCEPT ![buf[t]] = IF Cardinality(observers) = 1 THEN 1
                                             ELSE Cardinality(observers) - 1]
  /\ Goto(t, "update")
  /\ UNCHANGED <<free_buffers, lost, endpoints, queues, threads, message, buf, got,
                 main, socket, crashed>>

\* Concurrent_Observed::notify copies the list of observers, which are all
\* interested in port 0; Protocol::update frees the buffer when there are none.
Notify(t) ==
  /\ pc[t] = "notify"
  /\ IF observers = {}
       THEN Free(buf[t]) /\ Done(t, Home(t))
       ELSE /\ rest' = [rest EXCEPT ![t] = observers]
            /\ reference_counter' =
                 [reference_counter EXCEPT ![buf[t]] = Cardinality(observers)]
            /\ Goto(t, "update")
            /\ UNCHANGED <<free_buffers, lost, message, buf>>
  /\ UNCHANGED <<endpoints, queues, threads, got, main, socket, crashed>>

First(c, waiting) == c \in waiting /\ \A o \in waiting : c <= o

\* Concurrent_Observer::update of the next observer of the copy.  If that has been
\* deleted since, freed memory is written: either nobody ever takes the message, or
\* the process ends.
Update(t) ==
  /\ pc[t] = "update"
  /\ \E c \in Components :
       /\ First(c, rest[t])
       /\ IF communicator[c] # "deleted"
            THEN /\ queue' = [queue EXCEPT ![c] =
                                Append(@, [slot |-> buf[t], has |-> message[t]])]
                 /\ semaphore' = [semaphore EXCEPT ![c] = @ + 1]
                 /\ UNCHANGED <<lost, crashed>>
            ELSE /\ Lose(buf[t], c, t)
                 /\ crashed' \in BOOLEAN
                 /\ UNCHANGED queues
       /\ IF rest[t] = {c}
            THEN Done(t, Home(t))
            ELSE /\ rest' = [rest EXCEPT ![t] = @ \ {c}]
                 /\ UNCHANGED <<pc, message, buf>>
  /\ UNCHANGED <<free_buffers, reference_counter, endpoints, threads, got, main,
                 socket>>

Produce(t) == Alloc(t) \/ Raw(t) \/ Notify(t) \/ Update(t)

-----------------------------------------------------------------------------
\* The periodic threads.

\* PeriodicThread::executeThread, SmartData::send_* and Communicator::send: a
\* thread that has not been told to end sends as long as both are running.
StartSend(t) ==
  /\ pc[t] = "loop"
  /\ t \notin told /\ running[t[1]] /\ communicator[t[1]] = "running"
  /\ sends[t] < MaxSends[t[2]]
  /\ sends' = [sends EXCEPT ![t] = @ + 1]
  /\ message' = [message EXCEPT ![t] =
                   IF t[2] = "internal" THEN "response" ELSE "outgoing"]
  /\ Goto(t, "alloc")
  /\ UNCHANGED <<pool, endpoints, queues, told, buf, rest, got, main, socket,
                 crashed>>

End(t) ==
  /\ pc[t] = "loop" /\ t \in told
  /\ Goto(t, "exit")
  /\ UNCHANGED <<pool, endpoints, queues, threads, local, got, main, socket,
                 crashed>>

-----------------------------------------------------------------------------
\* The receive thread of component c, SmartData::receive.

Loop(c) ==
  LET t == <<c, "receive">> IN
  /\ pc[t] = "loop"
  /\ Goto(t, IF running[c] THEN "wait" ELSE "exit")
  /\ UNCHANGED <<pool, endpoints, queues, threads, local, got, main, socket,
                 crashed>>

\* Concurrent_Observer::updated: the semaphore, then the first pair of the list, or
\* none if the token is one of stop.
Take(c) ==
  /\ pc[<<c, "receive">>] = "wait"
  /\ semaphore[c] > 0
  /\ semaphore' = [semaphore EXCEPT ![c] = @ - 1]
  /\ queue' = IF queue[c] = <<>> THEN queue ELSE [queue EXCEPT ![c] = Tail(@)]

\* Communicator::receive gives up when there is no message, or when it has been
\* stopped: then it drops the message, and nobody frees the buffer.
GiveUp(c) ==
  LET t == <<c, "receive">> IN
  /\ Take(c)
  /\ queue[c] = <<>> \/ communicator[c] # "running"
  /\ IF queue[c] = <<>> THEN UNCHANGED lost ELSE Lose(Head(queue[c]).slot, c, t)
  /\ Goto(t, "loop")
  /\ UNCHANGED <<free_buffers, reference_counter, endpoints, threads, local, got,
                 main, socket, crashed>>

\* Protocol::receive copies the message and frees the buffer.
Receive(c) ==
  /\ Take(c)
  /\ queue[c] # <<>> /\ communicator[c] = "running"
  /\ Free(Head(queue[c]).slot)
  /\ got' = [got EXCEPT ![c] = Head(queue[c]).has]
  /\ Goto(<<c, "receive">>, "handle")
  /\ UNCHANGED <<endpoints, threads, local, main, socket, crashed>>

\* SmartData::receive goes on with what it received unless it was stopped: the
\* first interest in its data starts the thread that answers it.
Handle(c) ==
  LET t == <<c, "receive">>
      answerer == <<c, got[c]>>
      starts == /\ running[c] /\ c \in Answering
                /\ got[c] # "response" /\ pc[answerer] = "none"
  IN
  /\ pc[t] = "handle"
  /\ IF starts
       THEN pc' = [pc EXCEPT ![t] = "loop", ![answerer] = "loop"]
       ELSE Goto(t, IF running[c] THEN "loop" ELSE "exit")
  /\ got' = [got EXCEPT ![c] = "nothing"]
  /\ UNCHANGED <<pool, endpoints, queues, threads, local, main, socket, crashed>>

ReceiveThread(c) == Loop(c) \/ GiveUp(c) \/ Receive(c) \/ Handle(c)

-----------------------------------------------------------------------------
\* The worker of the NIC.

\* A frame arrives, and sigio_handler posts _sem.
Arrive ==
  /\ pc[Main] # "gone"
  /\ arrived < MaxFrames
  /\ arrived' = arrived + 1 /\ frames' = frames + 1 /\ sem' = sem + 1
  /\ UNCHANGED <<pool, endpoints, queues, pc, threads, local, got, main,
                 nic_running, crashed>>

\* data_processing_thread tests _running before and after it waits for _sem.
TestRunning ==
  /\ pc[Worker] = "loop"
  /\ Goto(Worker, IF nic_running THEN "wait" ELSE "exit")
  /\ UNCHANGED <<pool, endpoints, queues, threads, local, got, main, socket,
                 crashed>>

Wake ==
  /\ pc[Worker] = "wait"
  /\ sem > 0
  /\ sem' = sem - 1
  /\ Goto(Worker, IF nic_running THEN "alloc" ELSE "exit")
  /\ UNCHANGED <<pool, endpoints, queues, threads, local, got, main, frames,
                 arrived, nic_running, crashed>>

\* process_incoming_data passes a frame on to its observers ...
PassOn ==
  /\ pc[Worker] = "recv"
  /\ frames > 0 /\ frames' = frames - 1
  /\ \E has \in FrameTypes : message' = [message EXCEPT ![Worker] = has]
  /\ Goto(Worker, "notify")
  /\ UNCHANGED <<pool, endpoints, queues, threads, buf, rest, got, main, arrived,
                 sem, nic_running, crashed>>

\* ... or frees it at once (an RSU's, or one it cannot verify) ...
Discard ==
  /\ pc[Worker] = "recv"
  /\ frames > 0 /\ frames' = frames - 1
  /\ Free(buf[Worker])
  /\ Done(Worker, "alloc")
  /\ UNCHANGED <<endpoints, queues, threads, got, main, arrived, sem, nic_running,
                 crashed>>

\* ... until there is none left.
Drained ==
  /\ pc[Worker] = "recv"
  /\ frames = 0
  /\ Free(buf[Worker])
  /\ Done(Worker, "loop")
  /\ UNCHANGED <<endpoints, queues, threads, got, main, socket, crashed>>

WorkerThread ==
  TestRunning \/ Wake \/ PassOn \/ Discard \/ Drained \/ Produce(Worker)

-----------------------------------------------------------------------------
\* main(): Vehicle::start.

\* Component::start, SmartData::start: _running is set, and the internal interests
\* are sent first ...
SendInterest ==
  /\ pc[Main] = "start"
  /\ n < Interests[k]
  /\ n' = n + 1
  /\ running' = [running EXCEPT ![k] = TRUE]
  /\ message' = [message EXCEPT ![Main] = "internal"]
  /\ Goto(Main, "alloc")
  /\ UNCHANGED <<pool, observers, communicator, queues, threads, buf, rest, got, k,
                 socket, crashed>>

\* A slip: the index of the component goes on past the last one.
LaunchOn ==
  /\ pc[Main] = "start"
  /\ n = Interests[k]
  /\ running' = [running EXCEPT ![k] = TRUE]
  /\ pc' = [t \in Threads |->
              IF t = Main THEN IF k = NumComponents THEN "clear" ELSE "start"
              ELSE IF t = <<k, "receive">> \/ (k \in Asking /\ t = <<k, "interest">>)
                THEN "loop" ELSE pc[t]]
  /\ k' = k + 1
  /\ n' = 0
  /\ UNCHANGED <<pool, observers, communicator, queues, threads, local, got, socket,
                 crashed>>

\* ... then the threads are created that send the external ones and receive, and
\* the next component is started.  After the last one Vehicle::run takes its time.
Launch ==
  /\ pc[Main] = "start"
  /\ n = Interests[k]
  /\ running' = [running EXCEPT ![k] = TRUE]
  /\ pc' = [t \in Threads |->
              IF t = Main THEN IF k = NumComponents THEN "clear" ELSE "start"
              ELSE IF t = <<k, "receive">> \/ (k \in Asking /\ t = <<k, "interest">>)
                THEN "loop" ELSE pc[t]]
  /\ k' = IF k = NumComponents THEN 1 ELSE k + 1
  /\ n' = 0
  /\ UNCHANGED <<pool, observers, communicator, queues, threads, local, got, socket,
                 crashed>>

-----------------------------------------------------------------------------
\* main(): Vehicle::stop.

MainOnly == <<pool, queues, threads, local, got, socket, crashed>>

\* SmartData::stop of the next component: _running is cleared ...
ClearRunning ==
  /\ pc[Main] = "clear"
  /\ running' = [running EXCEPT ![k] = FALSE]
  /\ Goto(Main, "tell")
  /\ UNCHANGED <<MainOnly, observers, communicator, main>>

\* Those of its periodic threads that were created and have not been told to end.
ToTell ==
  {i \in 1 .. 3 : LET t == <<k, Kinds[i]>> IN
                    t \in Periodic \ told /\ pc[t] # "none"}

\* ... its periodic threads are told to end ...
Tell ==
  /\ pc[Main] = "tell"
  /\ \E i \in ToTell :
       /\ \A j \in ToTell : i <= j
       /\ told' = told \cup {<<k, Kinds[i]>>}
  /\ Goto(Main, "join")
  /\ UNCHANGED <<pool, endpoints, queues, sends, local, got, main, socket, crashed>>

\* ... and waited for, one after the other ...
Join ==
  /\ pc[Main] = "join"
  /\ \A t \in told : pc[t] = "exit"
  /\ Goto(Main, "tell")
  /\ UNCHANGED <<MainOnly, endpoints, main>>

\* A slip: the communicator is stopped without a token for its receive thread.
StopQuietly ==
  /\ pc[Main] = "tell" /\ ToTell = {}
  /\ communicator' = [communicator EXCEPT ![k] = "stopped"]
  /\ Goto(Main, "receiver")
  /\ UNCHANGED <<MainOnly, observers, running, main>>

\* ... the communicator is stopped ...
StopCommunicator ==
  /\ pc[Main] = "tell" /\ ToTell = {}
  /\ communicator' = [communicator EXCEPT ![k] = "stopped"]
  /\ semaphore' = [semaphore EXCEPT ![k] = @ + 1]
  /\ Goto(Main, "receiver")
  /\ UNCHANGED <<pool, observers, running, queue, threads, local, got, main, socket,
                 crashed>>

Waiting(c) == {queue[c][i].slot : i \in DOMAIN queue[c]}

\* A slip: the communicator is deleted but stays attached.
DeleteAttached ==
  /\ pc[Main] = "receiver"
  /\ pc[<<k, "receive">>] = "exit"
  /\ communicator' = [communicator EXCEPT ![k] = "deleted"]
  /\ lost' = [b \in Slots |-> IF b \in Waiting(k) THEN lost[b] \cup {<<k, Main>>}
                                                  ELSE lost[b]]
  /\ queue' = [queue EXCEPT ![k] = <<>>]
  /\ k' = IF k = NumComponents THEN k ELSE k + 1
  /\ Goto(Main, IF k = NumComponents THEN "flag" ELSE "clear")
  /\ UNCHANGED <<free_buffers, reference_counter, observers, running, semaphore,
                 threads, local, got, n, socket, crashed>>

\* ... the receive thread is waited for, and the communicator is detached and
\* deleted, with the pairs that are still in its list.  On to the next component.
DeleteCommunicator ==
  /\ pc[Main] = "receiver"
  /\ pc[<<k, "receive">>] = "exit"
  /\ observers' = observers \ {k}
  /\ communicator' = [communicator EXCEPT ![k] = "deleted"]
  /\ lost' = [b \in Slots |-> IF b \in Waiting(k) THEN lost[b] \cup {<<k, Main>>}
                                                  ELSE lost[b]]
  /\ queue' = [queue EXCEPT ![k] = <<>>]
  /\ k' = IF k = NumComponents THEN k ELSE k + 1
  /\ Goto(Main, IF k = NumComponents THEN "flag" ELSE "clear")
  /\ UNCHANGED <<free_buffers, reference_counter, running, semaphore, threads, local,
                 got, n, socket, crashed>>

-----------------------------------------------------------------------------
\* main(): delete nic, NIC::cleanup_nic.

ClearNic ==
  /\ pc[Main] = "flag"
  /\ nic_running' = FALSE
  /\ Goto(Main, "post")
  /\ UNCHANGED <<pool, endpoints, queues, threads, local, got, main, frames, arrived,
                 sem, crashed>>

PostNic ==
  /\ pc[Main] = "post"
  /\ sem' = sem + 1
  /\ Goto(Main, "pool")
  /\ UNCHANGED <<pool, endpoints, queues, threads, local, got, main, frames, arrived,
                 nic_running, crashed>>

\* A slip: the pool is not stopped.
StopPoolNot ==
  /\ pc[Main] = "pool"
  /\ Goto(Main, "worker")
  /\ UNCHANGED <<MainOnly, endpoints, main>>

\* BufferPool::stop.
StopPool ==
  /\ pc[Main] = "pool"
  /\ free_buffers' = free_buffers + 1
  /\ Goto(Main, "worker")
  /\ UNCHANGED <<reference_counter, lost, endpoints, queues, threads, local, got,
                 main, socket, crashed>>

JoinWorker ==
  /\ pc[Main] = "worker"
  /\ pc[Worker] = "exit"
  /\ Goto(Main, "gone")
  /\ UNCHANGED <<MainOnly, endpoints, main>>

MainThread ==
  \/ SendInterest \/ Launch \/ Produce(Main)
  \/ ClearRunning \/ Tell \/ Join \/ StopCommunicator \/ DeleteCommunicator
  \/ ClearNic \/ PostNic \/ StopPool \/ JoinWorker

PeriodicThread(t) == StartSend(t) \/ End(t) \/ Produce(t)

-----------------------------------------------------------------------------
Next ==
  /\ ~ crashed
  /\ \/ MainThread
     \/ WorkerThread
     \/ Arrive
     \/ \E t \in Periodic : PeriodicThread(t)
     \/ \E c \in Components : ReceiveThread(c)

Spec == Init /\ [][Next]_vars

(***************************************************************************)
(* The scheduler runs every thread that can go on.  The vehicle's lifetime *)
(* ends; no frame has to arrive.                                           *)
(***************************************************************************)
FairSpec ==
  /\ Spec
  /\ WF_vars(~ crashed /\ MainThread)
  /\ WF_vars(~ crashed /\ WorkerThread)
  /\ \A t \in Periodic : WF_vars(~ crashed /\ PeriodicThread(t))
  /\ \A c \in Components : WF_vars(~ crashed /\ ReceiveThread(c))

-----------------------------------------------------------------------------
\* Who has still to free buffer b: the producer that holds it before it has
\* notified, and the components it is queued for, or will be.
HoldsAlone(t, b) == buf[t] = b /\ pc[t] \in {"raw", "recv", "notify"}

WillGet(c, b) ==
  \E t \in Producers :
    buf[t] = b /\ pc[t] = "update" /\ c \in rest[t]

Owes(c, b) == b \in Waiting(c) \/ WillGet(c, b)

Claims(b) ==
  Cardinality({t \in Producers : HoldsAlone(t, b)}) +
  Cardinality({c \in Components : Owes(c, b)})

(***************************************************************************)
(* A buffer is freed by exactly those it was given to, through any start   *)
(* and stop: its counter is the number of frees to come and of those that  *)
(* will never come, and a free is lost only at a component that is being   *)
(* stopped (notify, Communicator::receive, ~Communicator).                 *)
(***************************************************************************)
ClaimsAddUp ==
  \A b \in Slots :
    /\ reference_counter[b] = Claims(b) + Cardinality(lost[b])
    /\ \A l \in lost[b] : ~ running[l[1]] /\ communicator[l[1]] # "running"

(***************************************************************************)
(* A thread updates a deleted communicator at most once: with the copy of  *)
(* the observers it had made before detach (notify, detach).               *)
(***************************************************************************)
LateOnce ==
  \A t \in Producers \ {Main}, c \in Components :
    Cardinality({b \in Slots : <<c, t>> \in lost[b]}) <= 1

(***************************************************************************)
(* An agent stops unless it starves: every buffer is kept for a component  *)
(* that does not receive yet, or not any more (Vehicle::start, stop).      *)
(***************************************************************************)
Deaf(c) == pc[<<c, "receive">>] \in {"none", "exit"}

Starved ==
  /\ free_buffers = 0
  /\ \A b \in Slots : \E c \in Components :
       Deaf(c) /\ (b \in Waiting(c) \/ \E t \in Threads : <<c, t>> \in lost[b])

StopsUnlessStarved == <>(pc[Main] = "gone" \/ crashed) \/ <>[]Starved

(***************************************************************************)
(* Threads wait for each other in no other way: when nobody can go on, the *)
(* agent starves, and main() is sending an interest or waits for a thread  *)
(* that is sending; it never waits in vain for a receive thread or for the *)
(* NIC.  A periodic thread that was not told to end may always be idle     *)
(* (SmartData::stop, Communicator::receive, cleanup_nic, BufferPool).      *)
(***************************************************************************)
Waits(t) ==
  \/ pc[t] = "alloc" /\ free_buffers = 0
  \/ pc[t] \in {"none", "exit", "gone"}
  \/ t \in Periodic \ told /\ pc[t] = "loop"
  \/ t = Worker /\ pc[t] = "wait" /\ sem = 0
  \/ \E c \in Components : t = <<c, "receive">> /\ pc[t] = "wait" /\ semaphore[c] = 0
  \/ t = Main /\ \/ pc[t] = "join" /\ \E u \in told : pc[u] # "exit"
                 \/ pc[t] = "receiver" /\ pc[<<k, "receive">>] # "exit"
                 \/ pc[t] = "worker" /\ pc[Worker] # "exit"

OnlyStarvationBlocks ==
  (\A t \in Threads : Waits(t)) /\ pc[Main] # "gone" =>
    Starved /\ pc[Main] \in {"alloc", "join"}

(***************************************************************************)
(* The NIC stops even when all buffers are lost: the token of              *)
(* BufferPool::stop lets the worker through (cleanup_nic).                 *)
(***************************************************************************)
NicStops == pc[Main] = "flag" ~> pc[Main] = "gone" \/ crashed

(***************************************************************************)
(* A vehicle whose lifetime is over goes away (source/main.cpp).           *)
(***************************************************************************)
AgentStops == <>(pc[Main] = "gone" \/ crashed)
=============================================================================
