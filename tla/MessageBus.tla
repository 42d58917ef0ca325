----------------------------- MODULE MessageBus -----------------------------
(***************************************************************************)
(* The way of a message inside one agent: from a thread that sends it      *)
(* (Communicator::send, Protocol::send, NIC::send) or from the thread of   *)
(* the NIC that reads it off the socket (NIC::process_incoming_data),      *)
(* through the two levels of observers (NIC -> Protocol -> Communicators), *)
(* to the receive thread of every component it is for                      *)
(* (Communicator::receive, SmartData::receive, NIC::get_message_info).     *)
(*                                                                         *)
(* The message travels in a buffer of the pool, shared by all its          *)
(* receivers; what the agent knows of its origin travels apart from it, in *)
(* _attribute_map, under an id that is drawn from a counter all the        *)
(* threads share.                                                          *)
(*                                                                         *)
(* A step ends where another thread can see or change what the thread      *)
(* touches next.  A message is [from, n, to, len, scope]: the n-th message *)
(* of the thread `from', for port `to' (0 is everybody), with a payload of *)
(* length `len', sent to this agent or to the others.  Those of the worker *)
(* come from other agents.  An agent that is shutting down is not modelled *)
(* here.                                                                   *)
(***************************************************************************)
EXTENDS Integers, Sequences, FiniteSets

CONSTANTS
  Senders,      \* threads that call Communicator::send
  Worker,       \* the thread of the NIC, data_processing_thread
  PortOf,       \* the ports of the communicators, in the order they attached
  Destinations, \* the ports messages are sent to
  Scopes,       \* subset of {"local", "external"}: where messages are sent
  Lengths,      \* the lengths of the messages of this agent
  FrameKinds,   \* the frames on the network, as [class, len]
  SIZE,         \* buffers in the pool
  MaxSends,     \* bound on the messages of each sender
  MaxFrames,    \* bound on the frames that arrive
  None          \* no message

Receivers == DOMAIN PortOf
Producers == Senders \cup {Worker}
Threads   == Producers \cup Receivers
Slots     == 0 .. SIZE - 1

\* "pass": a frame of another agent whose MAC verifies; "alien": the same, of
\* another protocol; "drop": any other frame the NIC frees at once (from an RSU,
\* from a quadrant without a known key, with a MAC that does not verify);
\* "short": a frame with no data behind its headers.
FrameClasses == {"pass", "alien", "drop", "short"}

ASSUME BusAssumption ==
  /\ IsFiniteSet(Senders) /\ Worker \notin Senders
  /\ PortOf \in Seq(Nat \ {0})
  /\ Receivers \cap Producers = {}
  /\ Destinations \subseteq Nat
  /\ Scopes \subseteq {"local", "external"}
  /\ Lengths \subseteq Nat
  /\ FrameKinds \subseteq [class : FrameClasses, len : Nat]
  /\ SIZE \in Nat \ {0} /\ MaxSends \in Nat /\ MaxFrames \in Nat

VARIABLES
  in_use,             \* BufferPool::_in_use
  reference_counter,  \* Buffer::_reference_counter
  free_buffers,       \* BufferPool::_free_buffers
  frame,              \* the message in each buffer
  attribute_map_id,   \* NIC::_attribute_map_id
  attribute_map,      \* NIC::_attribute_map: the message each id in it describes
  rivals,             \* history: the pairs of messages that drew an id while the
                      \* thread of the other one was about to notify with its own
  queue,              \* Concurrent_Observer::_data, pairs of an id and a buffer
  semaphore,          \* Concurrent_Observer::_semaphore
  wire,               \* frames in the receive queue of the socket
  sigio,              \* whether the signal SIGIO is pending
  sem,                \* NIC::_sem, posted by sigio_handler
  missed,             \* history: the worker left frames in the socket
  pc,                 \* where each thread is
  sent,               \* messages each producer has begun so far
  out,                \* the message a producer is working on
  buf,                \* the buffer a producer holds
  rest,               \* the observers notify has still to update
  id,                 \* the id notify was called with
  pair,               \* what a receiver took from its queue
  got,                \* the message a receiver copied out
  info,               \* what get_message_info returned
  last                \* history: last message each receiver got of each producer

pool     == <<in_use, reference_counter, free_buffers>>
map      == <<attribute_map_id, attribute_map, rivals>>
queues   == <<queue, semaphore>>
socket   == <<wire, sigio, sem, missed>>
producer == <<sent, out, buf, rest, id>>
receiver == <<pair, got, info, last>>
vars     == <<pool, frame, map, queues, socket, pc, producer, receiver>>

Messages == [from : Producers, n : Nat,
             to : Destinations, len : Lengths \cup {k.len : k \in FrameKinds},
             scope : {"local", "external", "alien"}]

\* A queue entry: the id and the buffer of the pair, and the message it is for.
Pairs == [id : Nat, slot : Slots, msg : Messages]

ProducerPlaces == {"idle", "alloc", "scan", "fill", "raw", "recv", "nextid",
                   "map", "notify", "update", "post", "free", "signal", "erase"}
ReceiverPlaces == {"wait", "remove", "copy", "free", "signal", "length",
                   "info", "use"}

PoolOK ==
  /\ in_use \in [Slots -> BOOLEAN]
  /\ reference_counter \in [Slots -> Int]
  /\ free_buffers \in Nat

MapOK ==
  /\ attribute_map_id \in Nat
  /\ \A key \in DOMAIN attribute_map : key \in Nat /\ attribute_map[key] \in Messages
  /\ rivals \subseteq SUBSET Messages

QueuesOK ==
  /\ queue \in [Receivers -> Seq(Pairs)]
  /\ semaphore \in [Receivers -> Nat]

SocketOK ==
  /\ wire \in 0 .. MaxFrames /\ sem \in Nat
  /\ sigio \in BOOLEAN /\ missed \in BOOLEAN

PlacesOK ==
  /\ DOMAIN pc = Threads
  /\ \A t \in Producers : pc[t] \in ProducerPlaces
  /\ \A r \in Receivers : pc[r] \in ReceiverPlaces

ProducersOK ==
  /\ sent \in [Producers -> Nat]
  /\ out \in [Producers -> Messages \cup {None}]
  /\ buf \in [Producers -> Slots]
  /\ rest \in [Producers -> SUBSET Receivers]
  /\ id \in [Producers -> Nat]

ReceiversOK ==
  /\ pair \in [Receivers -> Pairs \cup {None}]
  /\ got \in [Receivers -> Messages \cup {None}]
  /\ info \in [Receivers -> Messages \cup {None}]
  /\ last \in [Receivers -> [Producers -> Nat]]

TypeOK ==
  /\ PoolOK /\ MapOK /\ QueuesOK /\ SocketOK /\ PlacesOK /\ ProducersOK /\ ReceiversOK
  /\ frame \in [Slots -> Messages \cup {None}]

-----------------------------------------------------------------------------
Init ==
  /\ in_use = [i \in Slots |-> FALSE]
  /\ reference_counter = [i \in Slots |-> 0]
  /\ free_buffers = SIZE
  /\ frame = [i \in Slots |-> None]
  /\ attribute_map_id = 0
  /\ attribute_map = [key \in {} |-> None]
  /\ rivals = {}
  /\ queue = [r \in Receivers |-> <<>>]
  /\ semaphore = [r \in Receivers |-> 0]
  /\ wire = 0 /\ sigio = FALSE /\ sem = 0 /\ missed = FALSE
  /\ pc = [t \in Threads |-> IF t \in Receivers THEN "wait" ELSE "idle"]
  /\ sent = [p \in Producers |-> 0]
  /\ out = [p \in Producers |-> None]
  /\ buf = [p \in Producers |-> 0]
  /\ rest = [p \in Producers |-> {}]
  /\ id = [p \in Producers |-> 0]
  /\ pair = [r \in Receivers |-> None]
  /\ got = [r \in Receivers |-> None]
  /\ info = [r \in Receivers |-> None]
  /\ last = [r \in Receivers |-> [p \in Producers |-> 0]]

Goto(t, place) == pc' = [pc EXCEPT ![t] = place]

\* Thread t is done with its message and its local variables go out of scope: a
\* sender returns to its caller, a receiver goes on to the next message, and the
\* worker to the next frame unless it has found none.
Return(t) ==
  IF t \in Receivers
    THEN /\ Goto(t, "wait")
         /\ pair' = [pair EXCEPT ![t] = None]
         /\ got' = [got EXCEPT ![t] = None]
         /\ info' = [info EXCEPT ![t] = None]
         /\ UNCHANGED <<producer, last>>
    ELSE /\ Goto(t, IF t = Worker /\ out[t] # None THEN "alloc" ELSE "idle")
         /\ out' = [out EXCEPT ![t] = None]
         /\ buf' = [buf EXCEPT ![t] = 0]
         /\ rest' = [rest EXCEPT ![t] = {}]
         /\ id' = [id EXCEPT ![t] = 0]
         /\ UNCHANGED <<sent, receiver>>

\* Protocol::receive goes on after its call of free; the others return.
AfterFree(t) ==
  IF t \in Receivers THEN Goto(t, "length") /\ UNCHANGED <<producer, receiver>>
                     ELSE Return(t)

-----------------------------------------------------------------------------
\* The pool (see BufferPool).

\* Protocol::send and process_incoming_data: NIC::alloc waits for a buffer ...
AllocWait(t) ==
  /\ pc[t] = "alloc"
  /\ free_buffers > 0
  /\ free_buffers' = free_buffers - 1
  /\ Goto(t, "scan")
  /\ UNCHANGED <<in_use, reference_counter, frame, map, queues, socket,
                 producer, receiver>>

\* ... and claims it; the worker then reads the socket into it.
AllocScan(t) ==
  /\ pc[t] = "scan"
  /\ \E i \in Slots :
       /\ ~ in_use[i] /\ \A j \in 0 .. i - 1 : in_use[j]
       /\ in_use' = [in_use EXCEPT ![i] = TRUE]
       /\ reference_counter' = [reference_counter EXCEPT ![i] = 1]
       /\ buf' = [buf EXCEPT ![t] = i]
  /\ Goto(t, IF t = Worker THEN "recv" ELSE "fill")
  /\ UNCHANGED <<free_buffers, frame, map, queues, socket, sent, out, rest, id,
                 receiver>>

\* A slip: the slot is given back whatever its counter says.
ReleaseAtOnce(t, i) ==
  /\ pc[t] = "free"
  /\ reference_counter' = [reference_counter EXCEPT ![i] = @ - 1]
  /\ in_use' = [in_use EXCEPT ![i] = FALSE]
  /\ IF in_use[i]
       THEN Goto(t, "signal") /\ UNCHANGED <<producer, receiver>>
       ELSE AfterFree(t)
  /\ UNCHANGED <<free_buffers, frame, map, queues, socket>>

\* BufferPool::free, called by thread t with slot i: the critical section, after
\* which t signals if it gave the slot back.
Release(t, i) ==
  /\ pc[t] = "free"
  /\ reference_counter' = [reference_counter EXCEPT ![i] = @ - 1]
  /\ in_use' = [in_use EXCEPT ![i] = @ /\ reference_counter[i] > 1]
  /\ IF in_use[i] /\ reference_counter[i] <= 1
       THEN Goto(t, "signal") /\ UNCHANGED <<producer, receiver>>
       ELSE AfterFree(t)
  /\ UNCHANGED <<free_buffers, frame, map, queues, socket>>

\* BufferPool::free: the v() after the critical section.
FreeSignal(t) ==
  /\ pc[t] = "signal"
  /\ free_buffers' = free_buffers + 1
  /\ AfterFree(t)
  /\ UNCHANGED <<in_use, reference_counter, frame, map, queues, socket>>

\* A producer that handed its buffer to nobody frees it: NIC::send after
\* raw_send, Protocol::update when no observer wants the message, and the frames
\* process_incoming_data does not pass on.
ProducerFree(t) == Release(t, buf[t])

-----------------------------------------------------------------------------
\* Sending.

\* A thread of a component begins to send a message.
StartSend(t) ==
  /\ pc[t] = "idle"
  /\ sent[t] < MaxSends
  /\ \E to \in Destinations, len \in Lengths, scope \in Scopes :
       out' = [out EXCEPT ![t] = [from |-> t, n |-> sent[t] + 1, to |-> to,
                                  len |-> len, scope |-> scope]]
  /\ sent' = [sent EXCEPT ![t] = @ + 1]
  /\ Goto(t, "alloc")
  /\ UNCHANGED <<pool, frame, map, queues, socket, buf, rest, id, receiver>>

\* Protocol::send writes the packet into its buffer and calls NIC::send, which
\* passes a message for this agent to its observers.
Fill(t) ==
  /\ pc[t] = "fill"
  /\ frame' = [frame EXCEPT ![buf[t]] = out[t]]
  /\ Goto(t, IF out[t].scope = "local" THEN "nextid" ELSE "raw")
  /\ UNCHANGED <<pool, map, queues, socket, producer, receiver>>

\* NIC::send puts any other message on the network, which changes nothing here.
RawSend(t) ==
  /\ pc[t] = "raw"
  /\ Goto(t, "free")
  /\ UNCHANGED <<pool, frame, map, queues, socket, producer, receiver>>

\* The threads that have drawn an id and not yet called notify, and what becomes of
\* the history when thread t draws one as well.
Exposed(t) == pc[t] \in {"map", "notify"}

Meets(t) ==
  rivals' = rivals \cup {{out[t], out[u]} : u \in {p \in Producers \ {t} : Exposed(p)}}

\* A slip: the worker forgets to draw an id.
NextIdForgotten(t) ==
  /\ pc[t] = "nextid"
  /\ attribute_map_id' = IF t = Worker THEN attribute_map_id ELSE attribute_map_id + 1
  /\ Meets(t)
  /\ Goto(t, "map")
  /\ UNCHANGED <<pool, frame, attribute_map, queues, socket, producer, receiver>>

\* NIC::send and process_incoming_data: _attribute_map_id++.
NextId(t) ==
  /\ pc[t] = "nextid"
  /\ attribute_map_id' = attribute_map_id + 1
  /\ Meets(t)
  /\ Goto(t, "map")
  /\ UNCHANGED <<pool, frame, attribute_map, queues, socket, producer, receiver>>

\* The map with an entry assigned, and without one.
Assign(key, m) ==
  [x \in DOMAIN attribute_map \cup {key} |-> IF x = key THEN m ELSE attribute_map[x]]
Without(key) ==
  [x \in DOMAIN attribute_map \ {key} |-> attribute_map[x]]

\* The two of them: the map is written, under its mutex, at whatever id the
\* counter stands at by now.
MapWrite(t) ==
  /\ pc[t] = "map"
  /\ attribute_map' = Assign(attribute_map_id, out[t])
  /\ Goto(t, "notify")
  /\ UNCHANGED <<pool, frame, attribute_map_id, rivals, queues, socket, producer,
                 receiver>>

\* The observers Concurrent_Observed::notify updates, and which of them is next.
Matching(m) == {r \in Receivers : m.to = 0 \/ PortOf[r] = m.to}

First(r, waiting) == r \in waiting /\ \A q \in waiting : r <= q

\* A slip: notify leaves the reference counter of the buffer at 1.
NotifyUncounted(t) ==
  /\ pc[t] = "notify"
  /\ id' = [id EXCEPT ![t] = attribute_map_id]
  /\ rest' = [rest EXCEPT ![t] = Matching(out[t])]
  /\ Goto(t, IF rest'[t] = {} THEN "free" ELSE "update")
  /\ UNCHANGED <<pool, frame, map, queues, socket, sent, out, buf, receiver>>

\* The counter is read once more for the call of notify, which sets the
\* buffer's reference counter to the number of observers it will update.
Notify(t) ==
  LET m == out[t] IN
  /\ pc[t] = "notify"
  /\ id' = [id EXCEPT ![t] = attribute_map_id]
  /\ IF m.scope = "alien"
       THEN /\ Goto(t, "erase")
            /\ UNCHANGED <<rest, reference_counter>>
     ELSE IF Matching(m) = {}
       THEN /\ Goto(t, "free")
            /\ UNCHANGED <<rest, reference_counter>>
       ELSE /\ rest' = [rest EXCEPT ![t] = Matching(m)]
            /\ reference_counter' =
                 [reference_counter EXCEPT ![buf[t]] = Cardinality(Matching(m))]
            /\ Goto(t, "update")
  /\ UNCHANGED <<in_use, free_buffers, frame, map, queues, socket, sent, out, buf,
                 receiver>>

\* A slip: the frame nobody observes is not freed.
EraseWithoutFree(t) ==
  /\ pc[t] = "erase"
  /\ attribute_map' = Without(attribute_map_id)
  /\ Return(t)
  /\ UNCHANGED <<pool, frame, attribute_map_id, rivals, queues, socket>>

\* process_incoming_data: no observer of the NIC has the frame's protocol; the
\* entry at the counter is erased, without the mutex.
Erase(t) ==
  /\ pc[t] = "erase"
  /\ attribute_map' = Without(attribute_map_id)
  /\ Goto(t, "free")
  /\ UNCHANGED <<pool, frame, attribute_map_id, rivals, queues, socket, producer,
                 receiver>>

\* Concurrent_Observer::update, one observer after the other: the pair is
\* appended to the observer's list ...
Update(t) ==
  /\ pc[t] = "update"
  /\ \E r \in Receivers :
       /\ First(r, rest[t])
       /\ queue' = [queue EXCEPT ![r] =
                      Append(@, [id |-> id[t], slot |-> buf[t], msg |-> out[t]])]
  /\ Goto(t, "post")
  /\ UNCHANGED <<pool, frame, map, semaphore, socket, producer, receiver>>

\* A slip: only an observer that is waiting is signalled.
PostIfWaiting(t) ==
  /\ pc[t] = "post"
  /\ \E r \in Receivers :
       /\ First(r, rest[t])
       /\ semaphore' =
            [semaphore EXCEPT ![r] = @ + (IF pc[r] = "wait" THEN 1 ELSE 0)]
       /\ IF rest[t] = {r}
            THEN Return(t)
            ELSE /\ rest' = [rest EXCEPT ![t] = @ \ {r}]
                 /\ Goto(t, "update")
                 /\ UNCHANGED <<sent, out, buf, id, receiver>>
  /\ UNCHANGED <<pool, frame, map, queue, socket>>

\* ... and its semaphore is signalled.
Post(t) ==
  /\ pc[t] = "post"
  /\ \E r \in Receivers :
       /\ First(r, rest[t])
       /\ semaphore' = [semaphore EXCEPT ![r] = @ + 1]
       /\ IF rest[t] = {r}
            THEN Return(t)
            ELSE /\ rest' = [rest EXCEPT ![t] = @ \ {r}]
                 /\ Goto(t, "update")
                 /\ UNCHANGED <<sent, out, buf, id, receiver>>
  /\ UNCHANGED <<pool, frame, map, queue, socket>>

-----------------------------------------------------------------------------
\* The worker of the NIC.

\* A slip: no signal comes for a frame while the worker is awake.
ArriveUnsignalled ==
  /\ sent[Worker] + wire < MaxFrames
  /\ wire' = wire + 1
  /\ sigio' = (sigio \/ pc[Worker] = "idle")
  /\ UNCHANGED <<pool, frame, map, queues, sem, missed, pc, producer, receiver>>

\* A frame arrives, and the socket raises SIGIO.  A signal that is pending already
\* is not raised again.
Arrive ==
  /\ sent[Worker] + wire < MaxFrames
  /\ wire' = wire + 1
  /\ sigio' = TRUE
  /\ UNCHANGED <<pool, frame, map, queues, sem, missed, pc, producer, receiver>>

\* sigio_handler, in whatever thread it interrupts.
HandleSignal ==
  /\ sigio
  /\ sigio' = FALSE
  /\ sem' = sem + 1
  /\ UNCHANGED <<pool, frame, map, queues, wire, missed, pc, producer, receiver>>

\* data_processing_thread: sem_wait, then process_incoming_data.
Wake(t) ==
  /\ t = Worker /\ pc[t] = "idle"
  /\ sem > 0
  /\ sem' = sem - 1
  /\ Goto(t, "alloc")
  /\ UNCHANGED <<pool, frame, map, queues, wire, sigio, missed, producer, receiver>>

\* raw_receive finds a frame, process_incoming_data classifies it.
ReceiveFrame(t) ==
  /\ pc[t] = "recv"
  /\ wire > 0
  /\ wire' = wire - 1
  /\ sent' = [sent EXCEPT ![t] = @ + 1]
  /\ \E k \in {f \in FrameKinds : f.class # "short"}, to \in Destinations :
       LET m == [from |-> t, n |-> sent[t] + 1, to |-> to, len |-> k.len,
                 scope |-> IF k.class = "alien" THEN "alien" ELSE "external"]
       IN  /\ frame' = [frame EXCEPT ![buf[t]] = m]
           /\ out' = [out EXCEPT ![t] = m]
           /\ Goto(t, IF k.class = "drop" THEN "free" ELSE "nextid")
  /\ UNCHANGED <<pool, map, queues, sigio, sem, missed, buf, rest, id, receiver>>

\* raw_receive finds no frame, fails, or finds one that is too short to write
\* to the buffer: in every case the worker frees it and waits for _sem again,
\* although more frames may be in the socket.
ReceiveNothing(t) ==
  /\ pc[t] = "recv"
  /\ \/ UNCHANGED <<wire, sent>>
     \/ /\ wire > 0
        /\ \E k \in FrameKinds : k.class = "short"
        /\ wire' = wire - 1
        /\ sent' = [sent EXCEPT ![t] = @ + 1]
  /\ missed' = (missed \/ wire' > 0)
  /\ out' = [out EXCEPT ![t] = None]
  /\ Goto(t, "free")
  /\ UNCHANGED <<pool, frame, map, queues, sigio, sem, buf, rest, id, receiver>>

-----------------------------------------------------------------------------
\* Receiving: SmartData::receive calls Communicator::receive in a loop.

\* Slips: going on without waiting, and waiting without taking the token.
AwaitPostNot(r) ==
  /\ pc[r] = "wait"
  /\ semaphore' = [semaphore EXCEPT ![r] = @ - 1]
  /\ Goto(r, "remove")
  /\ UNCHANGED <<pool, frame, map, queue, socket, producer, receiver>>

AwaitPostForever(r) ==
  /\ pc[r] = "wait"
  /\ semaphore[r] > 0
  /\ Goto(r, "remove")
  /\ UNCHANGED <<pool, frame, map, queues, socket, producer, receiver>>

\* Concurrent_Observer::updated: p() returns ...
AwaitPost(r) ==
  /\ pc[r] = "wait"
  /\ semaphore[r] > 0
  /\ semaphore' = [semaphore EXCEPT ![r] = @ - 1]
  /\ Goto(r, "remove")
  /\ UNCHANGED <<pool, frame, map, queue, socket, producer, receiver>>

\* A slip: the first pair is taken and stays in the list.
RemoveNot(r) ==
  /\ pc[r] = "remove"
  /\ queue[r] # <<>>
  /\ pair' = [pair EXCEPT ![r] = Head(queue[r])]
  /\ Goto(r, "copy")
  /\ UNCHANGED <<pool, frame, map, queues, socket, producer, got, info, last>>

\* ... and the first pair of the list is removed.
Remove(r) ==
  /\ pc[r] = "remove"
  /\ queue[r] # <<>>
  /\ pair' = [pair EXCEPT ![r] = Head(queue[r])]
  /\ queue' = [queue EXCEPT ![r] = Tail(@)]
  /\ Goto(r, "copy")
  /\ UNCHANGED <<pool, frame, map, semaphore, socket, producer, got, info,
                 last>>

\* A slip: Protocol::receive returns without freeing the buffer.
CopyWithoutFree(r) ==
  LET m == frame[pair[r].slot] IN
  /\ pc[r] = "copy"
  /\ got' = [got EXCEPT ![r] = m]
  /\ last' = [last EXCEPT ![r][m.from] = m.n]
  /\ Goto(r, "length")
  /\ UNCHANGED <<pool, frame, map, queues, socket, producer, pair, info>>

\* Protocol::receive copies the payload out of the buffer ...
Copy(r) ==
  LET m == frame[pair[r].slot] IN
  /\ pc[r] = "copy"
  /\ got' = [got EXCEPT ![r] = m]
  /\ last' = [last EXCEPT ![r][m.from] = m.n]
  /\ Goto(r, "free")
  /\ UNCHANGED <<pool, frame, map, queues, socket, producer, pair, info>>

\* ... frees the buffer ...
ReceiverFree(r) == Release(r, pair[r].slot)

\* ... and then reads the length to return from the buffer it has freed, which may
\* hold another message by now.  Communicator::receive gives up when it is 0.
Length(r) ==
  /\ pc[r] = "length"
  /\ IF frame[pair[r].slot].len > 0
       THEN Goto(r, "info") /\ UNCHANGED <<producer, receiver>>
       ELSE Return(r)
  /\ UNCHANGED <<pool, frame, map, queues, socket>>

\* SmartData::receive has no use for the message, or has made use of it.
Ignore(r) ==
  /\ pc[r] = "info"
  /\ Return(r)
  /\ UNCHANGED <<pool, frame, map, queues, socket>>

\* NIC::get_message_info looks the id up, without the mutex: while another
\* thread inserts into the hash map, it may not find an entry that is there.
GetMessageInfo(r) ==
  /\ pc[r] = "info"
  /\ \/ /\ pair[r].id \in DOMAIN attribute_map
        /\ info' = [info EXCEPT ![r] = attribute_map[pair[r].id]]
     \/ /\ pair[r].id \notin DOMAIN attribute_map \/ \E p \in Producers : pc[p] = "map"
        /\ info' = [info EXCEPT ![r] = None]
  /\ Goto(r, "use")
  /\ UNCHANGED <<pool, frame, map, queues, socket, producer, pair, got, last>>

\* get_message_info writes the entry of a message of this agent back, under the
\* mutex, before it returns; the component uses message and info.
UseInfo(r) ==
  /\ pc[r] = "use"
  /\ attribute_map' = IF info[r] # None /\ info[r].from \in Senders
                        THEN Assign(pair[r].id, info[r])
                        ELSE attribute_map
  /\ Return(r)
  /\ UNCHANGED <<pool, frame, attribute_map_id, rivals, queues, socket>>

-----------------------------------------------------------------------------
Produce(t) ==
  \/ AllocWait(t) \/ AllocScan(t) \/ NextId(t) \/ MapWrite(t) \/ Notify(t)
  \/ Update(t) \/ Post(t) \/ ProducerFree(t) \/ FreeSignal(t)

Send(t) == Fill(t) \/ RawSend(t) \/ Produce(t)

Work(t) == Wake(t) \/ ReceiveFrame(t) \/ ReceiveNothing(t) \/ Erase(t) \/ Produce(t)

Receive(r) ==
  \/ AwaitPost(r) \/ Remove(r) \/ Copy(r) \/ ReceiverFree(r) \/ FreeSignal(r)
  \/ Length(r) \/ Ignore(r) \/ GetMessageInfo(r) \/ UseInfo(r)

Next ==
  \/ \E t \in Senders : StartSend(t) \/ Send(t)
  \/ Arrive \/ HandleSignal
  \/ Work(Worker)
  \/ \E r \in Receivers : Receive(r)

Spec == Init /\ [][Next]_vars

(***************************************************************************)
(* Every thread goes on as long as it can: the scheduler runs them all,    *)
(* the mutexes are held for a few instructions only, and a semaphore that  *)
(* stays positive lets its waiter through.  Nothing makes a component send *)
(* or a frame arrive.                                                      *)
(***************************************************************************)
FairSpec ==
  /\ Spec
  /\ \A t \in Senders : WF_vars(Send(t))
  /\ WF_vars(HandleSignal) /\ WF_vars(Work(Worker))
  /\ \A r \in Receivers : WF_vars(Receive(r))

-----------------------------------------------------------------------------
\* The threads that still have to free slot i: the producer that has not notified
\* yet, and the receivers it is queued for, or will be.
HoldsAlone(t, i) ==
  /\ buf[t] = i
  /\ pc[t] \in {"fill", "raw", "recv", "nextid", "map", "notify", "erase",
               "free"}
StillUpdating(t, i, r) ==
  /\ buf[t] = i
  /\ r \in rest[t]
  /\ pc[t] = "update" \/ (pc[t] = "post" /\ ~ First(r, rest[t]))
Queued(r, i) == \E k \in DOMAIN queue[r] : queue[r][k].slot = i
InHand(r, i) == pc[r] \in {"copy", "free"} /\ pair[r].slot = i

Keepers(i) == {t \in Producers : HoldsAlone(t, i)}
Readers(i) ==
  {r \in Receivers : \/ Queued(r, i) \/ InHand(r, i)
                     \/ \E t \in Producers : StillUpdating(t, i, r)}

(***************************************************************************)
(* The bus keeps the contract of the pool it uses, and the pool does what  *)
(* BufferPool says: the counter of a buffer is set by the thread that      *)
(* holds it alone, to the number of receivers it is about to be queued     *)
(* for, and each of them frees it once (Concurrent_Observed::notify,       *)
(* Protocol::update, Protocol::receive, NIC::send).  All theorems about    *)
(* BufferPool hold of this pool as well.                                   *)
(***************************************************************************)
Pool == INSTANCE BufferPool WITH
  MaxRefs <- Len(PortOf),
  MaxStops <- 0,
  pc <- [t \in Threads |-> IF pc[t] \in {"scan", "signal"} THEN pc[t] ELSE "idle"],
  owed <- [i \in Slots |-> Cardinality(Keepers(i)) + Cardinality(Readers(i))],
  stops <- 0,
  nulls <- 0

UsesPool == Pool!Spec

(***************************************************************************)
(* A buffer is not reused under a receiver: from the moment a message is   *)
(* queued until its receiver has copied it out, its buffer is taken and    *)
(* still holds that message, although every other receiver of the message  *)
(* frees the same buffer in the meantime (notify, Protocol::receive).      *)
(***************************************************************************)
Intact(p) == in_use[p.slot] /\ frame[p.slot] = p.msg

QueuedIntact ==
  \A r \in Receivers :
    /\ \A k \in DOMAIN queue[r] : Intact(queue[r][k])
    /\ pc[r] = "copy" => Intact(pair[r])

(***************************************************************************)
(* A receiver that got through the semaphore finds a pair in its list: the *)
(* pair is inserted before the signal, so that updated() never returns     *)
(* null (and Communicator::receive no failure) while the agent runs.       *)
(***************************************************************************)
UpdatedNeverNull ==
  \A r \in Receivers : pc[r] = "remove" => queue[r] # <<>>

(***************************************************************************)
(* A receiver sees the messages of one thread in the order it sent them,   *)
(* and none twice, whatever else is queued between them: what              *)
(* Protocol::receive copies out is newer than all it has copied of that    *)
(* thread before.                                                          *)
(***************************************************************************)
GetsNewer ==
  \A r \in Receivers :
    pc[r] = "copy" /\ pc'[r] # "copy" => got'[r].n > last[r][got'[r].from]
FifoPerProducer == [][GetsNewer]_vars

(***************************************************************************)
(* When everybody waits, for a message, a frame or a buffer, then every    *)
(* buffer is free and every list is empty: on no path is a buffer, its     *)
(* token or a signal lost, and nobody who waits for a buffer waits for     *)
(* others that wait as well (NIC::send, process_incoming_data, notify,     *)
(* Protocol::receive, BufferPool::alloc and free).                         *)
(***************************************************************************)
Waits(t) ==
  IF t \in Receivers THEN pc[t] = "wait" /\ semaphore[t] = 0
                     ELSE pc[t] \in {"idle", "alloc"}

NothingLeaks ==
  (\A t \in Threads : Waits(t)) =>
    free_buffers = SIZE /\ \A r \in Receivers : queue[r] = <<>>

(***************************************************************************)
(* What get_message_info says of a message is about that message, or about *)
(* one whose thread was between _attribute_map_id++ and notify at the same *)
(* time, or nothing.  So two threads that notify at once may swap what is  *)
(* known of their two messages, but those before and after are safe,       *)
(* whatever is written back to the map, erased from it or still queued.    *)
(***************************************************************************)
Confusable(m, o) == m = o \/ {m, o} \in rivals

OnlyRivalsConfused ==
  \A r \in Receivers : info[r] # None => Confusable(info[r], got[r])

(***************************************************************************)
(* A component takes what is said to be its own agent's for its own: the   *)
(* controller stores it as "Own GPS data" (ControllerComponent::           *)
(* process_data).                                                          *)
(***************************************************************************)
OwnDataIsOwn ==
  \A r \in Receivers :
    info[r] # None /\ info[r].from \in Senders => got[r].from \in Senders

(***************************************************************************)
(* Buffers come back: every sender that waits for a buffer gets one and    *)
(* returns, and once nobody sends, every buffer is free again.  Needs      *)
(* every receiver to go on receiving.                                      *)
(***************************************************************************)
SendReturns == \A t \in Senders : pc[t] = "alloc" ~> pc[t] = "idle"
BuffersComeBack == []<>(free_buffers = SIZE)

(***************************************************************************)
(* What is queued for a receiver is received.                              *)
(***************************************************************************)
QueuesDrain == \A r \in Receivers : queue[r] # <<>> ~> queue[r] = <<>>

(***************************************************************************)
(* One signal may stand for several frames, and none is forgotten: the     *)
(* worker takes whatever is in the socket until it finds nothing           *)
(* (process_incoming_data), unless a frame without data or an error made   *)
(* it believe that there was no more.                                      *)
(***************************************************************************)
FramesDrain == wire > 0 ~> wire = 0 \/ missed
=============================================================================
