# A formal model of the V2X communication API

TLA+ modules that model the communication library in `header/` and `source/`,
TLC configurations that check them on small instances, and proofs, checked by
TLAPS, that hold for any number of threads and buffers.

All paths below are relative to the repository.

## 1. The system

`source/main.cpp` forks one process per agent: four RSUs (road-side units, one
per quadrant) and a stream of vehicles with a limited lifetime. Processes talk
over raw Ethernet frames only. Inside each process:

| Component | State it keeps | Operations | Talks to |
|---|---|---|---|
| Raw socket engine (`header/raw_socket_engine.h`) | the socket | `raw_send`, `raw_receive` | network, NIC |
| NIC (`header/nic.h`) | pool, quadrant, `_send_mac_key`, `_unicast_addr`, `_attribute_map` and `_attribute_map_id`, vehicle table, key cache, own key, clock | `alloc`, `send`, `free`, `get_message_info`, `set_quadrant`, `process_incoming_data` in a worker thread woken by SIGIO, `stop` | Protocol (observer), engine |
| Buffer pool, buffer (`header/buffer_pool.h`, `header/buffer.h`) | slots in use, reference counters, a semaphore | `alloc`, `free`, `stop`, `set_reference_counter` | NIC, Protocol, observers |
| Semaphore (`source/semaphore.cpp`) | counter, mutex, condition variable | `p`, `try_p`, `v`, `count` | pool, observers |
| Observers (`header/observer.h`, `header/list.h`, `header/ordered_list.h`) | lists of observers; per observer a list of pairs and a semaphore | `attach`, `detach`, `notify`, `update`, `updated`, `stop` | NIC → Protocol → Communicators |
| Protocol (`header/protocol.h`) | the NIC, the observed communicators | `send`, `receive`, `update`, `attach`, `detach` | NIC, Communicators |
| Communicator (`header/communicator.h`) | `_running`, its queue | `send`, `receive`, `stop` | Protocol, SmartData, RSU |
| SmartData, interest table (`source/smart_data.cpp`, `header/interest_table.h`) | interests received, response periods, three periodic threads, the receive thread | `start`, `stop`, `register_component`, `receive`, `send_*` | Communicator, component |
| Periodic threads (`header/period_thread.h`) | period, runtime, `running` | `start`, `stop`, `update` | SmartData, components, RSU |
| Components (`source/component.cpp`, `source/*_component.cpp`) | a value, interests | `start`, `stop`, `run`, `process_data` | SmartData, NIC |
| Agents (`source/vehicle.cpp`, `source/rsu.cpp`) | components or keys, the quadrant | `start`, `run`, `stop`, `send_sync_messages` | NIC, components |
| Key distribution (`header/nic.h`, `source/vehicle_table.cpp`, `header/lru-cache/`, `source/mac_handler.cpp`) | vehicle table, key cache, own key | `check_vehicle`, `set_vehicle`, `get`, `put`, `generate_mac`, `verify_mac` | RSU and vehicle NICs |
| Time keeper (`source/time_keeper.cpp`) | `t1`..`t4`, offset, sync state, `last_update` | `update_time_keeper`, `update_sync_status`, `get_system_timestamp` | NIC |

A message to the own agent goes `Communicator::send` → `Protocol::send`
(allocates a buffer, fills it) → `NIC::send` (draws an id, records the origin of
the message under it, notifies) → `Protocol::update` → `Concurrent_Observed::notify`
(sets the reference counter to the number of receivers, queues the buffer for
each) → `Communicator::receive` in each receive thread (copies the payload out,
frees the buffer) → `SmartData::receive`, which asks the NIC for the origin by
the id. A frame of another agent enters at the NIC's worker thread and takes the
same way from the id on.

### What is hard

* **Concurrency.** A vehicle has some twenty threads: per component a task
  thread, an interest thread, two response threads and a receive thread, and the
  worker of the NIC. All of them share one pool, one id counter, one map.
* **Shared buffers.** One buffer is freed by several receivers, and a slot that
  is given back is reused at once.
* **Split operations.** The pool, the semaphore and the observers each do in
  two steps (counter and slot, increment and notify, insert and post) what
  callers take for one. The NIC reads the id counter three times per message.
* **Blocking.** `alloc` blocks senders and the worker alike; what unblocks them
  is receivers that go on receiving.
* **Starting and stopping.** Components stop one after the other while the
  others still send; communicators are detached and deleted while messages are
  on their way.
* **The network.** Frames are lost, arrive late or from the previous quadrant;
  keys and clock samples come in sequences that assume they are not.

### What makes each component correct

* Pool: a buffer is taken exactly as long as somebody has to free it; the
  semaphore counts the free slots; `alloc` fails only at shutdown.
* Semaphore: a counting semaphore; no lost wakeup.
* Observers, Protocol, Communicator, NIC: nobody's buffer is reused under him;
  every receiver gets each message once, in the order of its sender; buffers come
  back; what is said of a message's origin and size is true of that message.
* SmartData: the response period divides every registered period; every
  interest of every component is served; threads stop.
* Keys: a vehicle that stays in a quadrant gets that quadrant's keys; a message
  verifies exactly when the keys allow it.
* Time keeper: stamps are right to within the delay of messages, whichever of
  them are lost; an expired synchronization is not claimed, a fresh one is.

## 2. Modules

| Module | Models | Depends on |
|---|---|---|
| `BufferPool` | pool and reference counters, with any clients that keep their contract | |
| `BufferPoolProofs` | theorems about it | `BufferPool` |
| `CountingSemaphore` | the abstract specification of the semaphore | |
| `Semaphore` | mutex, counter, condition variable; refines `CountingSemaphore` | `CountingSemaphore` |
| `SemaphoreProofs` | theorems about it, the refinement among them | `Semaphore` |
| `MessageBus` | the composition NIC, Protocol, observers, Communicator; refines `BufferPool` | `BufferPool` |
| `MessageBusProofs` | theorems about it, the refinement and what it takes over from the pool among them | `MessageBus`, `BufferPoolProofs` |
| `AgentLifecycle` | a vehicle from start to end: its components, their communicators, the pool, the worker | |
| `AgentLifecycleProofs` | theorems about it | `AgentLifecycle` |
| `RecencyList` | the abstract specification of the key cache | |
| `LRUCache` | hash map and linked list of the key cache, on an explicit heap; refines `RecencyList` | `RecencyList` |
| `LRUCacheProofs` | theorems about it, the refinement among them | `LRUCache` |
| `KeyDistribution` | joining, key frames and moving vehicles, across processes | |
| `KeyDistributionProofs` | theorems about it | `KeyDistribution` |
| `SmartData` | a component's life: start, the interests it is sent, its periodic threads, stop | |
| `SmartDataProofs` | theorems about it | `SmartData` |
| `TimeKeeper` | a vehicle's clock, between the NIC's worker and the threads that send | |
| `TimeKeeperProofs` | theorems about it | `TimeKeeper` |
| `MCBufferPool`, `MCSemaphore`, `MCMessageBus`, `MCAgentLifecycle`, `MCLRUCache`, `MCKeyDistribution`, `MCSmartData`, `MCTimeKeeper` | values of the constants for TLC | |

### BufferPool

`in_use`, `reference_counter` and `free_buffers` are the fields of the pool;
`pc` says which threads are between the semaphore and the critical section of
`alloc` ("scan") or between the critical section and the semaphore of `free`
("signal"). A critical section under `_mutex` is one step, and so is each
operation of the semaphore. The clients are not fixed: `owed[i]` counts the
calls of `free` they still have to make for slot `i`, and the contract is the
guard of two actions: `FreeScan` needs a free that is owed, and
`SetReferenceCounter`, which the code does without a lock, needs a caller that
holds the buffer alone. `MessageBus` shows that the code keeps this contract.
`stops` and `nulls` count the calls of `stop` and the allocs that failed.

`FreeScan` decides with `was_in_use` whether to signal, like the code; `Stop`
may come at any time.

### Semaphore

One action per thing another thread can come between: getting the mutex
(`Lock`), the test of the predicate, with the token taken or the thread put to
sleep as the mutex is released (`Test`), the increment (`Increment`), and
`notify_one` after the mutex was released (`NotifyOne`). `WakeSpuriously` is
what `std::condition_variable` allows. `try_p` fails whenever it likes, which
changes nothing. The refinement mapping takes the counter for the tokens and
everybody inside `p()`, asleep or not, for the waiting threads.

In the other modules the semaphore is the abstract one: `p()` is one step that
is enabled while the counter is positive.

### MessageBus

The threads are `Senders` (anything that calls `Communicator::send`), the
`Worker` of the NIC and `Receivers` (the receive threads, one per communicator).
`pc` holds the place of each; a place is a point where another thread can see or
change what comes next:

| Thread | Places |
|---|---|
| sender | idle → alloc → scan → fill → nextid → map → notify → (update → post)\* → idle, or fill → raw → free → signal → idle for other agents |
| worker | idle → alloc → scan → recv → nextid → map → notify → (update → post)\* → alloc, or recv → free → signal → alloc (a frame the NIC drops) or idle (none left); a frame of another protocol goes notify → erase → free |
| receiver | wait → remove → copy → free → signal → length → info → use → wait |

A message is a record `[from, n, to, len, scope]`; queue entries carry, besides
the id and the buffer, the message they are for, so that properties can compare
it with what the buffer holds. `Notify` to a port without observers frees the
buffer (`Protocol::update`). `Length` reads the buffer after it was freed, as
`Protocol::receive` does, so it sees whatever the buffer holds by then.
`GetMessageInfo` searches the map without its mutex: while some thread is
inserting (place "map") it may miss an entry. A thread's local variables are
reset when it is done with a message. `rivals` is history: the pairs of messages of
which one drew its id (`NextId`) while the thread of the other one had drawn one
and not yet called `notify`.

What the classification of a frame depends on (keys, quadrants, MACs) is the
choice of a class in `FrameClasses`; what the NIC does with the frames of RSUs
besides freeing them is in `KeyDistribution` and `TimeKeeper`. A frame may be short
of data, or reading may fail: then the worker waits again (`ReceiveNothing`), and
`missed` records that frames were left in the socket. A frame that arrives raises
SIGIO (`Arrive`); while the signal is pending another one changes nothing, and
`sigio_handler` posts the worker's semaphore once for both (`HandleSignal`). The
observers `notify` updates are a set, of which the one that attached first is
the next: they are numbered in that order.

`Keepers(i)` and `Readers(i)` are the threads that have still to free slot `i`;
their number is `owed[i]` of `BufferPool`, and with it the property `UsesPool` says that every
step of the bus is a step of `BufferPool` or leaves the pool alone. It never
stops the pool, so no alloc of it fails.

### AgentLifecycle

One process of a vehicle, as the child of `main` runs it. Components are numbered
in the order of `Vehicle::_components`. `k` is the one the main thread is at, and
its places follow the code:

start → (alloc → notify → update\*, per internal interest) → start of the next
component …, then for each component: clear (`_running`) → tell → join, for each of
its periodic threads → receiver (the communicator is stopped; its thread is
joined, the communicator detached and deleted) → … → flag → post → pool → worker → gone

| Thread | Places |
|---|---|
| periodic, of SmartData | none → loop → alloc → raw (to other agents), or alloc → notify → update\* → loop; → exit once told |
| receive | none → loop → wait → handle → loop; → exit |
| worker | loop → wait → alloc → recv → notify → update\* → alloc …, recv → loop; → exit |

It is coarser than the modules it stands on: an operation of the pool, of an
observer's list or of a periodic thread is one step (`BufferPool`, `MessageBus`
and `SmartData` have their interleavings), and an interest is handled in the
step that tests `_running` (`SmartData` has what happens when `stop` comes
between). `updated` takes the token and the pair in one step, since only the
receive thread takes either. All messages go to port 0, as those of
SmartData do: to every communicator that is attached.

`lost[b]` says at which component, and by which thread, a reference to buffer
`b` was dropped without a free: by a receive thread that finds its communicator
stopped, by the main thread that deletes a list with pairs in it, or by a thread
that updates a communicator deleted since it copied the observers. The last
writes to freed memory: the pair is gone, or the process ends (`crashed`).

Left out: the thread of `Component::run`, which sends nothing; a periodic thread
that the kernel refuses (`SmartData` has it); that the list of observers is copied
while `detach` changes it, which has no defined outcome. The copy is one step.

### LRUCache

`cache` is the hash map, `links` the `next` and `prev` pointers of nodes and
sentinels, `entry` the key and value of the nodes alive. A node that is deleted
loses its contents and its pointers (`Forget`), so that a pointer to it that is
left behind shows, and `new` takes any free address. One thread uses a cache, so
an operation is one step; `put` is composed of the helpers `remove` and `add` in
the order of the code. The refinement mapping walks the list from the head.

### KeyDistribution

Several processes: the RSUs, of which one serves each quadrant, and vehicles.
Of a process, the threads that matter are the sender and the worker of an RSU's
NIC, and the worker of a vehicle's NIC against its main thread, which moves it.

| Thread | Steps |
|---|---|
| RSU, `send_sync_messages` | `TestFlag` → `CopyAddress` → `Transmit` → `ClearFlag`, or without `CopyAddress` when no keys are to be sent |
| RSU, worker | `Register` (table and flag), then `WriteAddress` |
| vehicle, worker | `TakeKeys` (compares quadrant and address, fills the cache), then `SetKey` (reads the quadrant again) |
| vehicle, main | `Start` (any quadrant, when the NIC works already), `Move` (to the next) |
| vehicle, components | `Send` |

An address copied while the worker writes it is the one before or `Garbage`. A
frame is what receivers look at: quadrant, whether it has keys, and the address
its data begin with. A key in a cache is "complete", "cut" (its end was not
sent) or "none"; the cache is a function because its five places are more than
the quadrants (`LRUCache` has the limit). `SetKey` without a key ends the process,
as the copy from the null pointer does. `answers` and `since` are history.

Left out: which key a message between vehicles is verified with, and the time in
RSU messages (`TimeKeeper` has it). The quadrant of a vehicle's message is read when it is
sent; that it may be sent later is one more delay, which the network has.

### SmartData

One component. The main thread starts it (`Start`, one step: what runs before
`SmartData::start` returns shares nothing with a thread of this component but
its own fields, which are set before) and stops it, in `stage`s:

up → task (the thread of `Component::run` is deleted) → clear (`_running`) →
interest, internal, external (the periodic threads of SmartData are deleted) →
communicator (stopped) → receiver (joined) → gone

A periodic thread `k` is an `object` (none → made → started → told → deleted;
"told" is a thread that was started and has `running` false, while `stop` waits
in `pthread_join`) and a thread at a `place`: new → loaded → run → check → run …,
→ exit. `times` are the two atomics of the object, `attr` what the thread put
into its `sched_attr`, `granted` what the kernel took and `refused` what it refused
last (history). The kernel refuses every runtime longer than the period, and may
refuse any other one, for want of privileges or of bandwidth: a thread that is
refused its first period ends (`header/period_thread.h:51`), one that is
refused another goes on with the old one and does not ask again (line 67). So
`UpdatesTakeEffect` names these exceptions. The receive thread goes loop → wait → check →
handle → (create → launch or update) → loop; the tests of `_running` are
steps of their own, since the main thread clears it meanwhile.

An interest is whose it is and its period; the table has one record per agent, because
`SmartData::receive` writes 0 for the port of its origin (line 158): of two
components of one agent only the later one's period counts. `asked` is history, what
each requester wants; it is forgotten when another component of its agent asks, and
`PeriodIsGcd` is about what is left. All other
messages, and interests in another kind of data, only pass through
(`msg = NoInterest`): the comparison with `next_receive` (line 224) works on a
copy of the interest and discards nothing. `overtaken` is history: `stop` began
after the receive thread's last test of `_running` and before it was done with
an interest. Then it may make a thread, or update one, that was deleted or that
nobody will delete; `NothingLeftBehind` says that this is the only way.
A stop that begins before `SmartData::start` has returned is left out, and so
are the messages themselves.

### TimeKeeper

None of its fields is guarded, and two kinds of thread use them:

| Thread | Places |
|---|---|
| worker, `update_time_keeper` | idle → update → idle (first message of a pair) or update → last → state → idle (second one) |
| sender, `NIC::send` | idle → age (the clock and `last_update` are read, in either order, and compared) → expire → state → stamp → raw → idle, or age → state |

`now` is the time of the RSU and `Skew` what the vehicle's clock is ahead.
Every message that arrives does so within `MaxDelay` of its stamp (`Tick`), the
time the receiving side takes to read its clock included; a message that is
lost, or that comes from another quadrant than the vehicle is in, is one that
`SendSync` does not send. Messages come in the order of their stamps: within a
quadrant they are of one thread of one RSU, and a vehicle moves once a second.
`began` and `during` are history: when a sender
began to ask for the age, and what the worker has stored meanwhile. `t3` and
`t4`, `synchronize_time` and the fake offset, which is 0, have no effect.

The offset of `update_time_keeper` is *(t2 - t1) - ((t4 - t3) + (t2 - t1)) / 2*, half the
difference of the delays of two messages: it does not contain the skew, which
cancels out, and so `StampsAreClose` says that stamps are wrong by the skew and
at most half a delay. All agents run on one host and share its clock, so the
skew is 0 there. `last_update` is not initialized (`Uninitialized`); what is
compared with it before the first pair does no harm.

## 3. Runs

| Run | Question | Instance |
|---|---|---|
| `MCBufferPool` | are the counters and the semaphore exact in every interleaving, with `stop` | 3 threads, 3 buffers, counters up to 3, 2 stops |
| `MCSemaphore` | is it a counting semaphore, is no wakeup lost, are waiting threads let through (its types are proved) | 4 threads, all may call `try_p`, 1 token at first, at most 2 |
| `MCMessageBus` | are buffers safe, messages in order, and what is said of their origin mixed up only between messages sent at the same time | 1 sender with 2 messages, to all or to a port without observer, against 1 frame, 2 buffers, 2 receivers |
| `MCMessageBusLive` | is the pool's contract kept (`UsesPool`), does every path through the NIC free its buffer once (`NothingLeaks`), do senders get buffers, are queues and the socket emptied | 1 sender, 1 message to all or to other agents, 2 frames of every class, 1 buffer |
| `MCMessageBusOwn` | is own data really own, with two producers (it is not) | 1 sender, 1 frame |
| `MCLRUCache` | do map and list stay consistent, is the right entry evicted (its types are proved) | 4 keys, 2 values, capacity 3, 4 addresses |
| `MCKeyDistribution` | does the RSU answer joins only, does a moving vehicle find its key, is a vehicle that stays registered | 1 RSU, 2 vehicles that are set twice, 1 frame under way per receiver, 4 quadrants |
| `MCKeyDistributionJoin` | is every new vehicle answered (it is not) | 1 RSU, 1 vehicle |
| `MCAgentLifecycle` | is no buffer lost but at a component that stops, are deleted communicators left alone, does anybody wait in vain but for a buffer (`OnlyStarvationBlocks`), does the agent stop unless it starves, the NIC always | 2 components, one asks the other, 2 answers to this agent and 1 to another, 1 frame, 2 buffers |
| `MCAgentLifecycleStops` | does a vehicle always stop (it does not) | the same, with a response for a frame |
| `MCSmartData` | are response periods right, do threads take up new ones unless they are refused, does stop end and leave nothing | 4 requesters of 3 agents, 2 interests, periods 20 and 50, the shortest 12 |
| `MCTimeKeeper` | are stamps right and claims of being synchronized true, whatever is lost and however threads interleave | 1 sender, clock 1 ahead, delays up to 2, timeout 1, last_update 0 or 9 at first |

**Bounds.** `MaxRefs`, `MaxStops` (pool), `MaxCount` (semaphore), `MaxSends`,
`MaxFrames` (bus), `MaxSends`, `MaxFrames` (life of an agent),
`MaxMoves`, `MaxQueue` (keys), `MaxInterests` (SmartData),
`MaxTime`, `MaxQueue` (time keeper) cap counters that only repetition would raise. What the
instances must have is: more messages than buffers, so that slots are reused
while receivers are behind; two receivers, so that a buffer is shared and one of
them frees it first; a queue of two, so that order shows; two threads, the sender
and the worker, at once in the pool and at the id counter, and a message after
that, which must not be mixed up any more. Each of them has a
mutant of the code (`PROJECT.json`) that breaks each of its properties within
these bounds. The pool and the semaphore are proved for all sizes.

In `MCSmartData` the divisor of both periods, 10, is shorter than the shortest
period and than the runtime of a thread that was made for 50, so that an
update is refused; two interests are what it takes to make and to update a thread.
The component has no interests in other agents' data: its thread would be one more
like that of `Component::run`.

In `MCTimeKeeper` the time goes up to 4, enough for a pair with delays from 0 to 2,
for it to expire and for a second one. With one sender nobody else resets
`sync_state` while it asks; the theorems are about any number.

**Deadlock** checking is off where a finite number of messages or of signals is
sent and the system then rightly waits for ever; what has to happen before is
stated as a liveness property, and what such a state looks like as an invariant
(`NothingLeaks`, `OnlyStarvationBlocks`).

`MCAgentLifecycle` has two buffers where the program has 32 (`header/traits.h`),
as it has two components, one that answers, instead of five and a few messages
instead of one per thread every few milliseconds. Nothing depends on the number:
a component keeps what it is sent from the moment its receive thread ends until
it is detached, and in between the main thread joins up to three periodic
threads, each within a period of up to half a second, while four components
and the other vehicles in range go on sending. A bound on
the frames is what lets its worker get to the end of the socket:
`process_incoming_data` does not test `_running`, so a network that is never
silent keeps the NIC from stopping.

Four quadrants are as many as the program has, and the fewest in which not
every other quadrant is a neighbour.

**Fairness.** `Semaphore`, `MessageBus`, `AgentLifecycle` and `SmartData` assume weak fairness of each thread's
steps, and nothing else: the scheduler runs every thread that is ready, mutexes
are held for a few instructions. No thread is assumed to send or to wake up
spuriously, no frame or interest to arrive, no component to be started or stopped. Strong fairness of the mutex is not assumed, and
a thread that alternates `try_p` and `v` for ever can keep the others from it:
`LetsWaitersThrough` says that nothing else can. (Only
`tests/semaphore_test.cpp` calls `try_p` at all.)
`KeyDistribution` assumes the same of its threads and, strongly, that a
vehicle's message that is sent again and again is heard by an RSU at some time:
components send every few milliseconds, and the network loses frames, not all of
them. Moving is not fair: a vehicle that keeps moving may be missed.
`TimeKeeper` has no liveness property: nothing makes a message arrive.
`SendReturns` and `BuffersComeBack` need every receiver to go on receiving,
which holds in a running agent only; `AgentLifecycle` shows what becomes of them when
it starts and stops. In `AgentLifecycle` fairness of the main thread also says that the vehicle's
lifetime ends, and that of a periodic thread that it goes on sending, up to its bound.
`HandleSignal` is fair: a pending signal is delivered to some thread.

## 4. What the runs show

The pool, the semaphore and the shared buffers work: no interleaving makes a
buffer available while a receiver still reads it, loses one, or lets a message
arrive twice or before an older one of its sender. The key cache works.
Stopping a component ends, whatever it is doing, and leaves nothing behind
unless it overtakes an interest; but what its threads send must not block, which
the other components of an agent that is being stopped do not ensure (3 below).
The NIC stops in every case, and no frame is forgotten in the socket because
signals are merged. The
comment "Should never reach here" in `alloc` (`header/buffer_pool.h:46`) is true
until `stop()`, after which at most one `alloc` per call fails, though it need
not be the worker's. Three statements of the source and its documents are false:

1. `source/controller_component.cpp:79`, "Own GPS data". `NIC::send` and
   `process_incoming_data` increment `_attribute_map_id` and then read it twice
   more; when a component sends while the worker passes a frame on, both
   messages carry the same id and the frame is taken for the agent's own.
   The damage goes no further: only two messages whose threads were between drawing
   an id and `notify` at the same time can be taken for each other
   (`OnlyRivalsConfused`), none that was sent before or after.
2. `doc/SO2 - Apresentação P7.pdf`, slide 7: an RSU answers new vehicles with the
   keys. A join between the test of
   `_send_mac_key` and its reset (`header/nic.h:230` and 258) is lost, and since
   the vehicle is in the table by then, for good. One between lines 353 and 354
   is answered to another address.
3. `source/main.cpp:141` and 181: vehicles end after their lifetime, and the
   program when they all have. A component that does not receive yet, or not any
   more, is sent messages all the same, and keeps their buffers; pairs in its list
   are never freed. Once every buffer is kept that way, whoever sends blocks in
   `alloc`: the main thread in `Vehicle::start`, or a periodic thread that
   `Vehicle::stop` then waits for. `OnlyStarvationBlocks` and `StopsUnlessStarved`
   say that nothing else keeps a vehicle from stopping; `ClaimsAddUp` says where
   the buffers are.

Three more things have no run of their own. A key frame is sent six bytes
short (`header/nic.h:244` leaves out the address in front of the keys), and the
key of the RSU's own quadrant arrives "cut", as `CacheWith` says. The test
of a key frame's destination is inverted (`header/nic.h:369`, where slide 9
demands that the address be the vehicle's own): a vehicle alone in a quadrant gets
no keys, except when 2 sends its answer to another address, and every other one takes
them (`TakesKeysFor`). And, when another thread takes the buffer at once, `Protocol::receive` reads the length to return out of
the buffer it has freed (`header/protocol.h:192-193`), so a message can get the size
of the next one in that buffer, or be dropped when that is zero, as in the
synchronization frames of an RSU (`Length`).

Synchronization works without a lock: a sender may compute an age
from a stale `last_update` and reset `sync_state` just after the worker set it,
but then a synchronization arrived while it asked (`AlarmIsDue`), and the
next pair sets it again.

## 5. What is proved

`BufferPoolProofs`, for any finite set of threads, any positive number of
buffers and any bounds: `TypeOK`, `ExactReferences`, `Conservation` and
`NullOnlyByStop` are invariants. Their conjunction is inductive. Conservation is
what the argument needs: *count + threads inside alloc + threads about to signal
+ failed allocs = free slots + stops*. A thread that scans a full pool is then
one that holds a token no slot stands for, so `NullOnlyByStop` follows where it
would not be inductive alone; each action changes two of the terms by one, which
`PcChange` and the theorems about finite sets turn into cardinalities.

`SemaphoreProofs`, for any finite set of threads: `TypeOK`, `NoLostWakeup`, and
that `Semaphore` implements `CountingSemaphore` (without its fairness).
`NoLostWakeup` is strengthened to a count: *while anybody sleeps, there are at
most as many tokens as threads on the way*, that is awake in `p()` or about to
notify. `notify_one` hands the role of the notifier over to the thread it wakes.

`LRUCacheProofs`, for any finite set of keys, any values, capacity and heap:
`TypeOK` and `Consistent`, which are inductive together, and that the cache
implements `RecencyList`. Unlinking a node and
linking one behind the head keep `next` and `prev` inverse to each other on
whatever nodes are in the list (`UnlinkKeeps`, `LinkKeeps`), taking a key out of
map and nodes and adding one keep those in agreement (`RemoveKeeps`,
`AddKeeps`). When `put` evicts, the list is not empty, so what is behind the
tail is a live node and its key is in the map. For the refinement that is not enough:
pointers that are inverse to each other could form a second ring beside the list. So the
invariant is strengthened by *some sequence without repetition names all nodes alive, and
the pointers follow it* (`Listed`); unlinking takes a place out of the sequence, linking
adds one in front. `Order`, a recursive walk, yields just that sequence (shown step by
step along it, for a least place where they would differ), and its
entries are the state of `RecencyList`.

`KeyDistributionProofs`, for any number of quadrants, RSUs and vehicles: `TypeOK`,
`KeysCoverOneMove` and `AnswersOnlyJoins`. The second needs to know what the cache
holds before the move: `CoverInv` says that a vehicle about to set its key has
the keys of its quadrant and of the next one, or, after one move, of its quadrant.
The third is inductive with finite tables: what `Outstanding` counts is set at
most once per entry of the table and is gone after each frame with keys.

`SmartDataProofs`, for any requesters, agents and periods: `TypeOK`, `NothingLeftBehind` and
`PeriodIsGcd`. For the second the invariant has three parts: the receive thread acts on an
interest only while `_running` is set, or has been overtaken (`HandlesInTime`);
it makes a thread only where there is none (`MakesOne`); and each periodic thread
is deleted in its stage and no earlier (`EndsInStage`). That the response
threads are deleted after `_running` is cleared is what the argument rests on.
For the third it says that each period is the greatest common divisor of the
periods in the table, and the table what was asked for last (`RecordsOK`). Euclid's
algorithm and the fold of `calculate_gcd_period` are recursive functions over numbers
and over finite sets; both are shown to give the greatest common divisor by the least
counterexample, of which the library's well-ordering of the numbers says that there is one.

`TimeKeeperProofs`, for any senders, skew, delays and timeout: all four properties.
The invariant adds that messages on their way and times taken of them are no
older than the longest delay (`Delays`); that, once a synchronization has been, its time is
not in the future and the next one's is not before it (`Order`), which an
uninitialized `last_update` would break earlier; and what a sender that is
computing the age knows of it (`Ages`): as long as the worker stores nothing, it
holds `last_update` itself, and as long as it does not store the state, no later time.

`MessageBusProofs`, for any senders, ports, messages and number of buffers: `TypeOK`,
`QueuedIntact`, `UpdatedNeverNull`, `FifoPerProducer`, `NothingLeaks`, that the bus implements
`BufferPool`, and `OnlyRivalsConfused`. The invariant has five parts:

* `Equipped`: a thread at a place has what it needs there (a message, a buffer, a pair).
* `Matched`: the length of a list is what its semaphore counts, plus the receiver
  that was let through, plus the producers that have inserted and not signalled;
  a receiver about to remove therefore finds a pair.
* `Holding`: a buffer that is taken has somebody who has to free it and a free one
  has nobody (`Taken`); its counter is their number (`Counted`); a producer that holds it
  before it notifies is the only one (`Exclusive`); no receiver has it in its list
  twice, or in its list and in hand (`Once`, `Distinct`), and one producer at most
  is handing it out (`OneUpdates`). This is the contract of `BufferPool`, and with it each step
  of the bus is one of the pool; no part holds without the others.
* `Written` and `Frames`: a buffer holds the message of the producer that is handing
  it out, and of every pair that is waiting; only who holds it alone writes it.
* `Ordered`: of each producer, what a receiver has seen is older than what it holds,
  that is older than what is in its list, in this order, and that is older than
  what the producer may still insert.

Most steps change one thread's variables only (`Locality`) and are of a few kinds
with regard to buffers and lists (`Kinds`); the lemmas go through the kinds.

`NothingLeaks` is what the refinement is good for: the theorems about `BufferPool` are
instantiated for the pool of the bus (`Contract`). When everybody waits nobody has a buffer
to free, so by *references are exact* all slots are free, and by *tokens are conserved* the
semaphore counts them all; lists are empty since each waiting receiver's semaphore is 0
(`Matched`). A wait for a buffer while all are back cannot last, so the threads of a running agent never
wait for each other's buffers in a circle.

`OnlyRivalsConfused` needs to know more than what receivers are told. What connects an id
with a message, in the map, a list or a thread's hands, is a claim (`Attributed`):

* `IdsAreOld`: no claim is about an id that has not been drawn yet.
* `RivalsShareIds`: claims about one id are of one message or of two rivals.
* `RivalsMeet`: threads that have drawn an id and not called `notify` yet have rivals for messages.
* `LastIdRivals`: what is claimed of the last id that was drawn is a rival of their messages
  too, since it is that id which they write and pass on.

A message that draws an id when nobody is in between gets one of which nothing is claimed.
No assumption is made about how many producers there are or how they are scheduled.

`AgentLifecycleProofs`, for any components, interests, messages, frames and number of
buffers: `TypeOK`, `ClaimsAddUp`, `LateOnce` and `OnlyStarvationBlocks`. The invariant:

* `Equipped`: a thread at a place has what it needs there.
* `Phases`: how far the main thread is with each component. A communicator is attached
  until it is deleted; it is stopped only after `_running` was cleared; no thread that
  sends interests exists before its component is started; what is stopped next is not
  deleted yet. It is what makes `Stopped` say something about `_running`.
* `Debts`: the books of every buffer (`Settled`: its counter is the number of its
  holders, of the components that owe it, and of the losses; a producer that has not
  notified is alone with it; who has lost it does not owe it), and nobody gets it
  twice (`Once`, `OneUpdates`, `Distinct`). A list that is deleted moves all its pairs from
  the owers to the losses at once.
* `Stopped`: what is lost is lost at a communicator that is stopped or deleted.
* `Late`: a thread that has lost a buffer to a deleted communicator does not know it any
  more, since new copies of the observers are without it, and has lost no other one.

As with the bus, most steps are one thread's (`Locality`, `Births`), and with regard to
buffers they are of nine kinds (`Effects`); there is one lemma for each.

`OnlyStarvationBlocks` is freedom from any deadlock but one. It needs to know that whoever is
waited for has, or will get, the token that lets it go on (`WaitInv`):

* `Tokens`: a receive thread's semaphore counts at least the pairs in its list, and
  one more as long as it waits at a communicator that was stopped.
* `Course`: which communicators the main thread has stopped and which receive threads it
  has started by the place it is at.
* `Ends`: a thread told to end has been joined, unless the main thread is just joining it;
  at a stopped communicator no periodic thread runs.
* `NicToken`: when the main thread has posted for the worker, a worker that waits has its post.
* `Enough`: the pool has a token for every free slot, and one more, that of
  `BufferPool::stop`, while the main thread waits for a worker that is not through yet. By `Course` and
  `Ends` nobody else is left to take it.

If no thread can go on, no producer is in the middle of handing out a buffer, so by
`Debts` every slot is taken for a component that waits with pairs in its list, which
contradicts `Tokens`, or for one that does not receive: that is `Starved`.

The assumptions are those of the modules (`PoolAssumption`, `SemaphoreAssumption`,
`CacheAssumption`, `KeyAssumption`, `TimeAssumption`, `BusAssumption`,
`LifecycleAssumption`): finiteness, and constants
that are numbers.

Only model-checked is liveness, since TLAPS as installed has no rules for
fairness and ENABLED: `LetsWaitersThrough`, `SendReturns`, `BuffersComeBack`, `QueuesDrain`,
`FramesDrain`, `EveryVehicleIsMet`, `UpdatesTakeEffect`, `StopReturns`,
`StopsUnlessStarved` and `NicStops`. `NothingLeaks` and `OnlyStarvationBlocks` are the
part of `BuffersComeBack` and `StopsUnlessStarved` that is safety: what a state in which
everything has come to rest looks like. Every invariant, action property and refinement
that a passing run checks is also a theorem.

## 6. Plan

What is left, in the order of importance:

1. Which key a frame between vehicles is verified with: the key of the receiver's
   quadrant is used when the sender's is known (`header/nic.h:405`). To be composed
   with `KeyDistribution`, whose vehicles already have the caches.
2. An RSU's life: `RSU::stop` against `send_sync_messages`.
3. The safety part of two more liveness properties, as was done for the buffers:
   that a worker at rest has left no frame in the socket but after one without data
   (`FramesDrain`), and that `SmartData::stop` waits for no thread that waits for ever (`StopReturns`).

## 7. Not modelled

* `header/csv.hpp`, two thirds of all lines of the repository, is a vendored
  parser with which components read their data sets before they run.
* `header/message.h`, `header/ethernet.h`, `source/message.cpp`, `source/ethernet.cpp`:
  layouts of byte buffers. A payload is abstracted to the identity of a message and its length.
* `source/mac_handler.cpp`: a pure function of bytes and a key; what a MAC decides is
  whether it verifies, and the models choose that.
* `header/queue.h` and `header/reference_buffer.h`, which no part of the program uses.
* The tasks of the components (`source/*_component.cpp`): each computes a value or
  stores one, in variables only it uses.
* Logging, formatting, setting up interfaces and signal handlers; `fork` and
  `waitpid` (processes share nothing but the network); `tests/`.
* Torn reads within one field, and stores that overtake each other: the makefile
  sets no optimization, and the processors this runs on keep the order of stores.
