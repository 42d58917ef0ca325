----------------------------- MODULE TimeKeeper -----------------------------
(***************************************************************************)
(* The clock of a vehicle.  An RSU sends two synchronization messages in   *)
(* every round, stamped with its time.  The worker of the vehicle's NIC    *)
(* hands each one it receives to TimeKeeper::update_time_keeper, which     *)
(* pairs them and computes an offset; the threads that send stamp their    *)
(* frames with the time corrected by it, and claim to be synchronized      *)
(* unless the last pair is too old (NIC::send).                            *)
(*                                                                         *)
(* None of the fields is guarded by a mutex.  A step ends where another    *)
(* thread can see or change what comes next.  A value that is not read     *)
(* again before it is written counts as 0.                                 *)
(***************************************************************************)
EXTENDS Integers, Sequences

CONSTANTS
  Senders,      \* the threads of the vehicle that send
  Skew,         \* how far the clock of the vehicle is ahead of the RSU's
  MaxDelay,     \* longest time from the stamp of an RSU to that of the vehicle
  Timeout,      \* sync_timeout
  Uninitialized,  \* what last_update may hold at first
  MaxTime,      \* bound on the time
  MaxQueue,     \* bound on the messages on their way
  None          \* no value read

ASSUME TimeAssumption ==
  /\ MaxDelay \in Nat /\ Timeout \in Nat /\ MaxTime \in Nat /\ MaxQueue \in Nat
  /\ Skew \in Int
  /\ Uninitialized \subseteq Int
  /\ None \notin Int

VARIABLES
  now,         \* the time of the RSU
  network,     \* the stamps of its messages on their way
  wpc,         \* where the worker is
  t,           \* its local times of the RSU's message and of its arrival
  is_t1, t1, t2, offset, last_update, sync_state,  \* fields of TimeKeeper
  spc,         \* where a sender is
  clock, last, \* what it read for the age of the synchronization
  claim,       \* the sync state it has read
  frame,       \* the stamp of its last frame, and when it was made
  began,       \* history: the local time when it began to compute the age,
  during       \* and what the worker has stored since

keeperVars == <<is_t1, t1, t2, offset, last_update, sync_state>>
workerVars == <<wpc, t>>
senderVars == <<spc, clock, last, claim, frame, began>>
vars == <<now, network, workerVars, keeperVars, senderVars, during>>

-----------------------------------------------------------------------------
\* The division of C++, which rounds towards 0.  An U64 is a signed long long,
\* and nothing here comes near its limits.
Half(n) == IF n >= 0 THEN n \div 2 ELSE -((-n) \div 2)

Local == now + Skew

States == {"NOT_SYNCHRONIZED", "SYNCHRONIZED"}

TypeOK ==
  /\ now \in 0 .. MaxTime
  /\ network \in Seq(0 .. MaxTime) /\ Len(network) <= MaxQueue
  /\ wpc \in {"idle", "update", "last", "state"}
  /\ t \in [system : 0 .. MaxTime, local : Int]
  /\ is_t1 \in BOOLEAN
  /\ t1 \in Int /\ t2 \in Int /\ offset \in Int /\ last_update \in Int
  /\ sync_state \in States
  /\ spc \in [Senders -> {"idle", "age", "expire", "state", "stamp", "raw"}]
  /\ clock \in [Senders -> Int \cup {None}]
  /\ last \in [Senders -> Int \cup {None}]
  /\ claim \in [Senders -> States]
  /\ frame \in [Senders -> [stamp : Int, at : 0 .. MaxTime]]
  /\ began \in [Senders -> Int]
  /\ during \in [Senders -> SUBSET {"last", "state"}]
  \* Half a pair are the two times of one message.
  /\ ~ is_t1 /\ wpc \in {"idle", "update"} => t2 - t1 - Skew \in 0 .. MaxDelay

NoTimes == [system |-> 0, local |-> 0]
NoFrame == [stamp |-> Skew, at |-> 0]

Init ==
  /\ now = 0 /\ network = <<>>
  /\ wpc = "idle" /\ t = NoTimes
  /\ is_t1 = TRUE /\ t1 = 0 /\ t2 = 0
  /\ offset = 0 /\ last_update \in Uninitialized
  /\ sync_state = "NOT_SYNCHRONIZED"
  /\ spc = [s \in Senders |-> "idle"]
  /\ clock = [s \in Senders |-> None] /\ last = [s \in Senders |-> None]
  /\ claim = [s \in Senders |-> "NOT_SYNCHRONIZED"]
  /\ frame = [s \in Senders |-> NoFrame]
  /\ began = [s \in Senders |-> 0]
  /\ during = [s \in Senders |-> {}]

-----------------------------------------------------------------------------
\* Time passes, but a message arrives in time or not at all.
Tick ==
  /\ now < MaxTime
  /\ \A i \in DOMAIN network : now - network[i] < MaxDelay
  /\ now' = now + 1
  /\ UNCHANGED <<network, workerVars, keeperVars, senderVars, during>>

\* RSU::send_sync_messages sends one of its two messages, and the vehicle is in
\* its quadrant; if it is not, or if the message is lost, nothing happens.
SendSync ==
  /\ Len(network) < MaxQueue
  /\ network' = Append(network, now)
  /\ UNCHANGED <<now, workerVars, keeperVars, senderVars, during>>

-----------------------------------------------------------------------------
(***************************************************************************)
(* The worker of the vehicle's NIC.                                        *)
(***************************************************************************)
\* The message is read and the time of its arrival taken.
Receive ==
  /\ wpc = "idle" /\ network # <<>>
  /\ network' = Tail(network)
  /\ t' = [system |-> Head(network), local |-> Local]
  /\ wpc' = "update"
  /\ UNCHANGED <<now, keeperVars, senderVars, during>>

\* A slip: the delay is not halved.
WholeDelay(r1, l1, r2, l2) == (l2 - r2) + (l1 - r1)

\* The delay of update_time_keeper, from two pairs of a remote and a local time.
Delay(r1, l1, r2, l2) == Half((l2 - r2) + (l1 - r1))

\* A slip: the two times are mixed up.
UpdateFirstSwapped ==
  /\ wpc = "update" /\ is_t1
  /\ t1' = t.local /\ t2' = t.system
  /\ is_t1' = FALSE
  /\ wpc' = "idle" /\ t' = NoTimes
  /\ UNCHANGED <<now, network, offset, last_update, sync_state, senderVars, during>>

\* The first message of a pair.
UpdateFirst ==
  /\ wpc = "update" /\ is_t1
  /\ t1' = t.system /\ t2' = t.local
  /\ is_t1' = FALSE
  /\ wpc' = "idle" /\ t' = NoTimes
  /\ UNCHANGED <<now, network, offset, last_update, sync_state, senderVars, during>>

\* The second one (t3 and t4 are used nowhere else): the offset, ...
UpdateOffset ==
  /\ wpc = "update" /\ ~ is_t1
  /\ offset' = (t2 - t1) - Delay(t1, t2, t.system, t.local)
  /\ t1' = 0 /\ t2' = 0
  /\ wpc' = "last"
  /\ UNCHANGED <<now, network, t, is_t1, last_update, sync_state, senderVars,
                 during>>

Stored(field) ==
  during' = [s \in Senders |->
    IF spc[s] \in {"idle", "raw"} THEN {} ELSE during[s] \cup {field}]

\* ... last_update ...
UpdateLast ==
  /\ wpc = "last"
  /\ last_update' = t.local
  /\ Stored("last")
  /\ wpc' = "state"
  /\ UNCHANGED <<now, network, t, is_t1, t1, t2, offset, sync_state, senderVars>>

\* ... and sync_state are stored one after the other.
UpdateState ==
  /\ wpc = "state"
  /\ sync_state' = "SYNCHRONIZED" /\ is_t1' = TRUE
  /\ Stored("state")
  /\ wpc' = "idle" /\ t' = NoTimes
  /\ UNCHANGED <<now, network, t1, t2, offset, last_update, senderVars>>

-----------------------------------------------------------------------------
(***************************************************************************)
(* A sender, in NIC::send.                                                 *)
(***************************************************************************)
StartSend(s) ==
  /\ spc[s] = "idle"
  /\ spc' = [spc EXCEPT ![s] = "age"]
  /\ began' = [began EXCEPT ![s] = Local]
  /\ UNCHANGED <<now, network, workerVars, keeperVars, clock, last, claim, frame,
                 during>>

\* A slip: the difference is taken the other way around.
ElapsedReversed(c, l) == l - c

Elapsed(c, l) == c - l

\* A slip: the timeout is left in milliseconds.
IsExpiredUnscaled(elapsed) == elapsed > Timeout \div 1000

IsExpired(elapsed) == elapsed > Timeout

\* The clock and last_update are read, in the order the compiler chooses, ...
ReadClock(s) ==
  /\ spc[s] = "age" /\ clock[s] = None
  /\ clock' = [clock EXCEPT ![s] = Local]
  /\ UNCHANGED <<now, network, workerVars, keeperVars, spc, last, claim, frame, began,
                 during>>

ReadLast(s) ==
  /\ spc[s] = "age" /\ last[s] = None
  /\ last' = [last EXCEPT ![s] = last_update]
  /\ UNCHANGED <<now, network, workerVars, keeperVars, spc, clock, claim, frame, began,
                 during>>

\* ... and compared.
Compare(s) ==
  /\ spc[s] = "age" /\ clock[s] # None /\ last[s] # None
  /\ spc' = [spc EXCEPT ![s] =
               IF IsExpired(Elapsed(clock[s], last[s])) THEN "expire" ELSE "state"]
  /\ clock' = [clock EXCEPT ![s] = None] /\ last' = [last EXCEPT ![s] = None]
  /\ UNCHANGED <<now, network, workerVars, keeperVars, claim, frame, began, during>>

Expire(s) ==
  /\ spc[s] = "expire"
  /\ sync_state' = "NOT_SYNCHRONIZED"
  /\ spc' = [spc EXCEPT ![s] = "state"]
  /\ UNCHANGED <<now, network, workerVars, is_t1, t1, t2, offset, last_update, clock,
                 last, claim, frame, began, during>>

\* get_sync_state
ReadState(s) ==
  /\ spc[s] = "state"
  /\ claim' = [claim EXCEPT ![s] = sync_state]
  /\ spc' = [spc EXCEPT ![s] = "stamp"]
  /\ UNCHANGED <<now, network, workerVars, keeperVars, clock, last, frame, began,
                 during>>

\* get_system_timestamp.  The fake offset is 0.
Stamp(s) ==
  /\ spc[s] = "stamp"
  /\ frame' = [frame EXCEPT ![s] = [stamp |-> Local + offset, at |-> now]]
  /\ spc' = [spc EXCEPT ![s] = "raw"]
  /\ claim' = [claim EXCEPT ![s] = "NOT_SYNCHRONIZED"]
  /\ began' = [began EXCEPT ![s] = 0] /\ during' = [during EXCEPT ![s] = {}]
  /\ UNCHANGED <<now, network, workerVars, keeperVars, clock, last>>

\* The frame leaves.
RawSend(s) ==
  /\ spc[s] = "raw"
  /\ spc' = [spc EXCEPT ![s] = "idle"]
  /\ frame' = [frame EXCEPT ![s] = NoFrame]
  /\ UNCHANGED <<now, network, workerVars, keeperVars, clock, last, claim, began, during>>

-----------------------------------------------------------------------------
Worker == Receive \/ UpdateFirst \/ UpdateOffset \/ UpdateLast \/ UpdateState

Sender(s) ==
  \/ StartSend(s) \/ ReadClock(s) \/ ReadLast(s) \/ Compare(s)
  \/ Expire(s) \/ ReadState(s) \/ Stamp(s) \/ RawSend(s)

Next == Tick \/ SendSync \/ Worker \/ \E s \in Senders : Sender(s)

Spec == Init /\ [][Next]_vars

-----------------------------------------------------------------------------
(***************************************************************************)
(* The stamp of a frame is wrong by the skew of the clocks and at most     *)
(* half the longest delay, whichever messages were lost and however those  *)
(* that were not are paired.  (The offset of update_time_keeper            *)
(* is half the difference of two delays; the skew is not corrected.)       *)
(***************************************************************************)
IsClose(error) == 2 * error \in -(MaxDelay + 1) .. MaxDelay + 1

StampsAreClose == \A s \in Senders : IsClose(frame[s].stamp - frame[s].at - Skew)

(***************************************************************************)
(* A frame says that the vehicle is synchronized only if that was less     *)
(* than the timeout ago when its sender began to ask, or has happened      *)
(* since.  (NIC::send, update_sync_status.)                                *)
(***************************************************************************)
ClaimIsFresh ==
  \A s \in Senders : spc[s] = "stamp" /\ claim[s] = "SYNCHRONIZED" =>
    \/ "state" \in during[s]
    \/ last_update >= began[s] - Timeout

(***************************************************************************)
(* A vehicle that was synchronized gives that up only when it was too long *)
(* ago, or when it is synchronized again just as a sender computes how     *)
(* long and takes the time before.  (update_sync_status.)                  *)
(***************************************************************************)
AlarmIsDue ==
  \A s \in Senders : spc[s] = "expire" /\ sync_state = "SYNCHRONIZED" =>
    \/ during[s] # {}
    \/ Local - last_update > Timeout
=============================================================================
