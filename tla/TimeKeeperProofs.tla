-------------------------- MODULE TimeKeeperProofs --------------------------
(***************************************************************************)
(* Theorems about TimeKeeper, for any threads, delays, timeout and skew.   *)
(***************************************************************************)
EXTENDS TimeKeeper, SequenceTheorems, TLAPS

\* TypeOK in two parts.
KeeperTypes ==
  /\ now \in 0 .. MaxTime
  /\ network \in Seq(0 .. MaxTime) /\ Len(network) <= MaxQueue
  /\ wpc \in {"idle", "update", "last", "state"}
  /\ t \in [system : 0 .. MaxTime, local : Int]
  /\ is_t1 \in BOOLEAN
  /\ t1 \in Int /\ t2 \in Int /\ offset \in Int /\ last_update \in Int
  /\ sync_state \in States
  /\ ~ is_t1 /\ wpc \in {"idle", "update"} => t2 - t1 - Skew \in 0 .. MaxDelay

SenderTypes ==
  /\ spc \in [Senders -> {"idle", "age", "expire", "state", "stamp", "raw"}]
  /\ clock \in [Senders -> Int \cup {None}]
  /\ last \in [Senders -> Int \cup {None}]
  /\ claim \in [Senders -> States]
  /\ frame \in [Senders -> [stamp : Int, at : 0 .. MaxTime]]
  /\ began \in [Senders -> Int]
  /\ during \in [Senders -> SUBSET {"last", "state"}]

LEMMA TypeParts == TypeOK <=> KeeperTypes /\ SenderTypes
  BY DEF TypeOK, KeeperTypes, SenderTypes

\* Messages are no older than the longest delay, and so are the times taken of
\* them; no offset makes up for more than half of it.
Delays ==
  /\ \A i \in 1 .. Len(network) : now - network[i] \in 0 .. MaxDelay
  /\ wpc # "idle" => /\ t.local - t.system - Skew \in 0 .. MaxDelay
                     /\ t.local <= Local
  /\ wpc \in {"last", "state"} => ~ is_t1
  /\ IsClose(offset)

\* The time of the last synchronization, of which a sender may know that there was
\* one when another has declared it expired, is not in the future, and the next one
\* will not be older.
Order ==
  /\ wpc = "state" => last_update = t.local
  /\ \/ sync_state = "SYNCHRONIZED"
     \/ \E s \in Senders : claim[s] = "SYNCHRONIZED"
     =>
       /\ last_update <= Local
       /\ wpc \in {"update", "last"} => last_update <= t.local

\* What a sender knows of the age.
Ages ==
  \A s \in Senders :
    /\ spc[s] # "age" => clock[s] = None /\ last[s] = None
    /\ clock[s] # None => began[s] <= clock[s] /\ clock[s] <= Local
    /\ last[s] # None =>
         /\ during[s] = {} => last[s] = last_update
         /\ sync_state = "SYNCHRONIZED" /\ "state" \notin during[s] =>
              last[s] <= last_update
    /\ spc[s] = "state" /\ sync_state = "SYNCHRONIZED" /\ "state" \notin during[s] =>
         last_update >= began[s] - Timeout
    /\ began[s] <= Local \/ spc[s] \in {"idle", "raw"}

Inv == /\ KeeperTypes /\ SenderTypes /\ Delays /\ Order /\ Ages
       /\ StampsAreClose /\ ClaimIsFresh /\ AlarmIsDue

-----------------------------------------------------------------------------
LEMMA HalfIs ==
  ASSUME NEW n \in Int
  PROVE  Half(n) \in Int /\ 2 * Half(n) \in n - 1 .. n + 1
  BY DEF Half

\* What update_time_keeper computes is half the difference of two delays.
LEMMA OffsetIsClose ==
  ASSUME NEW d1 \in 0 .. MaxDelay, NEW d2 \in 0 .. MaxDelay,
         NEW r1 \in Int, NEW l1 \in Int, NEW r2 \in Int, NEW l2 \in Int,
         l1 - r1 - Skew = d1, l2 - r2 - Skew = d2
  PROVE  IsClose((l1 - r1) - Delay(r1, l1, r2, l2))
<1>1. PICK n \in Int : n = (l2 - r2) + (l1 - r1)
  OBVIOUS
<1>2. PICK h \in Int : h = Half(n) /\ 2 * h \in n - 1 .. n + 1
  BY HalfIs
<1>. QED
  BY <1>1, <1>2, TimeAssumption DEF IsClose, Delay

LEMMA InitInv == Init => Inv
<1>. SUFFICES ASSUME Init PROVE Inv
  OBVIOUS
<1>0. network \in Seq(0 .. MaxTime) /\ Len(network) = 0
  BY DEF Init
<1>1. KeeperTypes
  <2>1. last_update \in Int
    BY TimeAssumption DEF Init
  <2>. QED
    BY <1>0, <2>1, TimeAssumption DEF Init, KeeperTypes, NoTimes, States
<1>2. SenderTypes
  BY TimeAssumption DEF Init, SenderTypes, NoFrame, States
<1>3. Delays
  BY <1>0, TimeAssumption DEF Init, Delays, IsClose
<1>4. Order /\ Ages
  BY TimeAssumption DEF Init, Order, Ages, Local
<1>5. StampsAreClose /\ ClaimIsFresh /\ AlarmIsDue
  BY TimeAssumption DEF Init, StampsAreClose, ClaimIsFresh, AlarmIsDue, IsClose,
     NoFrame
<1>. QED
  BY <1>1, <1>2, <1>3, <1>4, <1>5 DEF Inv

-----------------------------------------------------------------------------
LEMMA TickInv == Inv /\ Tick => Inv'
<1>. SUFFICES ASSUME Inv, Tick PROVE Inv'
  OBVIOUS
<1>1. /\ UNCHANGED <<network, wpc, t, is_t1, t1, t2, offset, last_update, sync_state>>
      /\ UNCHANGED <<spc, clock, last, claim, frame, began, during>>
      /\ now' = now + 1 /\ now < MaxTime
      /\ now \in 0 .. MaxTime /\ network \in Seq(0 .. MaxTime)
  BY DEF Tick, workerVars, keeperVars, senderVars, Inv, KeeperTypes
<1>2. KeeperTypes' /\ SenderTypes'
  BY <1>1, TimeAssumption DEF Inv, KeeperTypes, SenderTypes
<1>3. Delays'
  <2>1. \A i \in 1 .. Len(network) : now - network[i] < MaxDelay /\ network[i] \in Int
    BY <1>1, LenProperties, TimeAssumption DEF Tick
  <2>2. \A i \in 1 .. Len(network) : now - network[i] \in 0 .. MaxDelay
    BY DEF Inv, Delays
  <2>3. \A i \in 1 .. Len(network) : now + 1 - network[i] \in 0 .. MaxDelay
    BY <1>1, <2>1, <2>2, TimeAssumption
  <2>4. \A i \in 1 .. Len(network') : now' - network'[i] \in 0 .. MaxDelay
    <3>1. network' = network /\ now' = now + 1 /\ now \in Int
      BY <1>1, TimeAssumption
    <3>2. \A i \in 1 .. Len(network) : now' - network[i] = now + 1 - network[i]
      BY <3>1, <2>1
    <3>. QED
      BY <3>1, <3>2, <2>3
  <2>5. wpc' # "idle" => t'.local <= Local'
    BY <1>1, TimeAssumption DEF Inv, Delays, KeeperTypes, Local
  <2>. QED
    BY <1>1, <2>4, <2>5 DEF Inv, Delays
<1>4. Order' /\ Ages'
  BY <1>1, TimeAssumption DEF Inv, KeeperTypes, SenderTypes, Order, Ages, Local
<1>5. StampsAreClose' /\ ClaimIsFresh' /\ AlarmIsDue'
  BY <1>1, TimeAssumption DEF Inv, KeeperTypes, SenderTypes, StampsAreClose,
     ClaimIsFresh, AlarmIsDue, Local
<1>. QED
  BY <1>2, <1>3, <1>4, <1>5 DEF Inv

LEMMA SendSyncInv == Inv /\ SendSync => Inv'
<1>. SUFFICES ASSUME Inv, SendSync PROVE Inv'
  OBVIOUS
<1>1. /\ UNCHANGED <<now, wpc, t, is_t1, t1, t2, offset, last_update, sync_state>>
      /\ UNCHANGED <<spc, clock, last, claim, frame, began, during>>
      /\ now \in 0 .. MaxTime /\ network \in Seq(0 .. MaxTime)
      /\ Len(network) < MaxQueue /\ network' = Append(network, now)
  BY DEF SendSync, workerVars, keeperVars, senderVars, Inv, KeeperTypes
<1>2. /\ network' \in Seq(0 .. MaxTime) /\ Len(network') = Len(network) + 1
      /\ \A i \in 1 .. Len(network) : network'[i] = network[i]
      /\ network'[Len(network) + 1] = now
      /\ Len(network) \in Nat
  BY <1>1, AppendProperties, LenProperties
<1>3. KeeperTypes' /\ SenderTypes'
  BY <1>1, <1>2, TimeAssumption DEF Inv, KeeperTypes, SenderTypes
<1>4. Delays'
  <2>1. \A i \in 1 .. Len(network') : i \in 1 .. Len(network) \/ i = Len(network) + 1
    BY <1>2
  <2>. QED
    BY <1>1, <1>2, <2>1, TimeAssumption DEF Inv, Delays, Local
<1>5. Order' /\ Ages' /\ StampsAreClose' /\ ClaimIsFresh' /\ AlarmIsDue'
  BY <1>1 DEF Inv, Order, Ages, StampsAreClose, ClaimIsFresh, AlarmIsDue, Local
<1>. QED
  BY <1>3, <1>4, <1>5 DEF Inv

LEMMA ReceiveInv == Inv /\ Receive => Inv'
<1>. SUFFICES ASSUME Inv, Receive PROVE Inv'
  OBVIOUS
<1>1. /\ UNCHANGED <<now, is_t1, t1, t2, offset, last_update, sync_state>>
      /\ UNCHANGED <<spc, clock, last, claim, frame, began, during>>
      /\ now \in 0 .. MaxTime /\ network \in Seq(0 .. MaxTime)
      /\ network # <<>> /\ network' = Tail(network)
      /\ wpc = "idle" /\ wpc' = "update"
      /\ t' = [system |-> Head(network), local |-> now + Skew]
  BY DEF Receive, keeperVars, senderVars, Inv, KeeperTypes, Local
<1>2. /\ network' \in Seq(0 .. MaxTime) /\ Len(network') = Len(network) - 1
      /\ \A i \in 1 .. Len(network') : network'[i] = network[i + 1]
      /\ Head(network) = network[1] /\ Head(network) \in 0 .. MaxTime
      /\ Len(network) \in Nat \ {0}
  <2>1. /\ Tail(network) \in Seq(0 .. MaxTime)
        /\ Len(Tail(network)) = Len(network) - 1
        /\ \A i \in 1 .. Len(Tail(network)) : Tail(network)[i] = network[i + 1]
        /\ Head(network) \in 0 .. MaxTime
    BY <1>1, HeadTailProperties
  <2>2. Len(network) \in Nat \ {0}
    BY <1>1, LenProperties, EmptySeq
  <2>3. Head(network) = network[1]
    BY <1>1, <2>2, HeadTailOfSubSeq, SubSeqFull
  <2>. QED
    BY <1>1, <2>1, <2>2, <2>3
<1>3. KeeperTypes' /\ SenderTypes'
  BY <1>1, <1>2, TimeAssumption DEF Inv, KeeperTypes, SenderTypes
<1>4. Delays'
  <2>1. \A i \in 1 .. Len(network') : i + 1 \in 1 .. Len(network)
    BY <1>2
  <2>2. 1 \in 1 .. Len(network)
    BY <1>2
  <2>. QED
    BY <1>1, <1>2, <2>1, <2>2, TimeAssumption DEF Inv, Delays, Local
<1>5. Order' /\ Ages' /\ StampsAreClose' /\ ClaimIsFresh' /\ AlarmIsDue'
  BY <1>1 DEF Inv, Order, Ages, StampsAreClose, ClaimIsFresh, AlarmIsDue, Local
<1>. QED
  BY <1>3, <1>4, <1>5 DEF Inv

-----------------------------------------------------------------------------
LEMMA UpdateFirstInv == Inv /\ UpdateFirst => Inv'
<1>. SUFFICES ASSUME Inv, UpdateFirst PROVE Inv'
  OBVIOUS
<1>1. /\ UNCHANGED <<now, network, offset, last_update, sync_state>>
      /\ UNCHANGED <<spc, clock, last, claim, frame, began, during>>
      /\ wpc = "update" /\ wpc' = "idle" /\ is_t1' = FALSE
      /\ t1' = t.system /\ t2' = t.local /\ t' = NoTimes
  BY DEF UpdateFirst, senderVars
<1>2. t2' - t1' - Skew \in 0 .. MaxDelay /\ t1' \in Int /\ t2' \in Int
  BY <1>1, TimeAssumption DEF Inv, KeeperTypes, Delays
<1>3. KeeperTypes' /\ SenderTypes'
  <2>1. t' \in [system : 0 .. MaxTime, local : Int]
    BY <1>1, TimeAssumption DEF NoTimes
  <2>2. KeeperTypes'
    BY <1>1, <1>2, <2>1 DEF Inv, KeeperTypes
  <2>. QED
    BY <1>1, <2>2 DEF Inv, SenderTypes
<1>4. Delays' /\ Order' /\ Ages'
  BY <1>1 DEF Inv, Delays, Order, Ages, Local
<1>5. StampsAreClose' /\ ClaimIsFresh' /\ AlarmIsDue'
  BY <1>1 DEF Inv, StampsAreClose, ClaimIsFresh, AlarmIsDue, Local
<1>. QED
  BY <1>3, <1>4, <1>5 DEF Inv

LEMMA UpdateOffsetInv == Inv /\ UpdateOffset => Inv'
<1>. SUFFICES ASSUME Inv, UpdateOffset PROVE Inv'
  OBVIOUS
<1>1. /\ UNCHANGED <<now, network, t, is_t1, last_update, sync_state>>
      /\ UNCHANGED <<spc, clock, last, claim, frame, began, during>>
      /\ wpc = "update" /\ wpc' = "last" /\ ~ is_t1
      /\ t1' = 0 /\ t2' = 0
      /\ offset' = (t2 - t1) - Delay(t1, t2, t.system, t.local)
  BY DEF UpdateOffset, senderVars
<1>2. /\ t2 - t1 - Skew \in 0 .. MaxDelay
      /\ t.local - t.system - Skew \in 0 .. MaxDelay
      /\ t1 \in Int /\ t2 \in Int /\ t.local \in Int /\ t.system \in Int
  BY <1>1, TimeAssumption DEF Inv, KeeperTypes, Delays
<1>3. IsClose(offset') /\ offset' \in Int
  <2>1. IsClose(offset')
    BY <1>1, <1>2, OffsetIsClose
  <2>2. (t.local - t.system) + (t2 - t1) \in Int
    BY <1>2
  <2>3. Delay(t1, t2, t.system, t.local) \in Int
    BY <2>2, HalfIs DEF Delay
  <2>. QED
    BY <1>1, <1>2, <2>1, <2>3
<1>4. KeeperTypes' /\ SenderTypes'
  BY <1>1, <1>3 DEF Inv, KeeperTypes, SenderTypes
<1>5. Delays' /\ Order' /\ Ages'
  BY <1>1, <1>3 DEF Inv, Delays, Order, Ages, Local
<1>6. StampsAreClose' /\ ClaimIsFresh' /\ AlarmIsDue'
  BY <1>1 DEF Inv, StampsAreClose, ClaimIsFresh, AlarmIsDue, Local
<1>. QED
  BY <1>4, <1>5, <1>6 DEF Inv

\* What the worker stores is noted for the senders that are at work.
LEMMA StoredIs ==
  ASSUME Inv, NEW f \in {"last", "state"}, Stored(f)
  PROVE  /\ during' \in [Senders -> SUBSET {"last", "state"}]
         /\ \A s \in Senders : spc[s] \notin {"idle", "raw"} =>
              f \in during'[s] /\ (\A g \in during[s] : g \in during'[s])
<1>1. \A s \in Senders : during[s] \subseteq {"last", "state"}
  BY DEF Inv, SenderTypes
<1>. QED
  BY <1>1 DEF Stored

LEMMA UpdateLastInv == Inv /\ UpdateLast => Inv'
<1>. SUFFICES ASSUME Inv, UpdateLast PROVE Inv'
  OBVIOUS
<1>1. /\ UNCHANGED <<now, network, t, is_t1, t1, t2, offset, sync_state>>
      /\ UNCHANGED <<spc, clock, last, claim, frame, began>>
      /\ wpc = "last" /\ wpc' = "state" /\ last_update' = t.local
      /\ Stored("last")
  BY DEF UpdateLast, senderVars
<1>2. /\ during' \in [Senders -> SUBSET {"last", "state"}]
      /\ \A s \in Senders : spc[s] \notin {"idle", "raw"} =>
           /\ during'[s] # {}
           /\ "state" \in during[s] => "state" \in during'[s]
  BY <1>1, StoredIs
<1>3. /\ t.local \in Int /\ last_update \in Int /\ t.local <= Local
      /\ sync_state = "SYNCHRONIZED" => last_update <= t.local
      /\ \A s \in Senders : claim[s] = "SYNCHRONIZED" => last_update <= t.local
  BY <1>1 DEF Inv, KeeperTypes, Delays, Order
<1>4. KeeperTypes' /\ SenderTypes'
  BY <1>1, <1>2, <1>3 DEF Inv, KeeperTypes, SenderTypes
<1>5. Delays' /\ Order'
  BY <1>1, <1>3 DEF Inv, Delays, Order, Local
<1>6. Ages'
  BY <1>1, <1>2, <1>3, TimeAssumption DEF Inv, SenderTypes, Ages, Local
<1>7. StampsAreClose' /\ ClaimIsFresh' /\ AlarmIsDue'
  <2>1. StampsAreClose'
    BY <1>1 DEF Inv, StampsAreClose
  <2>2. ClaimIsFresh'
    <3>. SUFFICES ASSUME NEW s \in Senders, spc[s] = "stamp", claim[s] = "SYNCHRONIZED",
                         "state" \notin during'[s]
                  PROVE  last_update' >= began[s] - Timeout
      BY <1>1 DEF ClaimIsFresh
    <3>. QED
      BY <1>1, <1>2, <1>3, TimeAssumption DEF Inv, SenderTypes, ClaimIsFresh
  <2>3. AlarmIsDue'
    BY <1>1, <1>2 DEF AlarmIsDue
  <2>. QED
    BY <2>1, <2>2, <2>3
<1>. QED
  BY <1>4, <1>5, <1>6, <1>7 DEF Inv

LEMMA UpdateStateInv == Inv /\ UpdateState => Inv'
<1>. SUFFICES ASSUME Inv, UpdateState PROVE Inv'
  OBVIOUS
<1>1. /\ UNCHANGED <<now, network, t1, t2, offset, last_update>>
      /\ UNCHANGED <<spc, clock, last, claim, frame, began>>
      /\ wpc = "state" /\ wpc' = "idle" /\ sync_state' = "SYNCHRONIZED"
      /\ is_t1' = TRUE /\ t' = NoTimes
      /\ Stored("state")
  BY DEF UpdateState, senderVars
<1>2. /\ during' \in [Senders -> SUBSET {"last", "state"}]
      /\ \A s \in Senders : spc[s] \notin {"idle", "raw"} => "state" \in during'[s]
  BY <1>1, StoredIs
<1>3. last_update <= Local
  BY <1>1 DEF Inv, Delays, Order
<1>4. KeeperTypes' /\ SenderTypes'
  BY <1>1, <1>2, TimeAssumption DEF Inv, KeeperTypes, SenderTypes, NoTimes, States
<1>5. Delays' /\ Order'
  BY <1>1, <1>3 DEF Inv, Delays, Order, Local
<1>6. Ages'
  <2>1. \A s \in Senders : spc[s] \notin {"idle", "raw"} => during'[s] # {}
    BY <1>2
  <2>. QED
    BY <1>1, <1>2, <2>1 DEF Inv, Ages, Local
<1>7. StampsAreClose' /\ ClaimIsFresh' /\ AlarmIsDue'
  <2>1. \A s \in Senders : spc[s] \notin {"idle", "raw"} => during'[s] # {}
    BY <1>2
  <2>. QED
    BY <1>1, <1>2, <2>1 DEF Inv, StampsAreClose, ClaimIsFresh, AlarmIsDue, Local
<1>. QED
  BY <1>4, <1>5, <1>6, <1>7 DEF Inv

-----------------------------------------------------------------------------
\* A sender changes nothing of the worker's but sync_state.
LEMMA SenderLeavesWorker ==
  ASSUME Inv, NEW s \in Senders, Sender(s)
  PROVE  KeeperTypes' /\ Delays' /\ Order'
<1>1. /\ UNCHANGED <<now, network, wpc, t, is_t1, t1, t2, offset, last_update>>
      /\ sync_state' \in {sync_state, "NOT_SYNCHRONIZED"}
  BY DEF Sender, StartSend, ReadClock, ReadLast, Compare, Expire, ReadState, Stamp,
     RawSend, workerVars, keeperVars
<1>2. \A r \in Senders : claim'[r] \in {claim[r], sync_state, "NOT_SYNCHRONIZED"}
  <2>. claim \in [Senders -> States]
    BY DEF Inv, SenderTypes
  <2>. QED
    BY DEF Sender, StartSend, ReadClock, ReadLast, Compare, Expire, ReadState, Stamp,
       RawSend
<1>3. KeeperTypes' /\ Delays'
  BY <1>1 DEF Inv, KeeperTypes, Delays, Local, States
<1>4. Order'
  <2>1. \/ sync_state' = "SYNCHRONIZED"
        \/ \E r \in Senders : claim'[r] = "SYNCHRONIZED"
        =>
        \/ sync_state = "SYNCHRONIZED"
        \/ \E r \in Senders : claim[r] = "SYNCHRONIZED"
    BY <1>1, <1>2
  <2>. QED
    BY <1>1, <2>1 DEF Inv, Order, Local
<1>. QED
  BY <1>3, <1>4

LEMMA StartSendInv ==
  ASSUME Inv, NEW s \in Senders, StartSend(s)
  PROVE  Inv'
<1>1. /\ UNCHANGED <<now, last_update, sync_state, clock, last, claim, frame, during>>
      /\ spc[s] = "idle" /\ spc' = [spc EXCEPT ![s] = "age"]
      /\ began' = [began EXCEPT ![s] = Local]
      /\ Local \in Int
  BY TimeAssumption DEF StartSend, keeperVars, Inv, KeeperTypes, Local
<1>2. SenderTypes'
  BY <1>1 DEF Inv, SenderTypes
<1>3. Ages'
  BY <1>1 DEF Inv, SenderTypes, Ages, Local
<1>4. StampsAreClose' /\ ClaimIsFresh' /\ AlarmIsDue'
  BY <1>1 DEF Inv, SenderTypes, StampsAreClose, ClaimIsFresh, AlarmIsDue, Local
<1>. QED
  BY <1>2, <1>3, <1>4, SenderLeavesWorker DEF Inv, Sender

LEMMA ReadInv ==
  ASSUME Inv, NEW s \in Senders, ReadClock(s) \/ ReadLast(s)
  PROVE  Inv'
<1>1. /\ UNCHANGED <<now, last_update, sync_state, spc, claim, frame, began, during>>
      /\ spc[s] = "age" /\ Local \in Int /\ last_update \in Int
  BY TimeAssumption DEF ReadClock, ReadLast, keeperVars, Inv, KeeperTypes, Local
<1>2. \/ clock' = [clock EXCEPT ![s] = Local] /\ last' = last
      \/ last' = [last EXCEPT ![s] = last_update] /\ clock' = clock
  BY DEF ReadClock, ReadLast
<1>3. SenderTypes'
  BY <1>1, <1>2 DEF Inv, SenderTypes
<1>4. Ages' /\ StampsAreClose' /\ ClaimIsFresh' /\ AlarmIsDue'
  BY <1>1, <1>2 DEF Inv, SenderTypes, Ages, StampsAreClose, ClaimIsFresh, AlarmIsDue,
     Local
<1>. QED
  BY <1>3, <1>4, SenderLeavesWorker DEF Inv, Sender

LEMMA CompareInv ==
  ASSUME Inv, NEW s \in Senders, Compare(s)
  PROVE  Inv'
<1>1. /\ UNCHANGED <<now, last_update, sync_state, claim, frame, began, during>>
      /\ spc[s] = "age" /\ clock[s] # None /\ last[s] # None
      /\ spc' = [spc EXCEPT ![s] =
                   IF clock[s] - last[s] > Timeout THEN "expire" ELSE "state"]
      /\ clock' = [clock EXCEPT ![s] = None] /\ last' = [last EXCEPT ![s] = None]
  BY DEF Compare, keeperVars, IsExpired, Elapsed
<1>2. /\ clock[s] \in Int /\ last[s] \in Int /\ began[s] \in Int
      /\ Local \in Int /\ last_update \in Int
      /\ began[s] <= clock[s] /\ clock[s] <= Local
      /\ during[s] = {} => last[s] = last_update
      /\ sync_state = "SYNCHRONIZED" /\ "state" \notin during[s] =>
           last[s] <= last_update
  BY <1>1, TimeAssumption DEF Inv, KeeperTypes, SenderTypes, Ages, Local
<1>3. SenderTypes'
  BY <1>1 DEF Inv, SenderTypes
<1>4. Ages' /\ StampsAreClose' /\ ClaimIsFresh'
  BY <1>1, <1>2, TimeAssumption DEF Inv, SenderTypes, Ages, StampsAreClose,
     ClaimIsFresh, Local
<1>5. AlarmIsDue'
  BY <1>1, <1>2, TimeAssumption DEF Inv, SenderTypes, AlarmIsDue, Local
<1>. QED
  BY <1>3, <1>4, <1>5, SenderLeavesWorker DEF Inv, Sender

LEMMA ExpireInv ==
  ASSUME Inv, NEW s \in Senders, Expire(s)
  PROVE  Inv'
<1>1. /\ UNCHANGED <<now, last_update, clock, last, claim, frame, began, during>>
      /\ spc[s] = "expire" /\ spc' = [spc EXCEPT ![s] = "state"]
      /\ sync_state' = "NOT_SYNCHRONIZED"
  BY DEF Expire
<1>2. SenderTypes'
  BY <1>1 DEF Inv, SenderTypes
<1>3. Ages' /\ StampsAreClose' /\ ClaimIsFresh' /\ AlarmIsDue'
  BY <1>1 DEF Inv, SenderTypes, Ages, StampsAreClose, ClaimIsFresh, AlarmIsDue, Local
<1>. QED
  BY <1>2, <1>3, SenderLeavesWorker DEF Inv, Sender

LEMMA ReadStateInv ==
  ASSUME Inv, NEW s \in Senders, ReadState(s)
  PROVE  Inv'
<1>1. /\ UNCHANGED <<now, last_update, sync_state, clock, last, frame, began, during>>
      /\ spc[s] = "state" /\ spc' = [spc EXCEPT ![s] = "stamp"]
      /\ claim' = [claim EXCEPT ![s] = sync_state]
  BY DEF ReadState, keeperVars
<1>2. SenderTypes'
  BY <1>1 DEF Inv, KeeperTypes, SenderTypes
<1>3. Ages' /\ StampsAreClose' /\ ClaimIsFresh' /\ AlarmIsDue'
  BY <1>1 DEF Inv, SenderTypes, Ages, StampsAreClose, ClaimIsFresh, AlarmIsDue, Local
<1>. QED
  BY <1>2, <1>3, SenderLeavesWorker DEF Inv, Sender

LEMMA StampInv ==
  ASSUME Inv, NEW s \in Senders, Stamp(s)
  PROVE  Inv'
<1>1. /\ UNCHANGED <<now, last_update, sync_state, clock, last>>
      /\ spc[s] = "stamp" /\ spc' = [spc EXCEPT ![s] = "raw"]
      /\ claim' = [claim EXCEPT ![s] = "NOT_SYNCHRONIZED"]
      /\ began' = [began EXCEPT ![s] = 0] /\ during' = [during EXCEPT ![s] = {}]
      /\ frame' = [frame EXCEPT ![s] = [stamp |-> now + Skew + offset, at |-> now]]
      /\ now \in 0 .. MaxTime /\ offset \in Int /\ IsClose(offset)
  BY DEF Stamp, keeperVars, Local, Inv, KeeperTypes, Delays
<1>2. SenderTypes'
  BY <1>1, TimeAssumption DEF Inv, SenderTypes, States
<1>3. StampsAreClose'
  <2>1. (now + Skew + offset) - now - Skew = offset
    BY <1>1, TimeAssumption
  <2>2. /\ frame'[s].stamp = now + Skew + offset /\ frame'[s].at = now
        /\ \A r \in Senders : r # s => frame'[r] = frame[r]
    BY <1>1 DEF Inv, SenderTypes
  <2>. QED
    BY <1>1, <2>1, <2>2 DEF Inv, StampsAreClose
<1>4. Ages'
  BY <1>1 DEF Inv, SenderTypes, Ages, Local
<1>5. ClaimIsFresh' /\ AlarmIsDue'
  BY <1>1 DEF Inv, SenderTypes, ClaimIsFresh, AlarmIsDue, Local
<1>. QED
  BY <1>2, <1>3, <1>4, <1>5, SenderLeavesWorker DEF Inv, Sender

LEMMA RawSendInv ==
  ASSUME Inv, NEW s \in Senders, RawSend(s)
  PROVE  Inv'
<1>1. /\ UNCHANGED <<now, last_update, sync_state, clock, last, claim, began, during>>
      /\ spc[s] = "raw" /\ spc' = [spc EXCEPT ![s] = "idle"]
      /\ frame' = [frame EXCEPT ![s] = NoFrame]
  BY DEF RawSend, keeperVars
<1>2. SenderTypes'
  BY <1>1, TimeAssumption DEF Inv, SenderTypes, NoFrame
<1>3. Ages' /\ StampsAreClose' /\ ClaimIsFresh' /\ AlarmIsDue'
  BY <1>1, TimeAssumption DEF Inv, SenderTypes, Ages, StampsAreClose, ClaimIsFresh,
     AlarmIsDue, Local, IsClose, NoFrame
<1>. QED
  BY <1>2, <1>3, SenderLeavesWorker DEF Inv, Sender

LEMMA NextInv == Inv /\ [Next]_vars => Inv'
<1>. SUFFICES ASSUME Inv, [Next]_vars PROVE Inv'
  OBVIOUS
<1>1. CASE UNCHANGED vars
  BY <1>1 DEF vars, workerVars, keeperVars, senderVars, Inv, KeeperTypes, SenderTypes,
     Delays, Order, Ages, StampsAreClose, ClaimIsFresh, AlarmIsDue, Local
<1>2. CASE Tick \/ SendSync \/ Worker
  BY <1>2, TickInv, SendSyncInv, ReceiveInv, UpdateFirstInv, UpdateOffsetInv,
     UpdateLastInv, UpdateStateInv DEF Worker
<1>3. CASE \E s \in Senders : Sender(s)
  BY <1>3, StartSendInv, ReadInv, CompareInv, ExpireInv, ReadStateInv, StampInv,
     RawSendInv DEF Sender
<1>. QED
  BY <1>1, <1>2, <1>3 DEF Next

-----------------------------------------------------------------------------
\* The fields and the threads keep their types, and half a pair is of one message.
THEOREM TypeCorrect == Spec => []TypeOK
<1>1. Inv => TypeOK
  BY TypeParts DEF Inv
<1>. QED
  BY <1>1, InitInv, NextInv, PTL DEF Spec

\* Whatever is lost, a vehicle's stamps are off by the skew and at most half the
\* longest delay.
THEOREM StampsStayClose == Spec => []StampsAreClose
<1>1. Inv => StampsAreClose
  BY DEF Inv
<1>. QED
  BY <1>1, InitInv, NextInv, PTL DEF Spec

\* No interleaving of senders and worker makes a vehicle claim an expired
\* synchronization.
THEOREM ClaimsAreFresh == Spec => []ClaimIsFresh
<1>1. Inv => ClaimIsFresh
  BY DEF Inv
<1>. QED
  BY <1>1, InitInv, NextInv, PTL DEF Spec

\* Nor does one make it give up a fresh one, unless that comes while it asks.
THEOREM AlarmsAreDue == Spec => []AlarmIsDue
<1>1. Inv => AlarmIsDue
  BY DEF Inv
<1>. QED
  BY <1>1, InitInv, NextInv, PTL DEF Spec
=============================================================================
