--------------------------- MODULE KeyDistribution ---------------------------
(***************************************************************************)
(* How vehicles get the MAC keys of the quadrants.  There is no message to *)
(* join: an RSU that hears a vehicle of its quadrant for the first time    *)
(* (NIC::process_incoming_data, in the worker thread) has its next         *)
(* synchronization message (NIC::send, in the thread of                    *)
(* RSU::send_sync_messages) carry the keys instead.  A vehicle takes keys  *)
(* of the quadrant it is in, and moves on meanwhile (Vehicle::run).        *)
(*                                                                         *)
(* A step ends where another thread of the process can see or change what  *)
(* the thread touches next.  The network keeps the order of the frames for *)
(* one receiver and loses any of them.  Frames that change nothing here    *)
(* are not put on it: messages of vehicles to vehicles, and RSU messages   *)
(* without keys, of which an RSU hears its own at most.                    *)
(***************************************************************************)
EXTENDS Integers, Sequences, FiniteSets

CONSTANTS
  NUM_RSU,    \* the number of quadrants
  Rsus,       \* the quadrants with an RSU; an RSU is its quadrant
  Vehicles,
  OwnFrames,  \* whether the interface returns an RSU the frames it sends
  MaxMoves,   \* bound on the moves of a vehicle, its start included
  MaxQueue,   \* bound on the frames on their way to one receiver
  None,       \* no address, no key
  Garbage     \* what a variable holds that was never written or is torn

Quadrants == 1 .. NUM_RSU
Agents    == Rsus \cup Vehicles
Addresses == Agents \cup {Garbage}

ASSUME KeyAssumption ==
  /\ NUM_RSU \in Nat \ {0}
  /\ Rsus \subseteq Quadrants
  /\ Vehicles \cap Quadrants = {} /\ IsFiniteSet(Vehicles)
  /\ Garbage \notin Agents /\ None \notin Addresses
  /\ OwnFrames \in BOOLEAN
  /\ MaxMoves \in Nat /\ MaxQueue \in Nat

VARIABLES
  inbox,        \* the frames in the socket of each agent
  vehicleTable, \* RSU: VehicleTable::_vehicles
  sendMacKey,   \* RSU: NIC::_send_mac_key
  unicastAddr,  \* RSU: NIC::_unicast_addr
  registering,  \* RSU: the address the worker has still to write there
  sender,       \* RSU: where the sending thread is, the address it copied
  answers,      \* RSU: the addresses of the key frames sent so far
  quadrant,     \* vehicle: NIC::_quadrant
  moves,        \* vehicle: how often it was set since the vehicle was made
  macKeyCache,  \* vehicle: NIC::_mac_key_cache, what is known of each key
  macKey,       \* vehicle: MACHandler::_mac_key
  worker,       \* vehicle: where the thread of the NIC is
  since         \* vehicle: how far it moved since that thread compared quadrants

rsuVars     == <<vehicleTable, sendMacKey, unicastAddr, registering, sender, answers>>
vehicleVars == <<quadrant, moves, macKeyCache, macKey, worker, since>>
vars        == <<inbox, rsuVars, vehicleVars>>

\* A frame as far as the receivers look: `addr' is what its data begin with,
\* the sender or, before keys, the vehicle they are for.
Frames    == [quadrant : Quadrants, keys : BOOLEAN, addr : Addresses]
Knowledge == {"none", "complete", "cut"}
Keys      == [of : Quadrants, is : Knowledge]

TypeOK ==
  /\ inbox \in [Agents -> Seq(Frames)]
  /\ vehicleTable \in [Rsus -> SUBSET Addresses]
  /\ sendMacKey \in [Rsus -> BOOLEAN]
  /\ unicastAddr \in [Rsus -> Addresses]
  /\ registering \in [Rsus -> Addresses \cup {None}]
  /\ sender \in [Rsus -> [at : {"idle", "copy", "sync", "keys", "clear"},
                          addr : Addresses]]
  /\ answers \in [Rsus -> Seq(Addresses)]
  /\ quadrant \in [Vehicles -> Quadrants]
  /\ moves \in [Vehicles -> 0 .. MaxMoves]
  /\ macKeyCache \in [Vehicles -> [Quadrants -> Knowledge]]
  /\ macKey \in [Vehicles -> Keys \cup {None}]
  /\ worker \in [Vehicles -> {"wait", "set", "crashed"}]
  /\ since \in [Vehicles -> 0 .. 2]

Init ==
  /\ inbox = [a \in Agents |-> <<>>]
  /\ vehicleTable = [r \in Rsus |-> {}]
  /\ sendMacKey = [r \in Rsus |-> FALSE]
  /\ unicastAddr = [r \in Rsus |-> Garbage]
  /\ registering = [r \in Rsus |-> None]
  /\ sender = [r \in Rsus |-> [at |-> "idle", addr |-> Garbage]]
  /\ answers = [r \in Rsus |-> <<>>]
  /\ quadrant \in [Vehicles -> Quadrants]
  /\ moves = [v \in Vehicles |-> 0]
  /\ macKeyCache = [v \in Vehicles |-> [q \in Quadrants |-> "none"]]
  /\ macKey = [v \in Vehicles |-> None]
  /\ worker = [v \in Vehicles |-> "wait"]
  /\ since = [v \in Vehicles |-> 0]

-----------------------------------------------------------------------------
\* A slip: the last quadrant has a next one.
NextUnwrapped(q) == q + 1

\* Vehicles drive in a circle; create_mac_key_data knows both neighbours.
NextQuadrant(q) == (q % NUM_RSU) + 1
PrevQuadrant(q) == IF q = 1 THEN NUM_RSU ELSE q - 1

\* A frame arrives at some of its receivers.
Deliver(frame, receivers) ==
  inbox' = [a \in Agents |->
              IF a \in receivers THEN Append(inbox[a], frame) ELSE inbox[a]]

Reachable(a) == Len(inbox[a]) < MaxQueue

-----------------------------------------------------------------------------
(***************************************************************************)
(* The sending thread of RSU r, in NIC::send.                              *)
(***************************************************************************)
\* It asks whether keys are to be sent.
TestFlag(r) ==
  /\ sender[r].at = "idle"
  /\ sender' = [sender EXCEPT ![r].at = IF sendMacKey[r] THEN "copy" ELSE "sync"]
  /\ UNCHANGED <<inbox, vehicleTable, sendMacKey, unicastAddr, registering,
                 answers, vehicleVars>>

\* It copies the address they are for, while the worker may be writing it.
CopyAddress(r) ==
  /\ sender[r].at = "copy"
  /\ \E a \in {unicastAddr[r]} \cup IF registering[r] = None THEN {} ELSE {Garbage} :
       sender' = [sender EXCEPT ![r] = [at |-> "keys", addr |-> a]]
  /\ UNCHANGED <<inbox, vehicleTable, sendMacKey, unicastAddr, registering,
                 answers, vehicleVars>>

\* raw_send, of the keys or of a message that begins with the RSU's address.
Transmit(r) ==
  /\ sender[r].at \in {"keys", "sync"}
  /\ LET keys    == sender[r].at = "keys"
         frame   == [quadrant |-> r, keys |-> keys,
                     addr |-> IF keys THEN sender[r].addr ELSE r]
         hearers == (IF keys THEN Vehicles ELSE {}) \cup (IF OwnFrames THEN {r} ELSE {})
     IN  /\ \E to \in SUBSET {a \in hearers : Reachable(a)} : Deliver(frame, to)
         /\ answers' = IF keys THEN [answers EXCEPT ![r] = Append(@, frame.addr)]
                               ELSE answers
  /\ sender' = [sender EXCEPT ![r].at = "clear"]
  /\ UNCHANGED <<vehicleTable, sendMacKey, unicastAddr, registering, vehicleVars>>

\* A slip: the flag is never cleared.
KeepFlag(r) ==
  /\ sender[r].at = "clear"
  /\ sender' = [sender EXCEPT ![r] = [at |-> "idle", addr |-> Garbage]]
  /\ UNCHANGED <<inbox, vehicleTable, sendMacKey, unicastAddr, registering,
                 answers, vehicleVars>>

\* _send_mac_key = false, whatever was sent.
ClearFlag(r) ==
  /\ sender[r].at = "clear"
  /\ sendMacKey' = [sendMacKey EXCEPT ![r] = FALSE]
  /\ sender' = [sender EXCEPT ![r] = [at |-> "idle", addr |-> Garbage]]
  /\ UNCHANGED <<inbox, vehicleTable, unicastAddr, registering, answers, vehicleVars>>

(***************************************************************************)
(* The worker of RSU r, in process_incoming_data.                          *)
(***************************************************************************)
\* A slip: one entry makes every vehicle a known one.
IsFirst(r, frame) == frame.quadrant = r /\ vehicleTable[r] = {}

\* Whom the RSU has not met: a sender in its quadrant that is not in the table.
IsNew(r, frame) == frame.quadrant = r /\ frame.addr \notin vehicleTable[r]

\* It enters a new vehicle in the table and asks for the keys to be sent.
Register(r) ==
  /\ registering[r] = None /\ inbox[r] # <<>>
  /\ LET frame == Head(inbox[r]) IN
       IF IsNew(r, frame)
         THEN /\ vehicleTable' = [vehicleTable EXCEPT ![r] = @ \cup {frame.addr}]
              /\ sendMacKey' = [sendMacKey EXCEPT ![r] = TRUE]
              /\ registering' = [registering EXCEPT ![r] = frame.addr]
         ELSE UNCHANGED <<vehicleTable, sendMacKey, registering>>
  /\ inbox' = [inbox EXCEPT ![r] = Tail(@)]
  /\ UNCHANGED <<unicastAddr, sender, answers, vehicleVars>>

\* Only then it says for whom.
WriteAddress(r) ==
  /\ registering[r] # None
  /\ unicastAddr' = [unicastAddr EXCEPT ![r] = registering[r]]
  /\ registering' = [registering EXCEPT ![r] = None]
  /\ UNCHANGED <<inbox, vehicleTable, sendMacKey, sender, answers, vehicleVars>>

-----------------------------------------------------------------------------
(***************************************************************************)
(* Vehicle v.  The place "crashed" is the end of its process.              *)
(***************************************************************************)
Alive(v) == worker[v] # "crashed"

Moved(v, q, far) ==
  /\ Alive(v) /\ moves[v] < MaxMoves
  /\ quadrant' = [quadrant EXCEPT ![v] = q]
  /\ moves' = [moves EXCEPT ![v] = @ + 1]
  /\ since' = [since EXCEPT ![v] = IF @ + far < 2 THEN @ + far ELSE 2]
  /\ UNCHANGED <<inbox, rsuVars, macKeyCache, macKey, worker>>

\* Vehicle::start takes any quadrant, when the NIC works already.
Start(v) ==
  moves[v] = 0 /\ \E q \in Quadrants : Moved(v, q, 2)

\* Vehicle::run, once a second.
Move(v) ==
  moves[v] > 0 /\ Moved(v, NextQuadrant(quadrant[v]), 1)

\* Some component of the vehicle sends a message; these RSUs hear it.
SendTo(v, heardBy) ==
  /\ Alive(v) /\ moves[v] > 0
  /\ Deliver([quadrant |-> quadrant[v], keys |-> FALSE, addr |-> v], heardBy)
  /\ UNCHANGED <<rsuVars, vehicleVars>>

Send(v) ==
  \E heardBy \in SUBSET {r \in Rsus : Reachable(r)} : SendTo(v, heardBy)

\* The test of a key frame's address in process_incoming_data: memcmp is not zero
\* when they differ, so every vehicle but the one they are for uses the keys.
TakesKeysFor(v, addr) == addr # v

\* A slip: the key of the next quadrant is left out.
CacheWithPrev(known, q) ==
  [known EXCEPT ![PrevQuadrant(q)] = "complete", ![q] = "cut"]

\* What a vehicle knows with the keys of quadrant q: those of the neighbours
\* and, as the size sent does not count the address in front of the keys, the
\* beginning of the third one, with whatever its buffer held before as the rest.
CacheWith(known, q) ==
  [known EXCEPT ![PrevQuadrant(q)] = "complete", ![NextQuadrant(q)] = "complete",
                ![q] = "cut"]

\* A key frame is read: the keys go to the cache.
TakeKeys(v) ==
  /\ worker[v] = "wait" /\ inbox[v] # <<>>
  /\ LET frame == Head(inbox[v]) IN
       IF frame.quadrant = quadrant[v] /\ TakesKeysFor(v, frame.addr)
         THEN /\ macKeyCache' = [macKeyCache EXCEPT ![v] = CacheWith(@, frame.quadrant)]
              /\ worker' = [worker EXCEPT ![v] = "set"]
              /\ since' = [since EXCEPT ![v] = 0]
         ELSE UNCHANGED <<macKeyCache, worker, since>>
  /\ inbox' = [inbox EXCEPT ![v] = Tail(@)]
  /\ UNCHANGED <<rsuVars, quadrant, moves, macKey>>

\* The quadrant is read again, for the key to use; without one, the copy from
\* the null pointer ends the process.
SetKey(v) ==
  /\ worker[v] = "set"
  /\ LET q == quadrant[v] IN
       IF macKeyCache[v][q] = "none"
         THEN /\ worker' = [worker EXCEPT ![v] = "crashed"]
              /\ UNCHANGED macKey
         ELSE /\ macKey' = [macKey EXCEPT ![v] = [of |-> q, is |-> macKeyCache[v][q]]]
              /\ worker' = [worker EXCEPT ![v] = "wait"]
  /\ UNCHANGED <<inbox, rsuVars, quadrant, moves, macKeyCache, since>>

-----------------------------------------------------------------------------
SendSync(r) == TestFlag(r) \/ CopyAddress(r) \/ Transmit(r) \/ ClearFlag(r)
Work(r)     == Register(r) \/ WriteAddress(r)
Drive(v)    == Start(v) \/ Move(v)
Receive(v)  == TakeKeys(v) \/ SetKey(v)

Next ==
  \/ \E r \in Rsus : SendSync(r) \/ Work(r)
  \/ \E v \in Vehicles : Drive(v) \/ Send(v) \/ Receive(v)

Spec == Init /\ [][Next]_vars

\* The threads run, vehicles start, their components send messages, and a
\* message that is sent again and again arrives at some time.
FairSpec ==
  /\ Spec
  /\ \A r \in Rsus : WF_vars(SendSync(r)) /\ WF_vars(Work(r))
  /\ \A v \in Vehicles : WF_vars(Start(v)) /\ WF_vars(Receive(v))
  /\ \A v \in Vehicles, r \in Rsus : SF_vars(Reachable(r) /\ SendTo(v, {r}))

-----------------------------------------------------------------------------
(***************************************************************************)
(* An RSU sends the keys no more often than it registers a vehicle, however*)
(* the flag is set and cleared by its two threads.                         *)
(* (nic.h: 230, 248 and 258 against 348 to 354.)                           *)
(***************************************************************************)
Outstanding(r) ==
  IF \/ sender[r].at \in {"copy", "keys"}
     \/ sender[r].at = "idle" /\ sendMacKey[r]
    THEN 1 ELSE 0

AnswersOnlyJoins ==
  \A r \in Rsus : Len(answers[r]) + Outstanding(r) <= Cardinality(vehicleTable[r])

(***************************************************************************)
(* A vehicle that takes keys and moves on by one quadrant before it reads  *)
(* its quadrant again finds a key: the neighbours' keys are there for that.*)
(* (nic.h:382, where the result of get is not tested.)                     *)
(***************************************************************************)
KeysCoverOneMove ==
  \A v \in Vehicles :
    worker[v] = "set" /\ since[v] <= 1 => macKeyCache[v][quadrant[v]] # "none"

(***************************************************************************)
(* A vehicle that stays in a quadrant is registered by the RSU there, even *)
(* if frames are lost.  (process_incoming_data, the RSU's part.)           *)
(***************************************************************************)
EveryVehicleIsMet ==
  \A v \in Vehicles, r \in Rsus :
    <>[](Alive(v) /\ quadrant[v] = r) => <>(v \in vehicleTable[r])

(***************************************************************************)
(* A new vehicle is answered.  (_send_mac_key, set by the worker, cleared  *)
(* by the sending thread.)                                                 *)
(***************************************************************************)
EveryJoinIsAnswered ==
  \A v \in Vehicles, r \in Rsus :
    v \in vehicleTable[r] ~> \E i \in DOMAIN answers[r] : answers[r][i] = v
=============================================================================
