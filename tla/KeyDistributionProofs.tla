------------------------ MODULE KeyDistributionProofs ------------------------
(***************************************************************************)
(* KeyDistribution for any number of quadrants, RSUs and vehicles, whether *)
(* or not an RSU hears itself.                                             *)
(***************************************************************************)
EXTENDS KeyDistribution, FiniteSetTheorems, TLAPS

LEMMA NeighboursAreQuadrants ==
  ASSUME NEW q \in Quadrants
  PROVE  NextQuadrant(q) \in Quadrants /\ PrevQuadrant(q) \in Quadrants
<1>1. NUM_RSU \in Nat /\ NUM_RSU > 0 /\ q \in Int /\ 1 <= q /\ q <= NUM_RSU
  BY KeyAssumption DEF Quadrants
<1>2. q % NUM_RSU \in 0 .. NUM_RSU - 1
  BY <1>1
<1> QED BY <1>1, <1>2 DEF NextQuadrant, PrevQuadrant, Quadrants

\* What delivering a frame does to the sockets.
LEMMA DeliverKeepsType ==
  ASSUME inbox \in [Agents -> Seq(Frames)], NEW frame \in Frames, NEW to,
         Deliver(frame, to)
  PROVE  inbox' \in [Agents -> Seq(Frames)]
BY DEF Deliver

LEMMA TakeKeepsType ==
  ASSUME inbox \in [Agents -> Seq(Frames)], NEW a \in Agents, inbox[a] # <<>>,
         inbox' = [inbox EXCEPT ![a] = Tail(@)]
  PROVE  inbox' \in [Agents -> Seq(Frames)] /\ Head(inbox[a]) \in Frames
<1>1. inbox[a] \in Seq(Frames)
  OBVIOUS
<1>2. Tail(inbox[a]) \in Seq(Frames) /\ Head(inbox[a]) \in Frames
  BY <1>1
<1> QED BY <1>2

LEMMA InitTypeOK == Init => TypeOK
BY KeyAssumption DEF Init, TypeOK, Agents, Addresses, Knowledge

LEMMA SendSyncKeepsType ==
  ASSUME TypeOK, NEW r \in Rsus, SendSync(r) PROVE TypeOK'
<1>1. CASE TestFlag(r)
  BY <1>1 DEF TypeOK, TestFlag, vehicleVars
<1>2. CASE CopyAddress(r)
  <2>1. PICK a \in Addresses : sender' = [sender EXCEPT ![r] = [at |-> "keys", addr |-> a]]
    BY <1>2 DEF CopyAddress, TypeOK, Addresses
  <2> QED BY <1>2, <2>1 DEF TypeOK, CopyAddress, vehicleVars
<1>3. CASE Transmit(r)
  <2>1. inbox' \in [Agents -> Seq(Frames)]
    <3> DEFINE keys  == sender[r].at = "keys"
               frame == [quadrant |-> r, keys |-> keys,
                         addr |-> IF keys THEN sender[r].addr ELSE r]
    <3>1. PICK to : Deliver(frame, to)
      BY <1>3 DEF Transmit
    <3>2. frame \in Frames
      <4>1. r \in Quadrants /\ r \in Addresses /\ keys \in BOOLEAN
        BY KeyAssumption DEF Addresses, Agents
      <4>2. sender[r].addr \in Addresses
        BY DEF TypeOK
      <4> QED BY <4>1, <4>2 DEF Frames
    <3>3. inbox \in [Agents -> Seq(Frames)]
      BY DEF TypeOK
    <3> HIDE DEF frame
    <3> QED BY <3>1, <3>2, <3>3, DeliverKeepsType
  <2>2. answers' \in [Rsus -> Seq(Addresses)]
    BY <1>3 DEF Transmit, TypeOK
  <2>3. sender' \in [Rsus -> [at : {"idle", "copy", "sync", "keys", "clear"},
                              addr : Addresses]]
    BY <1>3 DEF Transmit, TypeOK
  <2>4. UNCHANGED <<vehicleTable, sendMacKey, unicastAddr, registering, vehicleVars>>
    BY <1>3 DEF Transmit
  <2> QED BY <2>1, <2>2, <2>3, <2>4 DEF TypeOK, vehicleVars
<1>4. CASE ClearFlag(r)
  BY <1>4 DEF TypeOK, ClearFlag, vehicleVars, Addresses
<1> QED BY <1>1, <1>2, <1>3, <1>4 DEF SendSync

LEMMA WorkKeepsType ==
  ASSUME TypeOK, NEW r \in Rsus, Work(r) PROVE TypeOK'
<1>1. CASE Register(r)
  <2>1. inbox' \in [Agents -> Seq(Frames)] /\ Head(inbox[r]).addr \in Addresses
    <3>1. r \in Agents /\ inbox[r] # <<>> /\ inbox' = [inbox EXCEPT ![r] = Tail(@)]
      BY <1>1 DEF Register, Agents
    <3>2. inbox \in [Agents -> Seq(Frames)]
      BY DEF TypeOK
    <3> QED BY <3>1, <3>2, TakeKeepsType DEF Frames
  <2>2. /\ vehicleTable' \in [Rsus -> SUBSET Addresses]
        /\ registering' \in [Rsus -> Addresses \cup {None}]
    <3> DEFINE a == Head(inbox[r]).addr
    <3>1. \/ UNCHANGED <<vehicleTable, registering>>
          \/ /\ vehicleTable' = [vehicleTable EXCEPT ![r] = @ \cup {a}]
             /\ registering' = [registering EXCEPT ![r] = a]
      BY <1>1 DEF Register
    <3>2. /\ vehicleTable \in [Rsus -> SUBSET Addresses]
          /\ registering \in [Rsus -> Addresses \cup {None}]
      BY DEF TypeOK
    <3> HIDE DEF a
    <3>3. a \in Addresses
      BY <2>1 DEF a
    <3> QED BY <3>1, <3>2, <3>3
  <2>3. sendMacKey' \in [Rsus -> BOOLEAN]
    BY <1>1 DEF TypeOK, Register
  <2>4. UNCHANGED <<unicastAddr, sender, answers, vehicleVars>>
    BY <1>1 DEF Register
  <2> QED BY <2>1, <2>2, <2>3, <2>4 DEF TypeOK, vehicleVars
<1>2. CASE WriteAddress(r)
  BY <1>2 DEF TypeOK, WriteAddress, vehicleVars
<1> QED BY <1>1, <1>2 DEF Work

LEMMA DriveKeepsType ==
  ASSUME TypeOK, NEW v \in Vehicles, Drive(v) PROVE TypeOK'
<1>1. PICK q \in Quadrants, far \in 1 .. 2 : Moved(v, q, far)
  BY NeighboursAreQuadrants DEF Drive, Start, Move, TypeOK
<1>2. moves' \in [Vehicles -> 0 .. MaxMoves]
  <2>1. moves[v] < MaxMoves /\ moves' = [moves EXCEPT ![v] = moves[v] + 1]
    BY <1>1 DEF Moved
  <2>2. moves \in [Vehicles -> 0 .. MaxMoves]
    BY DEF TypeOK
  <2> QED BY <2>1, <2>2, KeyAssumption
<1>4. since' \in [Vehicles -> 0 .. 2]
  <2>1. since' = [since EXCEPT ![v] = IF since[v] + far < 2 THEN since[v] + far ELSE 2]
    BY <1>1 DEF Moved
  <2>2. since \in [Vehicles -> 0 .. 2]
    BY DEF TypeOK
  <2> QED BY <2>1, <2>2
<1>3. quadrant' \in [Vehicles -> Quadrants]
  BY <1>1 DEF Moved, TypeOK
<1> QED BY <1>1, <1>2, <1>3, <1>4 DEF Moved, TypeOK, rsuVars

LEMMA SendKeepsType ==
  ASSUME TypeOK, NEW v \in Vehicles, Send(v) PROVE TypeOK'
<1> DEFINE frame == [quadrant |-> quadrant[v], keys |-> FALSE, addr |-> v]
<1>1. PICK to : Deliver(frame, to)
  BY DEF Send, SendTo
<1>2. frame \in Frames
  BY DEF TypeOK, Frames, Addresses, Agents
<1>3. inbox \in [Agents -> Seq(Frames)]
  BY DEF TypeOK
<1> HIDE DEF frame
<1>4. inbox' \in [Agents -> Seq(Frames)]
  BY <1>1, <1>2, <1>3, DeliverKeepsType
<1> QED BY <1>4 DEF Send, SendTo, TypeOK, rsuVars, vehicleVars

LEMMA CacheWithKeepsType ==
  ASSUME NEW known \in [Quadrants -> Knowledge], NEW q \in Quadrants
  PROVE  /\ CacheWith(known, q) \in [Quadrants -> Knowledge]
         /\ CacheWith(known, q)[q] # "none"
         /\ CacheWith(known, q)[NextQuadrant(q)] # "none"
<1> DEFINE next == NextQuadrant(q)
           prev == PrevQuadrant(q)
<1>1. next \in Quadrants /\ prev \in Quadrants
  BY NeighboursAreQuadrants
<1> HIDE DEF next, prev
<1>2. CacheWith(known, q) =
        [known EXCEPT ![prev] = "complete", ![next] = "complete", ![q] = "cut"]
  BY DEF CacheWith, next, prev
<1> QED BY <1>1, <1>2 DEF Knowledge, next

LEMMA ReceiveKeepsType ==
  ASSUME TypeOK, NEW v \in Vehicles, Receive(v) PROVE TypeOK'
<1>1. CASE TakeKeys(v)
  <2>1. inbox' \in [Agents -> Seq(Frames)] /\ Head(inbox[v]) \in Frames
    <3>1. v \in Agents /\ inbox[v] # <<>> /\ inbox' = [inbox EXCEPT ![v] = Tail(@)]
      BY <1>1 DEF TakeKeys, Agents
    <3>2. inbox \in [Agents -> Seq(Frames)]
      BY DEF TypeOK
    <3> QED BY <3>1, <3>2, TakeKeepsType
  <2>2. CacheWith(macKeyCache[v], Head(inbox[v]).quadrant) \in [Quadrants -> Knowledge]
    BY <2>1, CacheWithKeepsType DEF Frames, TypeOK
  <2>3. macKeyCache' \in [Vehicles -> [Quadrants -> Knowledge]]
    BY <1>1, <2>2 DEF TakeKeys, TypeOK
  <2>4. worker' \in [Vehicles -> {"wait", "set", "crashed"}]
    BY <1>1 DEF TakeKeys, TypeOK
  <2>5. since' \in [Vehicles -> 0 .. 2]
    <3>1. since' = since \/ since' = [since EXCEPT ![v] = 0]
      BY <1>1 DEF TakeKeys
    <3>2. since \in [Vehicles -> 0 .. 2] /\ 0 \in 0 .. 2
      BY DEF TypeOK
    <3> QED BY <3>1, <3>2
  <2>6. UNCHANGED <<rsuVars, quadrant, moves, macKey>>
    BY <1>1 DEF TakeKeys
  <2> QED BY <2>1, <2>3, <2>4, <2>5, <2>6 DEF TypeOK, rsuVars
<1>2. CASE SetKey(v)
  <2>1. worker' \in [Vehicles -> {"wait", "set", "crashed"}]
    <3>1. worker' = [worker EXCEPT ![v] = "crashed"] \/ worker' = [worker EXCEPT ![v] = "wait"]
      BY <1>2 DEF SetKey
    <3> QED BY <3>1 DEF TypeOK
  <2>2. macKey' \in [Vehicles -> Keys \cup {None}]
    <3> DEFINE key == [of |-> quadrant[v], is |-> macKeyCache[v][quadrant[v]]]
    <3>1. key \in Keys
      BY DEF TypeOK, Keys
    <3>2. macKey' = macKey \/ macKey' = [macKey EXCEPT ![v] = key]
      BY <1>2 DEF SetKey
    <3> HIDE DEF key
    <3> QED BY <3>1, <3>2 DEF TypeOK
  <2>3. UNCHANGED <<inbox, rsuVars, quadrant, moves, macKeyCache, since>>
    BY <1>2 DEF SetKey
  <2> QED BY <2>1, <2>2, <2>3 DEF TypeOK, rsuVars
<1> QED BY <1>1, <1>2 DEF Receive

LEMMA NextKeepsType == TypeOK /\ [Next]_vars => TypeOK'
<1> SUFFICES ASSUME TypeOK, [Next]_vars PROVE TypeOK'
  OBVIOUS
<1>1. CASE UNCHANGED vars
  BY <1>1 DEF TypeOK, vars, rsuVars, vehicleVars
<1>2. CASE Next
  BY <1>2, SendSyncKeepsType, WorkKeepsType, DriveKeepsType, SendKeepsType,
     ReceiveKeepsType DEF Next
<1> QED BY <1>1, <1>2

(***************************************************************************)
(* The state keeps its types, whoever moves, joins and answers: quadrants  *)
(* stay in range and only addresses of agents, or what was never written,  *)
(* get into tables and key frames.                                         *)
(***************************************************************************)
THEOREM TypeCorrect == Spec => []TypeOK
BY InitTypeOK, NextKeepsType, PTL DEF Spec

-----------------------------------------------------------------------------
\* What a vehicle about to set its key has in its cache: at first the keys of
\* its quadrant and of the next one, after a move that of its quadrant.
Has(v, q) == macKeyCache[v][q] # "none"

CoverInv ==
  \A v \in Vehicles : worker[v] = "set" =>
    /\ since[v] = 0 => Has(v, quadrant[v]) /\ Has(v, NextQuadrant(quadrant[v]))
    /\ since[v] = 1 => Has(v, quadrant[v])

LEMMA InitCoverInv == Init => CoverInv
BY DEF Init, CoverInv

LEMMA DriveKeepsCoverInv ==
  ASSUME TypeOK, CoverInv, NEW w \in Vehicles, Drive(w) PROVE CoverInv'
<1> SUFFICES ASSUME NEW v \in Vehicles, worker'[v] = "set"
             PROVE  /\ since'[v] = 0 => Has(v, quadrant[v])' /\ Has(v, NextQuadrant(quadrant[v]))'
                    /\ since'[v] = 1 => Has(v, quadrant[v])'
  BY DEF CoverInv
<1>1. PICK q \in Quadrants, far \in 1 .. 2 :
        Moved(w, q, far) /\ (far = 1 => q = NextQuadrant(quadrant[w]))
  BY NeighboursAreQuadrants DEF Drive, Start, Move, TypeOK
<1>2. UNCHANGED <<macKeyCache, worker>>
  BY <1>1 DEF Moved
<1>3. /\ quadrant' = [quadrant EXCEPT ![w] = q]
      /\ since' = [since EXCEPT ![w] = IF since[w] + far < 2 THEN since[w] + far ELSE 2]
  BY <1>1 DEF Moved
<1>4. since \in [Vehicles -> 0 .. 2] /\ quadrant \in [Vehicles -> Quadrants]
  BY DEF TypeOK
<1>5. CASE v # w
  <2>1. since'[v] = since[v] /\ quadrant'[v] = quadrant[v]
    BY <1>3, <1>4, <1>5
  <2> QED BY <1>2, <2>1 DEF CoverInv, Has, NextQuadrant
<1>6. CASE v = w
  <2>1. since'[v] # 0 /\ (since'[v] = 1 => since[v] = 0 /\ far = 1)
    BY <1>3, <1>4, <1>6
  <2>2. quadrant'[v] = q
    BY <1>3, <1>4, <1>6
  <2>3. ASSUME since'[v] = 1 PROVE Has(v, quadrant[v])'
    <3>1. since[v] = 0 /\ q = NextQuadrant(quadrant[v]) /\ worker[v] = "set"
      BY <1>1, <1>2, <1>6, <2>1, <2>3
    <3> QED BY <1>2, <2>2, <3>1 DEF CoverInv, Has
  <2> QED BY <2>1, <2>3
<1> QED BY <1>5, <1>6

LEMMA ReceiveKeepsCoverInv ==
  ASSUME TypeOK, CoverInv, NEW w \in Vehicles, Receive(w) PROVE CoverInv'
<1> SUFFICES ASSUME NEW v \in Vehicles, worker'[v] = "set"
             PROVE  /\ since'[v] = 0 => Has(v, quadrant[v])' /\ Has(v, NextQuadrant(quadrant[v]))'
                    /\ since'[v] = 1 => Has(v, quadrant[v])'
  BY DEF CoverInv
<1>1. UNCHANGED quadrant /\ quadrant[w] \in Quadrants
  BY DEF Receive, TakeKeys, SetKey, TypeOK
<1>2. CASE /\ Head(inbox[w]).quadrant = quadrant[w]
           /\ macKeyCache' = [macKeyCache EXCEPT ![w] = CacheWith(@, Head(inbox[w]).quadrant)]
           /\ worker' = [worker EXCEPT ![w] = "set"]
           /\ since' = [since EXCEPT ![w] = 0]
  <2>1. CASE v = w
    <3>1. macKeyCache[w] \in [Quadrants -> Knowledge]
      BY DEF TypeOK
    <3>2. macKeyCache'[w] = CacheWith(macKeyCache[w], quadrant[w]) /\ since'[w] = 0
      BY <1>2 DEF TypeOK
    <3>3. Has(w, quadrant[w])' /\ Has(w, NextQuadrant(quadrant[w]))'
      BY <1>1, <3>1, <3>2, CacheWithKeepsType DEF Has, NextQuadrant
    <3> QED BY <2>1, <3>2, <3>3
  <2>2. CASE v # w
    <3>1. macKeyCache'[v] = macKeyCache[v] /\ worker'[v] = worker[v] /\ since'[v] = since[v]
      BY <1>2, <2>2 DEF TypeOK
    <3> QED BY <1>1, <3>1 DEF CoverInv, Has, NextQuadrant
  <2> QED BY <2>1, <2>2
<1>3. CASE UNCHANGED <<macKeyCache, worker, since>>
  BY <1>1, <1>3 DEF CoverInv, Has, NextQuadrant
<1>4. CASE SetKey(w)
  <2>1. UNCHANGED <<macKeyCache, since>>
    BY <1>4 DEF SetKey
  <2>2. worker[v] = "set"
    <3>1. worker' = [worker EXCEPT ![w] = "crashed"] \/ worker' = [worker EXCEPT ![w] = "wait"]
      BY <1>4 DEF SetKey
    <3> QED BY <3>1 DEF TypeOK
  <2> QED BY <1>1, <2>1, <2>2 DEF CoverInv, Has, NextQuadrant
<1>5. CASE TakeKeys(w)
  BY <1>2, <1>3, <1>5 DEF TakeKeys
<1> QED BY <1>4, <1>5 DEF Receive

LEMMA NextKeepsCoverInv == TypeOK /\ CoverInv /\ [Next]_vars => CoverInv'
<1> SUFFICES ASSUME TypeOK, CoverInv, [Next]_vars PROVE CoverInv'
  OBVIOUS
<1>1. ASSUME UNCHANGED <<quadrant, macKeyCache, worker, since>> PROVE CoverInv'
  BY <1>1 DEF CoverInv, Has, NextQuadrant
<1>2. ASSUME NEW r \in Rsus, SendSync(r) \/ Work(r) PROVE CoverInv'
  BY <1>1, <1>2 DEF SendSync, TestFlag, CopyAddress, Transmit, ClearFlag, Work,
     Register, WriteAddress, vehicleVars
<1>3. ASSUME NEW v \in Vehicles, Send(v) PROVE CoverInv'
  BY <1>1, <1>3 DEF Send, SendTo, vehicleVars
<1>4. CASE UNCHANGED vars
  BY <1>1, <1>4 DEF vars, vehicleVars
<1> QED BY <1>2, <1>3, <1>4, DriveKeepsCoverInv, ReceiveKeepsCoverInv DEF Next

(***************************************************************************)
(* A vehicle that moves by one quadrant at most while it takes keys does   *)
(* not copy from the null pointer, for any number of quadrants.            *)
(***************************************************************************)
THEOREM OneMoveIsCovered == Spec => []KeysCoverOneMove
<1>1. TypeOK /\ CoverInv => KeysCoverOneMove
  <2> SUFFICES ASSUME TypeOK, CoverInv, NEW v \in Vehicles, worker[v] = "set", since[v] <= 1
               PROVE  macKeyCache[v][quadrant[v]] # "none"
    BY DEF KeysCoverOneMove
  <2>1. since[v] = 0 \/ since[v] = 1
    BY DEF TypeOK
  <2> QED BY <2>1 DEF CoverInv, Has
<1> QED BY InitTypeOK, NextKeepsType, InitCoverInv, NextKeepsCoverInv, <1>1, PTL DEF Spec

-----------------------------------------------------------------------------
AnswersInv ==
  /\ \A r \in Rsus : IsFiniteSet(vehicleTable[r])
  /\ AnswersOnlyJoins

LEMMA InitAnswersInv == Init => AnswersInv
<1> SUFFICES ASSUME Init, NEW r \in Rsus
             PROVE  /\ IsFiniteSet(vehicleTable[r])
                    /\ Len(answers[r]) + Outstanding(r) <= Cardinality(vehicleTable[r])
  BY DEF AnswersInv, AnswersOnlyJoins
<1>1. vehicleTable[r] = {} /\ answers[r] = <<>> /\ Outstanding(r) = 0
  BY DEF Init, Outstanding
<1> QED BY <1>1, FS_EmptySet

\* Only the two threads of an RSU change what the invariant says of it.
LEMMA AnswersElsewhere ==
  ASSUME AnswersInv, NEW r \in Rsus,
         UNCHANGED <<vehicleTable[r], sendMacKey[r], sender[r], answers[r]>>
  PROVE  /\ IsFiniteSet(vehicleTable[r])'
         /\ (Len(answers[r]) + Outstanding(r) <= Cardinality(vehicleTable[r]))'
BY DEF AnswersInv, AnswersOnlyJoins, Outstanding

LEMMA SendSyncKeepsAnswers ==
  ASSUME TypeOK, AnswersInv, NEW s \in Rsus, SendSync(s) PROVE AnswersInv'
<1> SUFFICES ASSUME NEW r \in Rsus
             PROVE  /\ IsFiniteSet(vehicleTable[r])'
                    /\ (Len(answers[r]) + Outstanding(r) <= Cardinality(vehicleTable[r]))'
  BY DEF AnswersInv, AnswersOnlyJoins
<1>1. /\ UNCHANGED vehicleTable /\ IsFiniteSet(vehicleTable[r])
      /\ Len(answers[r]) + Outstanding(r) <= Cardinality(vehicleTable[r])
      /\ Len(answers[r]) \in Nat /\ Cardinality(vehicleTable[r]) \in Nat
      /\ Outstanding(r) \in {0, 1}
  BY FS_CardinalityType
     DEF AnswersInv, AnswersOnlyJoins, SendSync, TestFlag, CopyAddress, Transmit,
         ClearFlag, TypeOK, Outstanding
<1>2. CASE r # s
  <2>1. UNCHANGED <<sendMacKey[r], sender[r], answers[r]>>
    BY <1>2 DEF SendSync, TestFlag, CopyAddress, Transmit, ClearFlag, TypeOK
  <2> QED BY <1>1, <2>1, AnswersElsewhere
<1>3. CASE r = s /\ TestFlag(s)
  <2>1. UNCHANGED answers /\ Outstanding(r)' = Outstanding(r)
    BY <1>3 DEF TestFlag, Outstanding, TypeOK
  <2> QED BY <1>1, <2>1
<1>4. CASE r = s /\ CopyAddress(s)
  <2>1. sender[r].at = "copy" /\ sender'[r].at = "keys" /\ UNCHANGED answers
    BY <1>4 DEF CopyAddress, TypeOK
  <2>2. Outstanding(r)' = 1 /\ Outstanding(r) = 1
    BY <2>1 DEF Outstanding
  <2> QED BY <1>1, <2>1, <2>2
<1>5. CASE r = s /\ Transmit(s)
  <2>1. Outstanding(r)' = 0
    BY <1>5 DEF Transmit, Outstanding, TypeOK
  <2>2. CASE sender[r].at = "keys"
    <3>1. Outstanding(r) = 1
      BY <2>2 DEF Outstanding
    <3>2. answers'[r] = Append(answers[r], sender[r].addr)
      BY <1>5, <2>2 DEF Transmit, TypeOK
    <3>3. Len(answers'[r]) = Len(answers[r]) + 1
      BY <3>2 DEF TypeOK
    <3> QED BY <1>1, <2>1, <3>1, <3>3
  <2>3. CASE sender[r].at # "keys"
    <3>1. answers' = answers
      BY <1>5, <2>3 DEF Transmit
    <3> QED BY <1>1, <2>1, <3>1
  <2> QED BY <2>2, <2>3
<1>6. CASE r = s /\ ClearFlag(s)
  <2>1. UNCHANGED answers /\ Outstanding(r)' = 0
    BY <1>6 DEF ClearFlag, Outstanding, TypeOK
  <2> QED BY <1>1, <2>1
<1> QED BY <1>2, <1>3, <1>4, <1>5, <1>6 DEF SendSync

LEMMA WorkKeepsAnswers ==
  ASSUME TypeOK, AnswersInv, NEW s \in Rsus, Work(s) PROVE AnswersInv'
<1> SUFFICES ASSUME NEW r \in Rsus
             PROVE  /\ IsFiniteSet(vehicleTable[r])'
                    /\ (Len(answers[r]) + Outstanding(r) <= Cardinality(vehicleTable[r]))'
  BY DEF AnswersInv, AnswersOnlyJoins
<1>1. UNCHANGED <<sender, answers>>
  BY DEF Work, Register, WriteAddress
<1>2. CASE UNCHANGED <<vehicleTable[r], sendMacKey[r]>>
  BY <1>1, <1>2, AnswersElsewhere
<1>3. CASE ~ UNCHANGED <<vehicleTable[r], sendMacKey[r]>>
  <2> DEFINE a == Head(inbox[s]).addr
  <2>1. /\ a \notin vehicleTable[s]
        /\ vehicleTable' = [vehicleTable EXCEPT ![s] = @ \cup {a}]
        /\ sendMacKey' = [sendMacKey EXCEPT ![s] = TRUE]
    BY <1>3 DEF Work, Register, WriteAddress, IsNew
  <2>2. r = s
    BY <1>3, <2>1 DEF TypeOK
  <2> HIDE DEF a
  <2>3. vehicleTable'[r] = vehicleTable[r] \cup {a} /\ a \notin vehicleTable[r]
    BY <2>1, <2>2 DEF TypeOK
  <2>4. IsFiniteSet(vehicleTable[r]) /\ Cardinality(vehicleTable[r]) \in Nat
    BY FS_CardinalityType DEF AnswersInv
  <2>5. /\ IsFiniteSet(vehicleTable'[r])
        /\ Cardinality(vehicleTable'[r]) = Cardinality(vehicleTable[r]) + 1
    BY <2>3, <2>4, FS_AddElement
  <2>6. /\ Outstanding(r) \in {0, 1} /\ Outstanding(r)' \in {0, 1}
        /\ Len(answers[r]) \in Nat
    BY DEF Outstanding, TypeOK
  <2>7. Len(answers[r]) + Outstanding(r) <= Cardinality(vehicleTable[r])
    BY DEF AnswersInv, AnswersOnlyJoins
  <2> QED BY <1>1, <2>4, <2>5, <2>6, <2>7
<1> QED BY <1>2, <1>3

LEMMA NextKeepsAnswers == TypeOK /\ AnswersInv /\ [Next]_vars => AnswersInv'
<1> SUFFICES ASSUME TypeOK, AnswersInv, [Next]_vars PROVE AnswersInv'
  OBVIOUS
<1>1. ASSUME UNCHANGED rsuVars PROVE AnswersInv'
  BY <1>1 DEF AnswersInv, AnswersOnlyJoins, Outstanding, rsuVars
<1>2. ASSUME NEW v \in Vehicles, Drive(v) \/ Send(v) \/ Receive(v) PROVE AnswersInv'
  BY <1>1, <1>2 DEF Drive, Start, Move, Moved, Send, SendTo, Receive, TakeKeys, SetKey
<1>3. CASE UNCHANGED vars
  BY <1>1, <1>3 DEF vars
<1> QED BY <1>2, <1>3, SendSyncKeepsAnswers, WorkKeepsAnswers DEF Next

(***************************************************************************)
(* No interleaving of the two threads of an RSU makes it send keys more    *)
(* often than vehicles join.                                               *)
(***************************************************************************)
THEOREM AnswersAreJoins == Spec => []AnswersOnlyJoins
<1>1. AnswersInv => AnswersOnlyJoins
  BY DEF AnswersInv
<1> QED BY InitTypeOK, NextKeepsType, InitAnswersInv, NextKeepsAnswers, <1>1, PTL DEF Spec
=============================================================================
