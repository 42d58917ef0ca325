--------------------------- MODULE SmartDataProofs ---------------------------
(***************************************************************************)
(* Theorems about SmartData: whatever the requesters, agents and periods,  *)
(* a component that stops leaves no thread behind and uses no deleted one, *)
(* unless its stop overtakes the handling of an interest, and the period   *)
(* of a response thread is the greatest common divisor of what was asked.  *)
(***************************************************************************)
EXTENDS SmartData, FiniteSetTheorems, WellFoundedInduction, TLAPS

\* The stages in which _running is set, ...
Up == {"up", "task", "clear"}

\* ... and those in which a periodic thread is not yet done with.
Before(k) ==
  {"down", k} \cup Up \cup
    CASE k = "internal" -> {"interest"}
      [] k = "external" -> {"interest", "internal"}
      [] OTHER -> {}

\* A thread of Component::run is done with when _running is cleared.
BeforeEnd(k) == IF k = "task" THEN {"down", "up", "task"} ELSE Before(k)

ControlOK ==
  /\ stage \in Stages
  /\ rpc \in ReceivePlaces
  /\ running \in BOOLEAN
  /\ object \in [Kinds -> Lives]
  /\ place \in [Kinds -> Places]

\* The receive thread acts on an interest only while the component runs.
HandlesInTime ==
  /\ running <=> stage \in Up
  /\ stage \in Up \cup {"down"} => ~ overtaken
  /\ ~ overtaken /\ Acting => stage \in Up

\* It knows of the thread it is making.
MakesOne ==
  /\ rpc = "create" => object[Kind] = "none"
  /\ \A k \in Kinds : object[k] = "made" => rpc = "launch" /\ Kind = k
  /\ \A k \in Kinds : object[k] \in {"none", "made"} => place[k] = "none"

\* A periodic thread ends in its stage.
EndsInStage ==
  \A k \in Kinds :
    /\ stage \in BeforeEnd(k) => object[k] # "deleted"
    /\ stage \in BeforeEnd(k) \ {k} => object[k] # "told"
    /\ ~ overtaken /\ stage \notin BeforeEnd(k) => object[k] \in {"none", "deleted"}
    /\ ~ overtaken /\ object[k] = "deleted" => place[k] \in {"none", "exit"}

Inv == ControlOK /\ HandlesInTime /\ MakesOne /\ EndsInStage

-----------------------------------------------------------------------------
LEMMA KindIsResponse == Kind \in Responses
  BY DEF Kind, KindOf, Responses

LEMMA InitInv == Init => Inv
<1>. SUFFICES ASSUME Init PROVE Inv
  OBVIOUS
<1>1. /\ stage = "down" /\ rpc = "off" /\ ~ running /\ ~ overtaken
      /\ object = [k \in Kinds |-> "none"] /\ place = [k \in Kinds |-> "none"]
  BY DEF Init
<1>2. ControlOK
  BY <1>1 DEF Init, ControlOK, Stages, ReceivePlaces, Lives, Places
<1>3. HandlesInTime
  BY <1>1 DEF HandlesInTime, Up, Acting
<1>4. MakesOne /\ EndsInStage
  BY <1>1 DEF MakesOne, EndsInStage, BeforeEnd, Before
<1>. QED
  BY <1>2, <1>3, <1>4 DEF Inv

\* The steps of a periodic thread.
LEMMA PeriodicInv ==
  ASSUME Inv, NEW k \in Kinds, Periodic(k)
  PROVE  Inv'
<1>1. /\ UNCHANGED <<stage, running, overtaken, rpc, msg, object>>
      /\ place[k] \notin {"none", "exit"}
      /\ place' \in [Kinds -> Places]
      /\ \A j \in Kinds : j # k => place'[j] = place[j]
  BY DEF Inv, ControlOK, Periodic, LoadRuntime, Activate, RunTask, Renew,
     receiveVars, Places
<1>. QED
  BY <1>1 DEF Inv, ControlOK, HandlesInTime, MakesOne, EndsInStage, Acting, Kind

\* The steps of the receive thread.
LEMMA ReceiverInv ==
  ASSUME Inv, Receive \/ Receiver
  PROVE  Inv'
<1>0. /\ UNCHANGED <<stage, running, overtaken>>
      /\ Kind \in Responses /\ Responses \subseteq Kinds
  BY KindIsResponse DEF Receive, Receiver, Loop, ReceiveNothing, Check, Handle,
     Create, Launch, Update, Kinds
<1>1. CASE Receive \/ Loop \/ ReceiveNothing \/ Check
  <2>1. /\ UNCHANGED <<object, place>>
        /\ rpc \in {"wait", "loop", "check"}
        /\ rpc' \in ReceivePlaces \ {"create", "launch", "update"}
        /\ rpc' = "handle" => running
    BY <1>1 DEF Receive, Loop, ReceiveNothing, Check, threadVars, ReceivePlaces
  <2>. QED
    BY <1>0, <2>1 DEF Inv, ControlOK, HandlesInTime, MakesOne, EndsInStage, Acting
<1>2. CASE Handle
  <2>1. /\ UNCHANGED <<object, place, msg>>
        /\ rpc = "handle"
        /\ rpc' \in {"create", "update", "loop"}
        /\ rpc' = "create" => object[Kind] = "none"
    BY <1>2 DEF Handle, threadVars, Kind
  <2>. QED
    BY <1>0, <2>1 DEF Inv, ControlOK, HandlesInTime, MakesOne, EndsInStage, Acting,
       Kind, ReceivePlaces
<1>3. CASE Create
  <2>1. /\ UNCHANGED <<place, msg>>
        /\ rpc = "create" /\ rpc' = "launch"
        /\ object' = [object EXCEPT ![Kind] = "made"]
    BY <1>3 DEF Create, threadVars
  <2>2. Kind' = Kind
    BY <2>1 DEF Kind
  <2>. QED
    BY <1>0, <2>1, <2>2 DEF Inv, ControlOK, HandlesInTime, MakesOne, EndsInStage,
       Acting, ReceivePlaces, Lives, BeforeEnd, Before, Up, Responses
<1>4. CASE Launch
  <2>1. /\ UNCHANGED msg
        /\ rpc = "launch" /\ rpc' = "loop"
        /\ object' = [object EXCEPT ![Kind] = "started"]
        /\ place' = [place EXCEPT ![Kind] = "new"]
    BY <1>4 DEF Launch
  <2>. QED
    BY <1>0, <2>1 DEF Inv, ControlOK, HandlesInTime, MakesOne, EndsInStage,
       Acting, ReceivePlaces, Lives, Places, BeforeEnd, Before, Up, Responses
<1>5. CASE Update
  BY <1>0, <1>5 DEF Update, threadVars, Inv, ControlOK, HandlesInTime, MakesOne,
     EndsInStage, Acting, Kind, ReceivePlaces
<1>. QED
  BY <1>1, <1>2, <1>3, <1>4, <1>5 DEF Receiver

\* The order in which the stages follow on each other.
LEMMA NextStageIs ==
  ASSUME NEW s \in Kinds \cup {"clear", "communicator", "receiver"}
  PROVE  /\ NextStage(s) \in Stages \ {"up", "task", "down"}
         /\ NextStage(s) = "clear" <=> s = "task"
         /\ NextStage(s) # s
         /\ \A k \in Kinds : NextStage(s) \in BeforeEnd(k) => s \in BeforeEnd(k) \ {k}
         /\ \A k \in Kinds : NextStage(s) \notin BeforeEnd(k) =>
                               s = k \/ s \notin BeforeEnd(k)
<1>1. /\ NextStage("task") = "clear"
      /\ NextStage("clear") = "interest"
      /\ NextStage("interest") = "internal"
      /\ NextStage("internal") = "external"
      /\ NextStage("external") = "communicator"
      /\ NextStage("communicator") = "receiver"
      /\ NextStage("receiver") = "gone"
  BY DEF NextStage
<1>2. /\ BeforeEnd("task") = {"down", "up", "task"}
      /\ BeforeEnd("interest") = {"down", "up", "task", "clear", "interest"}
      /\ BeforeEnd("internal") =
           {"down", "up", "task", "clear", "interest", "internal"}
      /\ BeforeEnd("external") =
           {"down", "up", "task", "clear", "interest", "internal", "external"}
  BY DEF BeforeEnd, Before, Up
<1>3. Kinds = {"task", "interest", "internal", "external"}
  BY DEF Kinds, Responses
<1>. HIDE DEF NextStage, BeforeEnd
<1>4. s \in {"task", "clear", "interest", "internal", "external", "communicator",
             "receiver"}
  BY <1>3
<1>5. /\ NextStage(s) \in Stages \ {"up", "task", "down"}
      /\ NextStage(s) = "clear" <=> s = "task"
      /\ NextStage(s) # s
  BY <1>1, <1>4 DEF Stages
<1>6. ASSUME NEW k \in Kinds
      PROVE  /\ NextStage(s) \in BeforeEnd(k) => s \in BeforeEnd(k) \ {k}
             /\ NextStage(s) \notin BeforeEnd(k) => s = k \/ s \notin BeforeEnd(k)
  <2>1. CASE k = "task"
    BY <1>1, <1>2, <1>4, <2>1
  <2>2. CASE k = "interest"
    BY <1>1, <1>2, <1>4, <2>2
  <2>3. CASE k = "internal"
    BY <1>1, <1>2, <1>4, <2>3
  <2>4. CASE k = "external"
    BY <1>1, <1>2, <1>4, <2>4
  <2>. QED
    BY <1>3, <2>1, <2>2, <2>3, <2>4
<1>. QED
  BY <1>5, <1>6

\* The steps of the main thread that delete or join a periodic thread, ...
LEMMA DeleteInv ==
  ASSUME Inv, NEW k \in Kinds, Delete(k) \/ Join(k)
  PROVE  Inv'
<1>0. /\ UNCHANGED <<running, overtaken, rpc, msg, place>>
      /\ stage = k
  BY DEF Delete, Join, receiveVars, threadVars
<1>1. CASE stage' = stage
  <2>1. /\ object[k] = "started"
        /\ object' = [object EXCEPT ![k] = "told"]
    BY <1>0, <1>1, NextStageIs DEF Delete, Join
  <2>2. ControlOK' /\ HandlesInTime'
    BY <1>0, <1>1, <2>1 DEF Inv, ControlOK, HandlesInTime, Acting, Lives
  <2>3. MakesOne'
    BY <1>0, <2>1 DEF Inv, ControlOK, MakesOne, Kind
  <2>4. EndsInStage'
    BY <1>0, <1>1, <2>1 DEF Inv, ControlOK, EndsInStage
  <2>. QED
    BY <2>2, <2>3, <2>4 DEF Inv
<1>2. CASE stage' = NextStage(k)
  <2>1. /\ object' \in [Kinds -> Lives]
        /\ object'[k] \in {"none", "deleted"}
        /\ object'[k] = "none" <=> object[k] = "none"
        /\ \A j \in Kinds : j # k => object'[j] = object[j]
        /\ object'[k] = "deleted" => place[k] \in {"none", "exit"}
    BY <1>0, <1>2, NextStageIs DEF Delete, Join, Inv, ControlOK, MakesOne, Lives
  <2>2. ControlOK' /\ HandlesInTime'
    BY <1>0, <1>2, <2>1, NextStageIs DEF Inv, ControlOK, HandlesInTime, Acting, Up,
       Kinds, Responses
  <2>3. MakesOne'
    BY <1>0, <2>1, KindIsResponse DEF Inv, MakesOne, Kind, Kinds
  <2>4. EndsInStage'
    BY <1>0, <1>2, <2>1, NextStageIs DEF Inv, EndsInStage
  <2>. QED
    BY <2>2, <2>3, <2>4 DEF Inv
<1>. QED
  BY <1>1, <1>2 DEF Delete, Join

\* ... and the others.
LEMMA MainInv ==
  ASSUME Inv, Start \/ Stop \/ ClearRunning \/ StopCommunicator \/ JoinReceiver
  PROVE  Inv'
<1>1. CASE Start
  BY <1>1 DEF Start, Inv, ControlOK, HandlesInTime, MakesOne, EndsInStage, Acting,
     FromStart, Up, BeforeEnd, Before, Stages, ReceivePlaces, Kinds, Responses,
     Lives, Places
<1>2. CASE Stop
  BY <1>2 DEF Stop, Inv, ControlOK, HandlesInTime, MakesOne, EndsInStage, Acting,
     receiveVars, threadVars, Kind, Up, BeforeEnd, Before, Stages, Kinds, Responses
<1>3. CASE ClearRunning
  <2>1. /\ UNCHANGED <<rpc, msg, object, place>>
        /\ stage = "clear" /\ stage' = NextStage("clear")
        /\ running' = FALSE /\ overtaken' = Acting /\ ~ overtaken
    BY <1>3 DEF ClearRunning, receiveVars, threadVars, Inv, HandlesInTime, Up
  <2>2. "clear" \notin Kinds
    BY DEF Kinds, Responses
  <2>3. ControlOK' /\ MakesOne'
    BY <2>1, NextStageIs DEF Inv, ControlOK, MakesOne, Kind
  <2>4. HandlesInTime'
    <3>1. stage' \notin Up \cup {"down"}
      BY <2>1, NextStageIs DEF Up
    <3>2. Acting' <=> Acting
      BY <2>1 DEF Acting
    <3>. QED
      BY <2>1, <3>1, <3>2 DEF HandlesInTime
  <2>5. EndsInStage'
    BY <2>1, <2>2, NextStageIs DEF Inv, EndsInStage
  <2>. QED
    BY <2>3, <2>4, <2>5 DEF Inv
<1>4. CASE StopCommunicator \/ JoinReceiver
  <2>1. /\ UNCHANGED <<running, overtaken, rpc, msg, object, place>>
        /\ stage \in {"communicator", "receiver"} /\ stage' = NextStage(stage)
    BY <1>4 DEF StopCommunicator, JoinReceiver, receiveVars, threadVars
  <2>2. stage \notin Kinds /\ stage \notin Up
    BY <2>1 DEF Kinds, Responses, Up
  <2>3. ControlOK' /\ HandlesInTime' /\ MakesOne'
    BY <2>1, <2>2, NextStageIs DEF Inv, ControlOK, HandlesInTime, MakesOne, Acting,
       Kind, Up
  <2>4. EndsInStage'
    BY <2>1, <2>2, NextStageIs DEF Inv, EndsInStage
  <2>. QED
    BY <2>3, <2>4 DEF Inv
<1>. QED
  BY <1>1, <1>2, <1>3, <1>4

LEMMA NextInv == Inv /\ [Next]_vars => Inv'
<1>. SUFFICES ASSUME Inv, [Next]_vars PROVE Inv'
  OBVIOUS
<1>1. CASE UNCHANGED vars
  BY <1>1 DEF vars, receiveVars, threadVars, Inv, ControlOK, HandlesInTime, MakesOne,
     EndsInStage, Acting, Kind
<1>. QED
  BY <1>1, PeriodicInv, ReceiverInv, DeleteInv, MainInv DEF Next, Main

-----------------------------------------------------------------------------
(***************************************************************************)
(* A component that is stopped leaves no thread behind and uses none that  *)
(* is deleted, unless stop began while an interest was handled.            *)
(***************************************************************************)
THEOREM LeavesNothingBehind == Spec => []NothingLeftBehind
<1>1. Inv => NothingLeftBehind
  BY KindIsResponse DEF Inv, ControlOK, HandlesInTime, MakesOne, EndsInStage,
     NothingLeftBehind, Acting, BeforeEnd, Before, Up, Kinds, Responses
<1>. QED
  BY <1>1, InitInv, NextInv, PTL DEF Spec

-----------------------------------------------------------------------------
(***************************************************************************)
(* Divisors.  Gcd is a recursive function and calculate_gcd_period a fold: *)
(* each is shown to satisfy its own equation, and then, by the least       *)
(* counterexample, to give what the greatest common divisor is.            *)
(***************************************************************************)
LEMMA Least ==
  ASSUME NEW T \in SUBSET Nat, T # {}
  PROVE  \E m \in T : \A n \in T : m <= n
<1>1. PICK m \in T : \A n \in T : <<n, m>> \notin OpToRel(<, Nat)
  BY WFMin, NatLessThanWellFounded, Zenon
<1>2. \A n \in T : ~ (n < m)
  BY <1>1, Zenon DEF OpToRel
<1>. QED
  BY <1>2

\* d divides n; unlike in Divides, d may be 0.
Dvd(d, n) == \E q \in Nat : n = d * q

LEMMA DvdFacts ==
  ASSUME NEW d \in Nat
  PROVE  /\ Dvd(d, d) /\ Dvd(d, 0)
         /\ Dvd(0, d) => d = 0
<1>1. d = d * 1 /\ 0 = d * 0
  OBVIOUS
<1>. QED
  BY <1>1 DEF Dvd

LEMMA DvdLeq ==
  ASSUME NEW d \in Nat, NEW n \in Nat, n # 0, Dvd(d, n)
  PROVE  d \in 1 .. n
<1>1. PICK q \in Nat : n = d * q
  BY DEF Dvd
<1>2. q # 0 /\ d # 0
  BY <1>1
<1>3. d * q = d + d * (q - 1)
  BY <1>2
<1>4. d * (q - 1) >= 0
  BY <1>2
<1>. QED
  BY <1>1, <1>2, <1>3, <1>4

LEMMA DvdAntisymmetric ==
  ASSUME NEW a \in Nat, NEW b \in Nat, Dvd(a, b), Dvd(b, a)
  PROVE  a = b
<1>1. CASE a = 0 \/ b = 0
  BY <1>1, DvdFacts
<1>2. CASE a # 0 /\ b # 0
  BY <1>2, DvdLeq
<1>. QED
  BY <1>1, <1>2

LEMMA DvdTransitive ==
  ASSUME NEW a \in Nat, NEW b \in Nat, NEW c \in Nat, Dvd(a, b), Dvd(b, c)
  PROVE  Dvd(a, c)
<1>1. PICK p \in Nat : b = a * p
  BY DEF Dvd
<1>2. PICK q \in Nat : c = b * q
  BY DEF Dvd
<1>3. c = a * (p * q) /\ p * q \in Nat
  BY <1>1, <1>2
<1>. QED
  BY <1>3 DEF Dvd

LEMMA Division ==
  ASSUME NEW a \in Nat, NEW b \in Nat, b > 0
  PROVE  \E k \in Nat : \E r \in 0 .. b - 1 : a = b * k + r /\ a % b = r
<1>1. a = b * (a \div b) + (a % b)
  OBVIOUS
<1>2. a \div b \in Nat /\ a % b \in 0 .. b - 1
  OBVIOUS
<1> DEFINE k == a \div b
           r == a % b
<1> HIDE DEF k, r
<1>3. a = b * k + r /\ k \in Nat /\ r \in 0 .. b - 1 /\ a % b = r
  <2>1. a = b * k + r
    BY <1>1 DEF k, r
  <2>2. k \in Nat /\ r \in 0 .. b - 1
    BY <1>2 DEF k, r
  <2>3. a % b = r
    BY DEF r
  <2>. QED
    BY <2>1, <2>2, <2>3
<1>. QED
  BY <1>3

\* The test of the program and the definition agree.
LEMMA DividesIsDvd ==
  ASSUME NEW d \in Nat \ {0}, NEW n \in Nat
  PROVE  Divides(d, n) <=> Dvd(d, n)
<1>0. d \in Nat /\ d > 0
  OBVIOUS
<1>1. PICK k \in Nat, r \in 0 .. d - 1 : n = d * k + r /\ n % d = r
  BY <1>0, Division, Zenon
<1>2. ASSUME Divides(d, n) PROVE Dvd(d, n)
  BY <1>1, <1>2 DEF Divides, Dvd
<1>3. ASSUME Dvd(d, n) PROVE Divides(d, n)
  <2>1. PICK q \in Nat : n = d * q
    BY <1>3 DEF Dvd
  <2>2. d * (q - k) = r
    BY <1>1, <2>1
  <2>3. CASE q - k >= 1
    <3>1. d * (q - k) >= d
      BY <1>1, <2>3
    <3>. QED
      BY <1>1, <2>2, <3>1
  <2>4. CASE q - k <= -1
    <3>1. d * (q - k) < 0
      BY <1>1, <2>4
    <3>. QED
      BY <1>1, <2>2, <3>1
  <2>5. CASE q - k = 0
    BY <2>2, <1>1, <2>5 DEF Divides
  <2>. QED
    BY <1>1, <2>3, <2>4, <2>5
<1>. QED
  BY <1>2, <1>3

\* The step of Euclid's algorithm changes no common divisor.
LEMMA DvdModulo ==
  ASSUME NEW a \in Nat, NEW b \in Nat \ {0}, NEW e \in Nat, Dvd(e, b)
  PROVE  Dvd(e, a) <=> Dvd(e, a % b)
<1>0. b \in Nat /\ b > 0
  OBVIOUS
<1>1. PICK k \in Nat, r \in 0 .. b - 1 : a = b * k + r /\ a % b = r
  BY <1>0, Division, Zenon
<1>2. PICK q \in Nat : b = e * q
  BY DEF Dvd
<1>3. ASSUME Dvd(e, r) PROVE Dvd(e, a)
  <2>1. PICK s \in Nat : r = e * s
    BY <1>3 DEF Dvd
  <2>2. b * k = e * (q * k) /\ q * k \in Nat
    BY <1>1, <1>2
  <2>3. a = e * (q * k + s) /\ q * k + s \in Nat
    BY <1>1, <2>1, <2>2
  <2>. QED
    BY <2>3 DEF Dvd
<1>4. ASSUME Dvd(e, a) PROVE Dvd(e, r)
  <2>1. PICK p \in Nat : a = e * p
    BY <1>4 DEF Dvd
  <2>2. b * k = e * (q * k) /\ q * k \in Nat
    BY <1>1, <1>2
  <2>3. r = e * (p - q * k)
    BY <1>1, <2>1, <2>2
  <2>4. p - q * k >= 0
    <3>1. SUFFICES ASSUME p - q * k <= -1 PROVE FALSE
      BY <2>2
    <3>2. e # 0
      BY <1>2
    <3>3. e * (p - q * k) < 0
      BY <2>2, <3>1, <3>2
    <3>. QED
      BY <1>1, <2>3, <3>3
  <2>5. p - q * k \in Nat
    BY <2>2, <2>4
  <2>. QED
    BY <2>3, <2>5 DEF Dvd
<1>. QED
  BY <1>1, <1>3, <1>4

\* The greatest common divisor of a set of numbers: the divisor that every
\* other divides.  The set has this one element.
Greatest(S) ==
  {d \in Nat : /\ \A x \in S : Dvd(d, x)
               /\ \A e \in Nat : (\A x \in S : Dvd(e, x)) => Dvd(e, d)}

LEMMA GreatestIsOne ==
  ASSUME NEW S, NEW c \in Greatest(S), NEW d \in Greatest(S)
  PROVE  c = d
BY DvdAntisymmetric DEF Greatest

LEMMA GcdEquation ==
  \A a, b \in Nat :
    Gcd[<<a, b>>] = IF b = 0 THEN a ELSE Gcd[<<b, a % b>>]
<1> DEFINE g == [p \in Nat \X Nat |-> CHOOSE d \in Greatest({p[1], p[2]}) : TRUE]
<1>1. ASSUME NEW p \in Nat \X Nat, p[2] = 0
      PROVE  g[p] = p[1]
  <2>1. p[1] \in Greatest({p[1], p[2]})
    BY <1>1, DvdFacts DEF Greatest
  <2>2. g[p] \in Greatest({p[1], p[2]})
    BY <2>1
  <2>. QED
    BY <2>1, <2>2, GreatestIsOne
<1>2. ASSUME NEW p \in Nat \X Nat, p[2] # 0
      PROVE  g[p] = g[<<p[2], p[1] % p[2]>>]
  <2>1. /\ p[1] \in Nat /\ p[2] \in Nat \ {0} /\ p[1] % p[2] \in Nat
    BY <1>2, Division
  <2>2. \A e \in Nat : /\ Dvd(e, p[1]) /\ Dvd(e, p[2])
                          <=> Dvd(e, p[2]) /\ Dvd(e, p[1] % p[2])
    BY <2>1, DvdModulo
  <2>3. Greatest({p[1], p[2]}) = Greatest({p[2], p[1] % p[2]})
    BY <2>2 DEF Greatest
  <2>4. g[<<p[2], p[1] % p[2]>>] = CHOOSE d \in Greatest({p[2], p[1] % p[2]}) : TRUE
    BY <2>1
  <2>. QED
    BY <2>3, <2>4
<1>3. g = [p \in Nat \X Nat |->
             IF p[2] = 0 THEN p[1] ELSE g[<<p[2], p[1] % p[2]>>]]
  <2>1. g = [p \in Nat \X Nat |-> g[p]]
    OBVIOUS
  <2> HIDE DEF g
  <2>. QED
    BY <1>1, <1>2, <2>1
<1>4. \E f : f = [p \in Nat \X Nat |->
                    IF p[2] = 0 THEN p[1] ELSE f[<<p[2], p[1] % p[2]>>]]
  BY <1>3, Zenon
<1>5. Gcd = [p \in Nat \X Nat |->
               IF p[2] = 0 THEN p[1] ELSE Gcd[<<p[2], p[1] % p[2]>>]]
  BY <1>4, Zenon DEF Gcd
<1> HIDE DEF Gcd
<1>. QED
  BY <1>5

LEMMA GcdIsGreatest ==
  ASSUME NEW a \in Nat, NEW b \in Nat
  PROVE  Gcd[<<a, b>>] \in Greatest({a, b})
<1> DEFINE T == {n \in Nat : \E m \in Nat : Gcd[<<m, n>>] \notin Greatest({m, n})}
<1>1. SUFFICES ASSUME T # {} PROVE FALSE
  BY Zenon
<1>2. PICK n \in T : \A i \in T : n <= i
  <2>1. T \in SUBSET Nat
    OBVIOUS
  <2> HIDE DEF T
  <2>. QED
    BY <1>1, <2>1, Least
<1>3. PICK m \in Nat : Gcd[<<m, n>>] \notin Greatest({m, n})
  BY <1>2
<1>4. CASE n = 0
  <2>1. Gcd[<<m, n>>] = m
    BY <1>4, GcdEquation
  <2>. QED
    BY <1>3, <1>4, <2>1, DvdFacts DEF Greatest
<1>5. CASE n # 0
  <2>1. n \in Nat \ {0} /\ m % n \in 0 .. n - 1
    BY <1>5, Division
  <2>2. Gcd[<<m, n>>] = Gcd[<<n, m % n>>]
    BY <2>1, GcdEquation
  <2>3. m % n \notin T
    <3> HIDE DEF T
    <3>. QED
      BY <1>2, <2>1
  <2>4. Gcd[<<n, m % n>>] \in Greatest({n, m % n})
    <3>1. m % n \in Nat
      BY <2>1
    <3>. QED
      BY <2>3, <3>1, Zenon
  <2>5. \A e \in Nat : /\ Dvd(e, m) /\ Dvd(e, n)
                          <=> Dvd(e, n) /\ Dvd(e, m % n)
    BY <2>1, DvdModulo
  <2>6. Greatest({m, n}) = Greatest({n, m % n})
    BY <2>5 DEF Greatest
  <2>. QED
    BY <1>3, <2>2, <2>4, <2>6
<1>. QED
  BY <1>4, <1>5

\* What holds of two numbers holds of a set and one number more.
LEMMA GreatestWith ==
  ASSUME NEW S \in SUBSET Nat, NEW x \in S, NEW d \in Greatest(S \ {x})
  PROVE  Gcd[<<x, d>>] \in Greatest(S)
<1> DEFINE g == Gcd[<<x, d>>]
<1>1. d \in Nat /\ x \in Nat
  BY DEF Greatest
<1>2. g \in Greatest({x, d})
  BY <1>1, GcdIsGreatest
<1> HIDE DEF g
<1>3. g \in Nat /\ Dvd(g, x) /\ Dvd(g, d)
  BY <1>2 DEF Greatest
<1>4. ASSUME NEW y \in S PROVE Dvd(g, y)
  <2>1. CASE y = x
    BY <1>3, <2>1
  <2>2. CASE y # x
    <3>1. Dvd(d, y) /\ y \in Nat
      BY <2>2 DEF Greatest
    <3>. QED
      BY <1>1, <1>3, <3>1, DvdTransitive
  <2>. QED
    BY <2>1, <2>2
<1>5. ASSUME NEW e \in Nat, \A y \in S : Dvd(e, y) PROVE Dvd(e, g)
  <2>1. Dvd(e, x) /\ Dvd(e, d)
    BY <1>5 DEF Greatest
  <2>. QED
    BY <1>2, <2>1 DEF Greatest
<1>. QED
  BY <1>3, <1>4, <1>5 DEF Greatest, g

LEMMA GreatestExists ==
  ASSUME NEW S \in SUBSET Nat, IsFiniteSet(S)
  PROVE  Greatest(S) # {}
<1> DEFINE T == {n \in Nat : \E s \in SUBSET S : Cardinality(s) = n /\ Greatest(s) = {}}
<1>0. \A s \in SUBSET S : IsFiniteSet(s) /\ Cardinality(s) \in Nat
  BY FS_Subset, FS_CardinalityType
<1>1. SUFFICES ASSUME T # {} PROVE FALSE
  <2>1. \A s \in SUBSET S : Cardinality(s) \in T \/ Greatest(s) # {}
    BY <1>0
  <2>. QED
    BY <2>1
<1>2. PICK n \in T : \A i \in T : n <= i
  <2>1. T \in SUBSET Nat
    OBVIOUS
  <2> HIDE DEF T
  <2>. QED
    BY <1>1, <2>1, Least
<1>3. PICK s \in SUBSET S : Cardinality(s) = n /\ Greatest(s) = {}
  BY <1>2
<1>4. s # {}
  <2>1. 0 \in Greatest({})
    BY DvdFacts DEF Greatest
  <2>. QED
    BY <1>3, <2>1
<1>5. PICK x \in s : TRUE
  BY <1>4
<1>6. Cardinality(s \ {x}) = n - 1 /\ Cardinality(s \ {x}) \in Nat
  BY <1>0, <1>3, FS_RemoveElement
<1>7. Greatest(s \ {x}) # {}
  <2>1. n \in Nat /\ n - 1 \notin T
    <3>1. n \in Nat
      OBVIOUS
    <3> HIDE DEF T
    <3>. QED
      BY <1>2, <3>1
  <2>. QED
    BY <1>6, <2>1
<1>8. Greatest(s) # {}
  BY <1>7, GreatestWith
<1>. QED
  BY <1>3, <1>8

\* The fold of calculate_gcd_period.
FoldOf(S) == FoldSet(LAMBDA p, q : Gcd[<<p, q>>], 0, S)

LEMMA FoldIsGreatest ==
  ASSUME NEW S \in SUBSET Nat, IsFiniteSet(S)
  PROVE  FoldOf(S) \in Greatest(S)
<1> DEFINE first(s) == CHOOSE x \in s : TRUE
           h == [s \in SUBSET S |-> CHOOSE d \in Greatest(s) : TRUE]
<1>0. \A s \in SUBSET S : Greatest(s) # {}
  BY FS_Subset, GreatestExists
<1>1. \A s \in SUBSET S : h[s] \in Greatest(s)
  BY <1>0
<1>2. \A s \in SUBSET S : \A d \in Greatest(s) : h[s] = d
  BY <1>1, GreatestIsOne, Zenon
<1>3. h = [s \in SUBSET S |-> h[s]]
  OBVIOUS
<1> HIDE DEF h
<1>4. h[{}] = 0
  <2>1. 0 \in Greatest({})
    BY DvdFacts DEF Greatest
  <2>. QED
    BY <1>2, <2>1
<1>5. ASSUME NEW s \in SUBSET S, s # {}
      PROVE  h[s] = Gcd[<<first(s), h[s \ {first(s)}]>>]
  <2>1. first(s) \in s /\ s \in SUBSET Nat /\ s \ {first(s)} \in SUBSET S
    BY <1>5
  <2>2. h[s \ {first(s)}] \in Greatest(s \ {first(s)})
    BY <1>1, <2>1
  <2>3. Gcd[<<first(s), h[s \ {first(s)}]>>] \in Greatest(s)
    BY <2>1, <2>2, GreatestWith
  <2>. QED
    BY <1>2, <2>3
<1>6. h = [s \in SUBSET S |-> IF s = {} THEN 0 ELSE Gcd[<<first(s), h[s \ {first(s)}]>>]]
  <2> HIDE DEF first
  <2>. QED
    BY <1>3, <1>4, <1>5
<1> DEFINE Step(f) == [s \in SUBSET S |->
                         IF s = {} THEN 0
                         ELSE Gcd[<<CHOOSE x \in s : TRUE,
                                    f[s \ {CHOOSE x \in s : TRUE}]>>]]
           iter == CHOOSE f : f = Step(f)
<1>7. \E f : f = Step(f)
  BY <1>6, Zenon
<1>8. iter = Step(iter)
  BY <1>7, Zenon
<1>9. FoldOf(S) = iter[S]
  BY DEF FoldOf, FoldSet, MapThenFoldSet
<1> DEFINE T == {n \in Nat : \E s \in SUBSET S : Cardinality(s) = n /\ iter[s] # h[s]}
<1>10. iter[S] = h[S]
  <2>0. \A s \in SUBSET S : IsFiniteSet(s) /\ Cardinality(s) \in Nat
    BY FS_Subset, FS_CardinalityType
  <2>1. \A s \in SUBSET S :
          iter[s] = IF s = {} THEN 0 ELSE Gcd[<<first(s), iter[s \ {first(s)}]>>]
    <3> HIDE DEF iter
    <3>. QED
      BY <1>8
  <2> HIDE DEF iter, Step
  <2>2. SUFFICES ASSUME T # {} PROVE FALSE
    <3>1. S \in SUBSET S /\ Cardinality(S) \in Nat
      BY <2>0
    <3>. QED
      BY <3>1
  <2>3. PICK n \in T : \A i \in T : n <= i
    <3>1. T \in SUBSET Nat
      OBVIOUS
    <3> HIDE DEF T
    <3>. QED
      BY <2>2, <3>1, Least
  <2>4. PICK s \in SUBSET S : Cardinality(s) = n /\ iter[s] # h[s]
    BY <2>3
  <2>5. s # {}
    BY <1>4, <2>1, <2>4
  <2>6. first(s) \in s
    BY <2>5
  <2> HIDE DEF first
  <2>7. /\ s \ {first(s)} \in SUBSET S
        /\ Cardinality(s \ {first(s)}) = n - 1
        /\ Cardinality(s \ {first(s)}) \in Nat
    BY <2>0, <2>4, <2>6, FS_RemoveElement
  <2>8. n - 1 \notin T
    <3>1. n \in Nat
      OBVIOUS
    <3> HIDE DEF T
    <3>. QED
      BY <2>3, <3>1
  <2>9. iter[s \ {first(s)}] = h[s \ {first(s)}]
    BY <2>7, <2>8
  <2>. QED
    BY <1>5, <2>1, <2>4, <2>5, <2>9
<1>. QED
  BY <1>1, <1>9, <1>10

-----------------------------------------------------------------------------
(***************************************************************************)
(* What the records hold, and that a response period is the greatest       *)
(* common divisor of them.                                                 *)
(***************************************************************************)
Interests == [from : Requesters, period : Periods]

RecordsOK ==
  /\ msg \in Interests \cup {NoInterest}
  /\ Acting => msg \in Interests
  /\ rpc \in {"create", "launch", "update"} => table[AgentOf[msg.from]] # 0
  /\ rpc = "launch" => object[Kind] # "none"
  /\ \A r \in Requesters : asked[r] # 0 => table[AgentOf[r]] = asked[r]
  /\ \A a \in Agents :
       table[a] # 0 => \E r \in Requesters : AgentOf[r] = a /\ asked[r] = table[a]
  /\ \A k \in Responses : period[k] \in Greatest(Recorded(table, k))

IInv == TypeOK /\ RecordsOK

LEMMA RecordedIs ==
  ASSUME NEW records \in [Agents -> Periods \cup {0}], NEW k
  PROVE  /\ Recorded(records, k) \in SUBSET (Nat \ {0})
         /\ GcdPeriod(records, k) \in Greatest(Recorded(records, k))
<1> DEFINE S == Recorded(records, k)
           A == {b \in Agents : KindOf(b) = k /\ records[b] # 0}
<1>1. S \in SUBSET (Nat \ {0})
  BY SmartDataAssumption DEF Recorded
<1>2. IsFiniteSet(Agents)
  <2>1. [r \in Requesters |-> AgentOf[r]] \in Surjection(Requesters, Agents)
    BY DEF Surjection, Agents
  <2>. QED
    BY <2>1, FS_Surjection, SmartDataAssumption
<1>3. IsFiniteSet(A)
  BY <1>2, FS_Subset
<1>4. IsFiniteSet(S)
  <2>1. [a \in A |-> records[a]] \in Surjection(A, S)
    BY DEF Surjection, Recorded
  <2>. QED
    BY <1>3, <2>1, FS_Surjection
<1>5. FoldOf(S) \in Greatest(S)
  <2>1. S \in SUBSET Nat
    BY <1>1
  <2> HIDE DEF S
  <2>. QED
    BY <1>4, <2>1, FoldIsGreatest
<1>. QED
  BY <1>1, <1>5 DEF GcdPeriod, FoldOf

\* The divisor of records that there are is no 0.
LEMMA PeriodIsPositive ==
  ASSUME IInv, rpc \in {"create", "launch", "update"}
  PROVE  Kind \in Responses /\ period[Kind] \in Nat \ {0}
<1> DEFINE a == AgentOf[msg.from]
<1>1. Kind \in Responses
  BY KindIsResponse
<1>2. a \in Agents /\ table[a] # 0 /\ KindOf(a) = Kind
  BY DEF IInv, RecordsOK, Acting, Interests, Agents, Kind
<1>3. table[a] \in Recorded(table, Kind)
  BY <1>2 DEF Recorded
<1>4. table[a] \in Nat \ {0}
  BY <1>2, SmartDataAssumption DEF IInv, TypeOK
<1>5. period[Kind] \in Nat /\ Dvd(period[Kind], table[a])
  BY <1>1, <1>3 DEF IInv, RecordsOK, Greatest
<1>. QED
  BY <1>1, <1>4, <1>5, DvdFacts

\* The constructor leaves a runtime that fits.
LEMMA ConstructedIs ==
  ASSUME NEW us \in Nat, NEW runtime \in Nat \ {0}
  PROVE  /\ Constructed(us, runtime) \in Times
         /\ Constructed(us, runtime).runtime \in 1 .. Constructed(us, runtime).period
BY SmartDataAssumption DEF Constructed, Times, NS

LEMMA InitIInv == Init => IInv
<1>. SUFFICES ASSUME Init PROVE IInv
  OBVIOUS
<1>1. TypeOK
  <2>1. /\ stage \in Stages /\ rpc \in ReceivePlaces
        /\ running \in BOOLEAN /\ stopped \in BOOLEAN /\ overtaken \in BOOLEAN
        /\ msg \in [from : Requesters \cup {None}, period : Periods \cup {0}]
    BY DEF Init, Stages, ReceivePlaces, NoInterest
  <2>2. /\ received \in 0 .. MaxInterests
        /\ table \in [Agents -> Periods \cup {0}]
        /\ asked \in [Requesters -> Periods \cup {0}]
        /\ period \in [Responses -> Nat] /\ granted \in [Kinds -> Nat]
        /\ refused \in [Kinds -> Nat]
    BY SmartDataAssumption DEF Init
  <2>3. object \in [Kinds -> Lives] /\ place \in [Kinds -> Places]
    BY DEF Init, Lives, Places
  <2>4. NoTimes \in Times
    BY DEF NoTimes, Times
  <2>5. times \in [Kinds -> Times] /\ attr \in [Kinds -> Times]
    BY <2>4 DEF Init
  <2>6. \A k \in Kinds : object[k] = "none"
    BY DEF Init
  <2>. QED
    BY <2>1, <2>2, <2>3, <2>5, <2>6 DEF TypeOK
<1>2. ASSUME NEW k \in Responses PROVE period[k] \in Greatest(Recorded(table, k))
  <2>1. Recorded(table, k) = {} /\ period[k] = 0
    BY DEF Init, Recorded
  <2>2. 0 \in Greatest({})
    BY DvdFacts DEF Greatest
  <2>. QED
    BY <2>1, <2>2
<1>3. RecordsOK
  BY <1>2 DEF Init, RecordsOK, Acting
<1>. QED
  BY <1>1, <1>3 DEF IInv

LEMMA PeriodicIInv ==
  ASSUME IInv, NEW k \in Kinds, Periodic(k)
  PROVE  IInv'
<1>1. UNCHANGED <<stage, running, stopped, overtaken, receiveVars, object, times>>
  BY DEF Periodic, LoadRuntime, Activate, RunTask, Renew
<1>2. RecordsOK'
  BY <1>1 DEF receiveVars, IInv, RecordsOK, Acting, Kind
<1>3. times[k] \in Times
  BY DEF IInv, TypeOK
<1>4. /\ place' \in [Kinds -> Places]
      /\ granted' \in [Kinds -> Nat] /\ refused' \in [Kinds -> Nat]
  <2>1. place' \in [Kinds -> Places]
    BY DEF Periodic, LoadRuntime, Activate, RunTask, Renew, IInv, TypeOK, Places
  <2>2. times[k].period \in Nat
    BY <1>3 DEF Times
  <2>3. \/ UNCHANGED <<granted, refused>>
        \/ Grant(k, times[k].period) \/ Refuse(k, times[k].period)
    BY DEF Periodic, LoadRuntime, Activate, RunTask, Renew
  <2>. QED
    BY <2>1, <2>2, <2>3 DEF Grant, Refuse, IInv, TypeOK
<1>6. attr' \in [Kinds -> Times]
  <2>1. PICK t \in Times : attr' = [attr EXCEPT ![k] = t]
    <3>1. attr[k] \in Times /\ attr = [attr EXCEPT ![k] = attr[k]]
      BY DEF IInv, TypeOK
    <3>2. CASE attr' = [attr EXCEPT ![k].runtime = times[k].runtime]
      <4>1. [attr[k] EXCEPT !.runtime = times[k].runtime] \in Times
        BY <1>3, <3>1 DEF Times
      <4>. QED
        BY <3>2, <4>1
    <3>3. CASE attr' = [attr EXCEPT ![k].period = times[k].period]
      <4>1. [attr[k] EXCEPT !.period = times[k].period] \in Times
        BY <1>3, <3>1 DEF Times
      <4>. QED
        BY <3>3, <4>1
    <3>4. CASE attr' = attr
      BY <3>1, <3>4
    <3>. QED
      BY <3>2, <3>3, <3>4 DEF Periodic, LoadRuntime, Activate, RunTask, Renew
  <2>. QED
    BY <2>1 DEF IInv, TypeOK
<1>5. TypeOK'
  BY <1>1, <1>4, <1>6 DEF receiveVars, IInv, TypeOK
<1>. QED
  BY <1>2, <1>5 DEF IInv

LEMMA HandleIInv ==
  ASSUME IInv, Handle
  PROVE  IInv'
<1> DEFINE a == AgentOf[msg.from]
           k == KindOf(a)
           records == Registered(table, a, msg.period)
           p == GcdPeriod(records, k)
<1>1. /\ rpc = "handle"
      /\ table' = records
      /\ asked' = [r \in Requesters |-> IF r = msg.from THEN msg.period
                                      ELSE IF AgentOf[r] = a THEN 0 ELSE asked[r]]
      /\ period' = [period EXCEPT ![k] = p]
      /\ rpc' \in {"create", "update", "loop"}
      /\ UNCHANGED <<stage, running, stopped, msg, received, object, times, threadVars,
                     overtaken>>
  BY DEF Handle
<1>2. msg.from \in Requesters /\ msg.period \in Periods /\ msg \in Interests
  BY <1>1 DEF IInv, RecordsOK, Acting, Interests
<1>3. a \in Agents /\ k \in Responses /\ msg.period \in Nat \ {0}
  BY <1>2, SmartDataAssumption DEF Agents, KindOf, Responses
<1>4. /\ records \in [Agents -> Periods \cup {0}]
      /\ records[a] = msg.period
      /\ \A b \in Agents \ {a} : records[b] = table[b]
  BY <1>2, <1>3 DEF IInv, TypeOK, Registered
<1> HIDE DEF records
<1>5. p \in Greatest(Recorded(records, k)) /\ p \in Nat
  BY <1>4, RecordedIs DEF Greatest
<1> HIDE DEF p
<1>6. ASSUME NEW j \in Responses, j # k
      PROVE  Recorded(records, j) = Recorded(table, j)
  <2>1. {b \in Agents : KindOf(b) = j /\ records[b] # 0}
          = {b \in Agents : KindOf(b) = j /\ table[b] # 0}
    BY <1>4, <1>6
  <2>. QED
    BY <1>4, <1>6, <2>1 DEF Recorded
<1>7. TypeOK'
  BY <1>1, <1>2, <1>3, <1>4, <1>5 DEF IInv, TypeOK, ReceivePlaces, threadVars
<1>8. /\ msg' \in Interests
      /\ table'[AgentOf[msg'.from]] # 0
  BY <1>1, <1>2, <1>3, <1>4
<1>9. ASSUME NEW r \in Requesters, asked'[r] # 0 PROVE table'[AgentOf[r]] = asked'[r]
  <2>1. AgentOf[r] \in Agents
    BY DEF Agents
  <2>2. CASE AgentOf[r] = a
    BY <1>1, <1>4, <1>9, <2>2
  <2>3. CASE AgentOf[r] # a
    <3>1. asked'[r] = asked[r]
      BY <1>1, <2>3
    <3>. QED
      BY <1>1, <1>4, <1>9, <2>1, <2>3, <3>1 DEF IInv, RecordsOK
  <2>. QED
    BY <2>2, <2>3
<1>10. ASSUME NEW b \in Agents, table'[b] # 0
       PROVE  \E r \in Requesters : AgentOf[r] = b /\ asked'[r] = table'[b]
  <2>1. CASE b = a
    BY <1>1, <1>2, <1>4, <2>1 DEF IInv, TypeOK
  <2>2. CASE b # a
    <3>1. table'[b] = table[b] /\ table[b] # 0
      BY <1>1, <1>4, <1>10, <2>2
    <3>2. PICK r \in Requesters : AgentOf[r] = b /\ asked[r] = table[b]
      BY <3>1 DEF IInv, RecordsOK
    <3>3. asked'[r] = asked[r]
      BY <1>1, <2>2, <3>2 DEF IInv, TypeOK
    <3>. QED
      BY <3>1, <3>2, <3>3
  <2>. QED
    BY <2>1, <2>2
<1>11. ASSUME NEW j \in Responses PROVE period'[j] \in Greatest(Recorded(table', j))
  <2>1. CASE j = k
    BY <1>1, <1>5, <2>1 DEF IInv, TypeOK
  <2>2. CASE j # k
    <3>1. period'[j] = period[j]
      BY <1>1, <2>2 DEF IInv, TypeOK
    <3>. QED
      BY <1>1, <1>6, <2>2, <3>1 DEF IInv, RecordsOK
  <2>. QED
    BY <2>1, <2>2
<1>12. RecordsOK'
  BY <1>1, <1>8, <1>9, <1>10, <1>11 DEF RecordsOK
<1>. QED
  BY <1>7, <1>12 DEF IInv

LEMMA ReceiverIInv ==
  ASSUME IInv, Receive \/ Receiver
  PROVE  IInv'
<1>0. /\ UNCHANGED <<stage, running, overtaken, stopped, attr, granted, refused>>
  BY DEF Receive, Receiver, Loop, ReceiveNothing, Check, Handle,
     Create, Launch, Update, threadVars
<1>1. CASE Receive \/ Loop \/ ReceiveNothing \/ Check
  <2>1. /\ UNCHANGED <<object, place, times, table, period, asked>>
        /\ rpc' \in ReceivePlaces \ {"create", "launch", "update"}
        /\ received' \in 0 .. MaxInterests
        /\ msg' \in Interests \cup {NoInterest}
        /\ rpc' = "handle" => msg' \in Interests
    BY <1>1, SmartDataAssumption DEF Receive, Loop, ReceiveNothing, Check, threadVars,
       ReceivePlaces, IInv, TypeOK, RecordsOK, Interests
  <2>2. TypeOK'
    BY <1>0, <2>1 DEF IInv, TypeOK, Interests, NoInterest
  <2>3. RecordsOK'
    BY <2>1 DEF IInv, RecordsOK, Acting
  <2>. QED
    BY <2>2, <2>3 DEF IInv
<1>2. CASE Handle
  BY <1>2, HandleIInv
<1>3. CASE Create
  <2>1. /\ UNCHANGED <<place, msg, received, table, period, asked>>
        /\ rpc = "create" /\ rpc' = "launch"
        /\ object' = [object EXCEPT ![Kind] = "made"]
        /\ times' = [times EXCEPT ![Kind] = Constructed(period[Kind], DefaultRuntime)]
    BY <1>3 DEF Create, threadVars
  <2>2. Kind \in Kinds /\ period[Kind] \in Nat
    BY <2>1, PeriodIsPositive DEF Kinds
  <2> DEFINE c == Constructed(period[Kind], DefaultRuntime)
  <2>3. c \in Times /\ c.runtime \in 1 .. c.period
    BY <2>2, ConstructedIs, SmartDataAssumption
  <2> HIDE DEF c
  <2>4. TypeOK'
    BY <1>0, <2>1, <2>2, <2>3 DEF IInv, TypeOK, ReceivePlaces, Lives, c
  <2>5. Kind' = Kind /\ object'[Kind] = "made"
    BY <2>1, <2>2 DEF Kind, IInv, TypeOK
  <2>6. RecordsOK'
    BY <2>1, <2>5 DEF IInv, RecordsOK, Acting
  <2>. QED
    BY <2>4, <2>6 DEF IInv
<1>4. CASE Launch
  <2>1. /\ UNCHANGED <<msg, received, table, period, asked, times>>
        /\ rpc = "launch" /\ rpc' = "loop"
        /\ object' = [object EXCEPT ![Kind] = "started"]
        /\ place' = [place EXCEPT ![Kind] = "new"]
        /\ Kind \in Kinds
        /\ object[Kind] # "none"
    BY <1>4, KindIsResponse DEF Launch, Kinds, IInv, RecordsOK
  <2>2. TypeOK'
    BY <1>0, <2>1 DEF IInv, TypeOK, ReceivePlaces, Lives, Places
  <2>3. RecordsOK'
    BY <2>1 DEF IInv, RecordsOK, Acting
  <2>. QED
    BY <2>2, <2>3 DEF IInv
<1>5. CASE Update
  <2>1. /\ UNCHANGED <<msg, received, table, period, asked, object, place>>
        /\ rpc = "update" /\ rpc' = "loop"
    BY <1>5 DEF Update, threadVars
  <2>2. Kind \in Kinds /\ period[Kind] \in Nat \ {0}
    BY <2>1, PeriodIsPositive DEF Kinds
  <2> DEFINE c == [period |-> period[Kind] * NS, runtime |-> (period[Kind] * NS) \div 2]
  <2>3. c \in Times /\ c.runtime \in 1 .. c.period
    BY <2>2 DEF NS, Times
  <2>4. times' = [times EXCEPT ![Kind] = c]
    BY <1>5 DEF Update
  <2> HIDE DEF c
  <2>5. TypeOK'
    BY <1>0, <2>1, <2>2, <2>3, <2>4 DEF IInv, TypeOK, ReceivePlaces
  <2>6. RecordsOK'
    BY <2>1 DEF IInv, RecordsOK, Acting
  <2>. QED
    BY <2>5, <2>6 DEF IInv
<1>. QED
  BY <1>1, <1>2, <1>3, <1>4, <1>5 DEF Receiver

LEMMA MainIInv ==
  ASSUME Inv, IInv, Start \/ Stop \/ Main
  PROVE  IInv'
<1>1. CASE Start
  <2>1. /\ UNCHANGED <<stopped, msg, received, table, period, asked, attr, granted,
                       refused, overtaken>>
        /\ stage' = "up" /\ running' = TRUE /\ rpc' = "loop"
        /\ object' \in [Kinds -> Lives] /\ place' \in [Kinds -> Places]
        /\ \A k \in Kinds : object'[k] # "none" => k \in FromStart
        /\ times' = [k \in Kinds |-> FirstTimes(k)]
    BY <1>1 DEF Start, Lives, Places
  <2>2. ASSUME NEW k \in Kinds
        PROVE  /\ FirstTimes(k) \in Times
               /\ k \in FromStart => FirstTimes(k).runtime \in 1 .. FirstTimes(k).period
    <3>1. /\ TaskPeriod \in Nat /\ TaskRuntime \in Nat \ {0}
          /\ InterestPeriod \in Nat /\ InterestRuntime \in Nat \ {0}
      BY SmartDataAssumption
    <3>2. NoTimes \in Times
      BY DEF NoTimes, Times
    <3>. QED
      BY <3>1, <3>2, ConstructedIs DEF FirstTimes
  <2>3. TypeOK'
    BY <2>1, <2>2 DEF IInv, TypeOK, Stages, ReceivePlaces
  <2>4. RecordsOK'
    BY <2>1 DEF IInv, RecordsOK, Acting
  <2>. QED
    BY <2>3, <2>4 DEF IInv
<1>2. CASE Stop \/ Main
  <2>1. /\ UNCHANGED <<receiveVars, times, threadVars>>
        /\ running' \in BOOLEAN /\ stopped' \in BOOLEAN
        /\ overtaken' = overtaken \/ overtaken' = Acting
    BY <1>2 DEF Stop, Main, Delete, Join, ClearRunning, StopCommunicator,
       JoinReceiver, IInv, TypeOK
  <2>6. overtaken' \in BOOLEAN
    <3>1. overtaken \in BOOLEAN /\ Acting \in BOOLEAN
      BY DEF IInv, TypeOK, Acting
    <3>. QED
      BY <2>1, <3>1, Zenon
  <2>2. stage' \in Stages /\ object' \in [Kinds -> Lives]
    <3>1. Inv'
      BY <1>2, DeleteInv, MainInv DEF Main
    <3>. QED
      BY <3>1 DEF Inv, ControlOK
  <2>3. ASSUME NEW k \in Kinds, object'[k] # "none" PROVE object[k] # "none"
    BY <1>2, <2>3 DEF Stop, Main, Delete, Join, ClearRunning, StopCommunicator,
       JoinReceiver, IInv, TypeOK
  <2>4. TypeOK'
    BY <2>1, <2>2, <2>3, <2>6 DEF IInv, TypeOK, receiveVars, threadVars
  <2>5. RecordsOK'
    <3>1. Kind' = Kind /\ Kind \in Kinds
      BY <2>1, KindIsResponse DEF Kind, Kinds, receiveVars
    <3>2. object[Kind] # "none" => object'[Kind] # "none"
      BY <1>2, <3>1 DEF Stop, Main, Delete, Join, ClearRunning, StopCommunicator,
         JoinReceiver, IInv, TypeOK
    <3>. QED
      BY <2>1, <3>1, <3>2 DEF IInv, RecordsOK, Acting, receiveVars
  <2>. QED
    BY <2>4, <2>5 DEF IInv
<1>. QED
  BY <1>1, <1>2

LEMMA NextIInv == Inv /\ IInv /\ [Next]_vars => IInv'
<1>. SUFFICES ASSUME Inv, IInv, [Next]_vars PROVE IInv'
  OBVIOUS
<1>1. CASE UNCHANGED vars
  BY <1>1 DEF vars, receiveVars, threadVars, IInv, TypeOK, RecordsOK, Acting, Kind
<1>. QED
  BY <1>1, PeriodicIInv, ReceiverIInv, MainIInv DEF Next

LEMMA SpecIInv == Spec => []IInv
BY InitInv, NextInv, InitIInv, NextIInv, PTL DEF Spec

(***************************************************************************)
(* The state has its types, and a thread that was made has some runtime,   *)
(* which fits its period, after every new period too.                      *)
(***************************************************************************)
THEOREM TypeCorrect == Spec => []TypeOK
<1>1. IInv => TypeOK
  BY DEF IInv
<1>. QED
  BY <1>1, SpecIInv, PTL

\* What is recorded is what is asked for.
LEMMA WishesAreRecorded ==
  ASSUME IInv, NEW k \in Responses
  PROVE  Recorded(table, k) = Wishes(k)
<1>1. ASSUME NEW w \in Wishes(k) PROVE w \in Recorded(table, k)
  <2>1. PICK r \in Requesters : KindOf(AgentOf[r]) = k /\ asked[r] # 0 /\ w = asked[r]
    BY <1>1 DEF Wishes
  <2>2. AgentOf[r] \in Agents /\ table[AgentOf[r]] = asked[r]
    BY <2>1 DEF IInv, RecordsOK, Agents
  <2>. QED
    BY <2>1, <2>2 DEF Recorded
<1>2. ASSUME NEW w \in Recorded(table, k) PROVE w \in Wishes(k)
  <2>1. PICK a \in Agents : KindOf(a) = k /\ table[a] # 0 /\ w = table[a]
    BY <1>2 DEF Recorded
  <2>2. PICK r \in Requesters : AgentOf[r] = a /\ asked[r] = table[a]
    BY <2>1 DEF IInv, RecordsOK
  <2>. QED
    BY <2>1, <2>2 DEF Wishes
<1>. QED
  BY <1>1, <1>2

(***************************************************************************)
(* Whatever interests arrive in whatever order, the period of a response   *)
(* thread is the greatest common divisor of what the agents it serves ask  *)
(* for, each by the last of its components to ask.                         *)
(***************************************************************************)
THEOREM PeriodsAreDivisors == Spec => []PeriodIsGcd
<1>1. ASSUME IInv, NEW k \in Responses, NEW w \in Wishes(k)
      PROVE  /\ Divides(period[k], w)
             /\ \A d \in 1 .. w :
                  (\A v \in Wishes(k) : Divides(d, v)) => Divides(d, period[k])
  <2>1. Recorded(table, k) = Wishes(k)
    BY <1>1, WishesAreRecorded
  <2>2. Wishes(k) \in SUBSET (Nat \ {0})
    BY <1>1, <2>1, RecordedIs DEF IInv, TypeOK
  <2>3. period[k] \in Greatest(Wishes(k))
    BY <1>1, <2>1 DEF IInv, RecordsOK
  <2>4. w \in Nat /\ w # 0 /\ period[k] \in Nat /\ Dvd(period[k], w)
    BY <1>1, <2>2, <2>3 DEF Greatest
  <2>5. period[k] \in Nat \ {0}
    BY <2>4, DvdFacts
  <2>6. Divides(period[k], w)
    BY <2>4, <2>5, DividesIsDvd
  <2>7. ASSUME NEW d \in 1 .. w, \A v \in Wishes(k) : Divides(d, v)
        PROVE  Divides(d, period[k])
    <3>1. d \in Nat \ {0}
      BY <2>4
    <3>2. \A v \in Wishes(k) : Dvd(d, v)
      BY <2>2, <2>7, <3>1, DividesIsDvd
    <3>3. Dvd(d, period[k])
      BY <2>3, <3>1, <3>2 DEF Greatest
    <3>. QED
      BY <2>4, <3>1, <3>3, DividesIsDvd
  <2>. QED
    BY <2>6, <2>7
<1>2. IInv => PeriodIsGcd
  BY <1>1 DEF PeriodIsGcd
<1>. QED
  BY <1>2, SpecIInv, PTL
=============================================================================
