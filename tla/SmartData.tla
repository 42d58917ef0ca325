------------------------------ MODULE SmartData ------------------------------
(***************************************************************************)
(* A component and its threads: SmartData, its InterestTable and its       *)
(* PeriodicThreads.                                                        *)
(*                                                                         *)
(* The receive thread (SmartData::receive) enters the interests it is sent *)
(* in a table and sees that a periodic thread answers them, one for those  *)
(* of the own agent and one for those of other agents, with the greatest   *)
(* common divisor of the periods asked for.  A periodic thread              *)
(* (PeriodicThread::executeThread) asks the kernel for its period and      *)
(* watches for a new one.  Meanwhile the main thread starts the component  *)
(* (Component::start) and stops and deletes it (Component::stop), which    *)
(* ends these threads one after the other.                                 *)
(*                                                                         *)
(* A step ends where another thread can see or change what the thread      *)
(* touches next.  Sending a message is no state of this module: see        *)
(* MessageBus.                                                             *)
(***************************************************************************)
EXTENDS Integers, FiniteSets, FiniteSetsExt

CONSTANTS
  Requesters,     \* the components, here and elsewhere, that send interests
  AgentOf,        \* the agent each of them belongs to
  Me,             \* the agent of this component
  Periods,        \* the periods that are asked for
  MinPeriod,      \* microseconds, as all of these: 300 in PeriodicThread
  DefaultRuntime, \* and 400 * 1000
  TaskPeriod, TaskRuntime,         \* those of Component::run
  InterestPeriod, InterestRuntime, \* and of send_external_interests
  HasExternal,    \* whether the component has interests in other agents' data
  MaxInterests,   \* bound on the interests that arrive
  None            \* nobody

Agents    == {AgentOf[r] : r \in Requesters}
Responses == {"internal", "external"}
Kinds     == {"task", "interest"} \cup Responses

\* The thread that answers an agent.  Component::start makes the others.
KindOf(a) == IF a = Me THEN "internal" ELSE "external"
FromStart == {"task"} \cup IF HasExternal THEN {"interest"} ELSE {}

ASSUME SmartDataAssumption ==
  /\ IsFiniteSet(Requesters) /\ None \notin Requesters
  /\ Periods \subseteq Nat \ {0}
  /\ MinPeriod \in Nat /\ MinPeriod >= 10
  /\ \A n \in {DefaultRuntime, TaskPeriod, TaskRuntime, InterestPeriod,
               InterestRuntime} : n \in Nat \ {0}
  /\ HasExternal \in BOOLEAN
  /\ MaxInterests \in Nat

VARIABLES
  stage,     \* main thread: how far the component is started or stopped
  running,   \* SmartData::_running
  stopped,   \* whether its communicator was stopped
  rpc,       \* where the receive thread is
  msg,       \* the interest it is working on: whose, and the period
  received,  \* how many interests arrived so far
  table,     \* InterestTable: the period recorded for each agent, 0 for none
  period,    \* _period_time_internal_response_thread, ..._external_...
  object,    \* the life of each PeriodicThread, its `running' included
  times,     \* its period_ns and runtime_ns
  place,     \* where the thread is that it runs
  attr,      \* the scheduling attributes of that thread ...
  granted,   \* ... and the period the kernel has granted it
  refused,   \* history: the period the kernel has refused it last
  asked,     \* history: the last period each requester asked for, until another
             \* one of its agent asks
  overtaken  \* history: stop began while an interest was being handled

receiveVars == <<rpc, msg, received, table, period, asked>>
threadVars  == <<place, attr, granted, refused>>
vars        == <<stage, running, stopped, receiveVars, object, times, threadVars,
                 overtaken>>

Stages == {"down", "up", "task", "clear", "interest", "internal", "external",
           "communicator", "receiver", "gone"}
ReceivePlaces == {"off", "loop", "wait", "check", "handle", "create", "launch",
                  "update", "done"}
\* "told" is started and told to end.
Lives  == {"none", "made", "started", "told", "deleted"}
Places == {"none", "new", "loaded", "run", "check", "exit"}
Times  == [period : Nat, runtime : Nat]

\* The receive thread has seen that the component runs, and will act on it.
Acting == rpc \in {"handle", "create", "launch", "update"}

TypeOK ==
  /\ stage \in Stages
  /\ running \in BOOLEAN /\ stopped \in BOOLEAN /\ overtaken \in BOOLEAN
  /\ rpc \in ReceivePlaces
  /\ msg \in [from : Requesters \cup {None}, period : Periods \cup {0}]
  /\ received \in 0 .. MaxInterests
  /\ table \in [Agents -> Periods \cup {0}]
  /\ period \in [Responses -> Nat]
  /\ object \in [Kinds -> Lives]
  /\ times \in [Kinds -> Times]
  /\ place \in [Kinds -> Places]
  /\ attr \in [Kinds -> Times]
  /\ granted \in [Kinds -> Nat] /\ refused \in [Kinds -> Nat]
  /\ asked \in [Requesters -> Periods \cup {0}]
  \* The constructor leaves some runtime, and one that fits the period.
  /\ \A k \in Kinds : object[k] # "none" => times[k].runtime \in 1 .. times[k].period

-----------------------------------------------------------------------------
NoInterest == [from |-> None, period |-> 0]
NoTimes    == [period |-> 0, runtime |-> 0]

Init ==
  /\ stage = "down" /\ running = FALSE /\ stopped = FALSE
  /\ rpc = "off" /\ msg = NoInterest /\ received = 0
  /\ table = [a \in Agents |-> 0]
  /\ period = [k \in Responses |-> 0]
  /\ object = [k \in Kinds |-> "none"]
  /\ times = [k \in Kinds |-> NoTimes]
  /\ place = [k \in Kinds |-> "none"]
  /\ attr = [k \in Kinds |-> NoTimes]
  /\ granted = [k \in Kinds |-> 0] /\ refused = [k \in Kinds |-> 0]
  /\ asked = [r \in Requesters |-> 0]
  /\ overtaken = FALSE

-----------------------------------------------------------------------------
(***************************************************************************)
(* PeriodicThread.  Its constructor and its update() take microseconds.    *)
(***************************************************************************)
NS == 1000

\* A slip: any period and any runtime are taken.
ConstructedAnyhow(us, runtime) == [period |-> us * NS, runtime |-> runtime * NS]

\* The constructor.
Constructed(us, runtime) ==
  LET p == IF us < MinPeriod THEN MinPeriod ELSE us
      r == IF runtime > p THEN p \div 10 ELSE runtime
  IN  [period |-> p * NS, runtime |-> r * NS]

\* executeThread loads the runtime ...
LoadRuntime(k) ==
  /\ place[k] = "new"
  /\ attr' = [attr EXCEPT ![k].runtime = times[k].runtime]
  /\ place' = [place EXCEPT ![k] = "loaded"]
  /\ UNCHANGED <<stage, running, stopped, receiveVars, object, times, granted,
                 refused, overtaken>>

\* sched_setattr takes the period p, or does not: never when the runtime is longer,
\* and whenever privileges or bandwidth are wanting.
Grant(k, p) ==
  /\ attr[k].runtime <= p
  /\ granted' = [granted EXCEPT ![k] = p]
  /\ UNCHANGED refused

Refuse(k, p) ==
  /\ refused' = [refused EXCEPT ![k] = p]
  /\ UNCHANGED granted

\* ... and the period, and calls sched_setattr.  When that fails the thread ends.
Activate(k) ==
  LET p == times[k].period IN
  /\ place[k] = "loaded"
  /\ attr' = [attr EXCEPT ![k].period = p]
  /\ \/ Grant(k, p) /\ place' = [place EXCEPT ![k] = "run"]
     \/ Refuse(k, p) /\ place' = [place EXCEPT ![k] = "exit"]
  /\ UNCHANGED <<stage, running, stopped, receiveVars, object, times, overtaken>>

\* The loop of executeThread: the task, which changes nothing here, ...
RunTask(k) ==
  /\ place[k] = "run"
  /\ place' = [place EXCEPT ![k] = IF object[k] = "started" THEN "check" ELSE "exit"]
  /\ UNCHANGED <<stage, running, stopped, receiveVars, object, times, attr, granted,
                 refused, overtaken>>

\* A slip: the new period is not given to the kernel.
RenewUnset(k) ==
  /\ place[k] = "check"
  /\ attr' = [attr EXCEPT ![k].period = times[k].period]
  /\ place' = [place EXCEPT ![k] = "run"]
  /\ UNCHANGED <<stage, running, stopped, receiveVars, object, times, granted,
                 refused, overtaken>>

\* ... and the test for a new period, with the runtime of the start.  One that is
\* refused is not tried again.
Renew(k) ==
  LET p == times[k].period IN
  /\ place[k] = "check"
  /\ attr' = [attr EXCEPT ![k].period = p]
  /\ IF p = attr[k].period THEN UNCHANGED <<granted, refused>>
                           ELSE Grant(k, p) \/ Refuse(k, p)
  /\ place' = [place EXCEPT ![k] = "run"]
  /\ UNCHANGED <<stage, running, stopped, receiveVars, object, times, overtaken>>

-----------------------------------------------------------------------------
(***************************************************************************)
(* The interest table.  The records of components of one agent are one, as *)
(* SmartData::receive puts 0 for the port of the origin.                   *)
(***************************************************************************)
Gcd[p \in Nat \X Nat] ==
  IF p[2] = 0 THEN p[1] ELSE Gcd[<<p[2], p[1] % p[2]>>]

\* register_interest
Registered(records, a, p) == [records EXCEPT ![a] = p]

Recorded(records, k) ==
  {records[a] : a \in {b \in Agents : KindOf(b) = k /\ records[b] # 0}}

\* A slip: the shortest period.
ShortestPeriod(records, k) ==
  LET ps == Recorded(records, k) IN CHOOSE p \in ps : \A q \in ps : p <= q

\* calculate_gcd_period
GcdPeriod(records, k) == FoldSet(LAMBDA p, q : Gcd[<<p, q>>], 0, Recorded(records, k))

-----------------------------------------------------------------------------
(***************************************************************************)
(* The receive thread.                                                     *)
(***************************************************************************)
\* The loop of SmartData::receive; a thread blocks in Communicator::receive ...
Loop ==
  /\ rpc = "loop"
  /\ rpc' = IF running THEN "wait" ELSE "done"
  /\ UNCHANGED <<stage, running, stopped, msg, received, table, period, asked,
                 object, times, threadVars, overtaken>>

\* ... until a message arrives, an interest in the data of this component or
\* anything else, ...
Receive ==
  /\ rpc = "wait" /\ ~ stopped
  /\ \/ msg' = NoInterest /\ UNCHANGED received
     \/ /\ received < MaxInterests
        /\ received' = received + 1
        /\ msg' \in [from : Requesters, period : Periods]
  /\ rpc' = "check"
  /\ UNCHANGED <<stage, running, stopped, table, period, asked, object, times,
                 threadVars, overtaken>>

\* ... or until the communicator is stopped.
ReceiveNothing ==
  /\ rpc = "wait" /\ stopped
  /\ rpc' = "loop"
  /\ UNCHANGED <<stage, running, stopped, msg, received, table, period, asked,
                 object, times, threadVars, overtaken>>

\* _running is tested once more.
Check ==
  /\ rpc = "check"
  /\ rpc' = IF ~ running THEN "done" ELSE IF msg = NoInterest THEN "loop" ELSE "handle"
  /\ UNCHANGED <<stage, running, stopped, msg, received, table, period, asked,
                 object, times, threadVars, overtaken>>

\* The interest is registered and the period computed again; what follows
\* depends on whether there is a thread for it.
Handle ==
  LET a       == AgentOf[msg.from]
      k       == KindOf(a)
      records == Registered(table, a, msg.period)
      p       == GcdPeriod(records, k)
  IN
  /\ rpc = "handle"
  /\ table' = records
  /\ asked' = [r \in Requesters |-> IF r = msg.from THEN msg.period
                                   ELSE IF AgentOf[r] = a THEN 0 ELSE asked[r]]
  /\ period' = [period EXCEPT ![k] = p]
  /\ rpc' = IF object[k] = "none" THEN "create"
            ELSE IF period[k] # p THEN "update" ELSE "loop"
  /\ UNCHANGED <<stage, running, stopped, msg, received, object, times, threadVars,
                 overtaken>>

Kind == KindOf(AgentOf[msg.from])

\* The thread is made ...
Create ==
  /\ rpc = "create"
  /\ object' = [object EXCEPT ![Kind] = "made"]
  /\ times' = [times EXCEPT ![Kind] = Constructed(period[Kind], DefaultRuntime)]
  /\ rpc' = "launch"
  /\ UNCHANGED <<stage, running, stopped, msg, received, table, period, asked,
                 threadVars, overtaken>>

\* ... and started, ...
Launch ==
  /\ rpc = "launch"
  /\ object' = [object EXCEPT ![Kind] = "started"]
  /\ place' = [place EXCEPT ![Kind] = "new"]
  /\ rpc' = "loop"
  /\ UNCHANGED <<stage, running, stopped, msg, received, table, period, asked,
                 times, attr, granted, refused, overtaken>>

\* ... or told its new period, which update() does not compare with the shortest
\* one.  A thread that is just starting may have loaded the runtime before.
Update ==
  /\ rpc = "update"
  /\ times' = [times EXCEPT ![Kind] =
                 [period |-> period[Kind] * NS, runtime |-> (period[Kind] * NS) \div 2]]
  /\ rpc' = "loop"
  /\ UNCHANGED <<stage, running, stopped, msg, received, table, period, asked,
                 object, threadVars, overtaken>>

-----------------------------------------------------------------------------
(***************************************************************************)
(* The main thread.                                                        *)
(***************************************************************************)
\* The threads that are made by Component::start and SmartData::start.
FirstTimes(k) ==
  IF k \notin FromStart THEN NoTimes
  ELSE IF k = "task" THEN Constructed(TaskPeriod, TaskRuntime)
                     ELSE Constructed(InterestPeriod, InterestRuntime)

\* Both, which test whether they were called before.
Start ==
  /\ stage = "down"
  /\ stage' = "up" /\ running' = TRUE /\ rpc' = "loop"
  /\ object' = [k \in Kinds |-> IF k \in FromStart THEN "started" ELSE "none"]
  /\ place' = [k \in Kinds |-> IF k \in FromStart THEN "new" ELSE "none"]
  /\ times' = [k \in Kinds |-> FirstTimes(k)]
  /\ UNCHANGED <<stopped, msg, received, table, period, asked, attr, granted,
                 refused, overtaken>>

\* A slip: the receive thread is joined before the communicator is stopped.
NextStageJoined(s) ==
  CASE s = "task"     -> "clear"        [] s = "clear"        -> "interest"
    [] s = "interest" -> "internal"     [] s = "internal"     -> "external"
    [] s = "external" -> "receiver"     [] s = "receiver"     -> "communicator"
    [] s = "communicator" -> "gone"

\* The order in which Component::stop and SmartData::stop end things.
NextStage(s) ==
  CASE s = "task"     -> "clear"        [] s = "clear"        -> "interest"
    [] s = "interest" -> "internal"     [] s = "internal"     -> "external"
    [] s = "external" -> "communicator" [] s = "communicator" -> "receiver"
    [] s = "receiver" -> "gone"

\* Component::stop is called.
Stop ==
  /\ stage = "up"
  /\ stage' = "task"
  /\ UNCHANGED <<running, stopped, receiveVars, object, times, threadVars, overtaken>>

\* A slip: the thread is not joined.
DeleteAtOnce(k) ==
  /\ stage = k
  /\ object' = [object EXCEPT ![k] = IF @ = "none" THEN @ ELSE "deleted"]
  /\ stage' = NextStage(k)
  /\ UNCHANGED <<running, stopped, receiveVars, times, threadVars, overtaken>>

\* delete of a PeriodicThread, if there is one.  stop() in its destructor tells a
\* thread that was started to end ...
Delete(k) ==
  /\ stage = k
  /\ \/ /\ object[k] = "started"
        /\ object' = [object EXCEPT ![k] = "told"]
        /\ UNCHANGED stage
     \/ /\ object[k] \in {"none", "made"}
        /\ object' = [object EXCEPT ![k] = IF @ = "made" THEN "deleted" ELSE @]
        /\ stage' = NextStage(k)
  /\ UNCHANGED <<running, stopped, receiveVars, times, threadVars, overtaken>>

\* ... and joins it.
Join(k) ==
  /\ stage = k /\ object[k] = "told"
  /\ place[k] = "exit"
  /\ object' = [object EXCEPT ![k] = "deleted"]
  /\ stage' = NextStage(k)
  /\ UNCHANGED <<running, stopped, receiveVars, times, threadVars, overtaken>>

\* The first statement of SmartData::stop, ...
ClearRunning ==
  /\ stage = "clear"
  /\ running' = FALSE
  /\ overtaken' = Acting
  /\ stage' = NextStage("clear")
  /\ UNCHANGED <<stopped, receiveVars, object, times, threadVars>>

\* ... and what it does when the periodic threads are deleted.
StopCommunicator ==
  /\ stage = "communicator"
  /\ stopped' = TRUE
  /\ stage' = NextStage("communicator")
  /\ UNCHANGED <<running, receiveVars, object, times, threadVars, overtaken>>

JoinReceiver ==
  /\ stage = "receiver" /\ rpc = "done"
  /\ stage' = NextStage("receiver")
  /\ UNCHANGED <<running, stopped, receiveVars, object, times, threadVars, overtaken>>

-----------------------------------------------------------------------------
Periodic(k) == LoadRuntime(k) \/ Activate(k) \/ RunTask(k) \/ Renew(k)

Receiver == Loop \/ ReceiveNothing \/ Check \/ Handle \/ Create \/ Launch \/ Update

Main ==
  \/ \E k \in Kinds : Delete(k) \/ Join(k)
  \/ ClearRunning \/ StopCommunicator \/ JoinReceiver

Next ==
  Start \/ Stop \/ Main \/ Receive \/ Receiver \/ \E k \in Kinds : Periodic(k)

Spec == Init /\ [][Next]_vars

\* Every thread goes on when it can.  Nobody is made to start or to stop a
\* component, or to send it anything.
FairSpec ==
  /\ Spec
  /\ WF_vars(Main) /\ WF_vars(Receiver)
  /\ \A k \in Kinds : WF_vars(Periodic(k))

-----------------------------------------------------------------------------
(***************************************************************************)
(* The period of a response thread is the greatest common divisor of what  *)
(* the agents it serves ask for, whatever interests came before and in     *)
(* whatever order.  Of the components of one agent the last one to ask     *)
(* counts, and no other: they share a record.                              *)
(* (InterestTable::register_interest and calculate_gcd_period.)            *)
(***************************************************************************)
Wishes(k) ==
  {asked[r] : r \in {q \in Requesters : KindOf(AgentOf[q]) = k /\ asked[q] # 0}}

Divides(d, n) == n % d = 0

PeriodIsGcd ==
  \A k \in Responses : \A w \in Wishes(k) :
    /\ Divides(period[k], w)
    /\ \A d \in 1 .. w : (\A v \in Wishes(k) : Divides(d, v)) => Divides(d, period[k])

(***************************************************************************)
(* Whatever update() and the thread do at once, a thread comes to work     *)
(* with the period it was given last, unless the kernel has refused that   *)
(* very period, or its first one: then the thread is gone, which nobody    *)
(* notices.  (PeriodicThread::executeThread, update.)                      *)
(***************************************************************************)
Dead(k) == place[k] = "exit"

UpdatesTakeEffect ==
  \A k \in Kinds :
    object[k] = "started" ~> \/ granted[k] = times[k].period
                             \/ refused[k] = times[k].period
                             \/ Dead(k)
                             \/ object[k] # "started"

(***************************************************************************)
(* A component that is being stopped comes to an end: the receive thread   *)
(* is waiting for a message, and every periodic thread is joined.          *)
(* (Component::stop, SmartData::stop, PeriodicThread::stop.)               *)
(***************************************************************************)
StopReturns == stage = "task" ~> stage = "gone"

(***************************************************************************)
(* Then no thread of it is left and none is used that was deleted, as long *)
(* as stop did not begin while an interest was being handled: the receive  *)
(* thread is joined after the threads it makes.  (SmartData::stop.)        *)
(***************************************************************************)
NothingLeftBehind ==
  ~ overtaken =>
    /\ stage = "gone" => \A k \in Kinds : place[k] \in {"none", "exit"}
    /\ \A k \in Kinds : object[k] = "deleted" => place[k] \in {"none", "exit"}
    /\ rpc \in {"launch", "update"} => object[Kind] # "deleted"
=============================================================================
