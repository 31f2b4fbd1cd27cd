---------------------------- MODULE VehicleProofs ----------------------------
(***************************************************************************)
(* MissionExecution over the vehicle is MissionExecution, for any missions *)
(* and requests: so all that is proved of it holds here too.  The vehicle  *)
(* keeps within its route, the link carries exactly calls that are awaited *)
(* and, with one mission on the vehicle, the last of them is the one that  *)
(* goes with the state in the store.                                       *)
(***************************************************************************)
EXTENDS Vehicle, MissionExecutionProofs, FiniteSetTheorems, SequenceTheorems

\* The vehicle decides only when a step is taken, never what it does.
LEMMA VehicleStep == [VehicleNext]_vehicleVars => [Next]_vars
<1> SUFFICES ASSUME [VehicleNext]_vehicleVars PROVE [Next]_vars
  OBVIOUS
<1>1. ASSUME NEW m \in Missions, Launch(m) PROVE Next
  BY <1>1 DEF Next
<1>2. ASSUME NEW m \in Missions, VehicleTask(m) PROVE Next
  BY <1>2 DEF VehicleTask, TaskProceeds, TaskPolls, Completes, TaskRaises, Next, FlightStep, ExecutorStep,
              Polls
<1>3. ASSUME NEW m \in Missions, TaskCancelled(m) PROVE Next
  BY <1>3 DEF TaskCancelled, Next, FlightStep
<1>4. ASSUME NEW r \in Requests, NEW op \in Operations, NEW m \in Missions,
             VehicleCommand(r, op, m)
      PROVE  Next
  BY <1>4 DEF VehicleCommand, Next, FlightStep
<1>5. ASSUME NEW r \in Requests, VehicleReply(r) PROVE Next
  <2>1. Reply(r)
    BY <1>5 DEF VehicleReply, Reply
  <2> QED
    BY <2>1 DEF Next, FlightStep
<1>6. CASE Obeys
  BY <1>6 DEF Obeys
<1>7. CASE Surroundings
  BY <1>7 DEF Surroundings, Next, FlightStep
<1>8. CASE UNCHANGED vehicleVars
  BY <1>8 DEF vehicleVars
<1> QED
  BY <1>1, <1>2, <1>3, <1>4, <1>5, <1>6, <1>7, <1>8 DEF VehicleNext

\* Executor and commands do over a vehicle, with its calls under way and in
\* order, only what MissionExecution says they may do (executor.py:74-158,
\* commands.py:20-193).
THEOREM VehicleImplementsExecution == VehicleSpec => Spec
<1>1. VehicleInit => Init
  BY DEF VehicleInit
<1> QED
  BY <1>1, VehicleStep, PTL DEF VehicleSpec, Spec

\* Tasks, states, commands, archives and events agree over the vehicle as well.
THEOREM VehicleKeepsInvariant == VehicleSpec => []ExecutionInvariant
BY VehicleImplementsExecution, ExecutionInvariantHolds, PTL

-----------------------------------------------------------------------------

\* What is known of the vehicle whatever it is told: the route it counts along
\* is the uploaded one and the count stays within it.
OnRoute == total \in {0, Waypoints} /\ waypoint \in 0 .. total

LEMMA AdvanceOnRoute == OnRoute /\ Advances => OnRoute'
BY VehicleAssumption DEF OnRoute, Advances, NextWaypoint, aircraft

LEMMA ObeyOnRoute == ASSUME NEW STATE call, OnRoute, Does(call) PROVE OnRoute'
BY VehicleAssumption DEF OnRoute, Does, Uploads, Arms, Starts, Pauses, Returns, Lands

\* The progress the vehicle reports never exceeds the route, so that the monitor
\* loop's test of it (executor.py:126) is one of equality.
THEOREM ProgressWithinRoute == VehicleSpec => []OnRoute
<1>1. VehicleInit => OnRoute
  BY VehicleAssumption DEF VehicleInit, OnRoute
<1>2. OnRoute /\ [VehicleNext]_vehicleVars => OnRoute'
  <2> SUFFICES ASSUME OnRoute, [VehicleNext]_vehicleVars PROVE OnRoute'
    OBVIOUS
  <2>1. ASSUME UNCHANGED aircraft PROVE OnRoute'
    BY <2>1 DEF aircraft, OnRoute
  <2>2. CASE Obeys
    BY <2>2, ObeyOnRoute DEF Obeys
  <2>3. CASE Surroundings
    BY <2>1, <2>3, AdvanceOnRoute DEF Surroundings
  <2>4. ASSUME NEW m \in Missions, TaskPolls(m) PROVE OnRoute'
    BY <2>1, <2>4, AdvanceOnRoute DEF TaskPolls
  <2>5. CASE UNCHANGED vehicleVars
    BY <2>1, <2>5 DEF vehicleVars
  <2> QED
    BY <2>1, <2>2, <2>3, <2>4, <2>5
       DEF VehicleNext, VehicleTask, TaskProceeds, TaskRaises, TaskCancelled, VehicleCommand,
           VehicleReply
<1> QED
  BY <1>1, <1>2, PTL DEF VehicleSpec

-----------------------------------------------------------------------------
(* Sequences.                                                              *)

LEMMA RemovesOne ==
    ASSUME NEW T, NEW s \in Seq(T), NEW k \in DOMAIN s
    PROVE  /\ RemoveAt(s, k) \in Seq(T) /\ Len(RemoveAt(s, k)) = Len(s) - 1
           /\ \A i \in 1 .. Len(s) - 1 : RemoveAt(s, k)[i] = s[IF i < k THEN i ELSE i + 1]
<1> DEFINE a == SubSeq(s, 1, k - 1)
           b == SubSeq(s, k + 1, Len(s))
<1>1. k \in 1 .. Len(s) /\ Len(s) \in Nat
  OBVIOUS
<1>2. a \in Seq(T) /\ Len(a) = k - 1 /\ \A i \in 1 .. k - 1 : a[i] = s[i]
  BY <1>1
<1>3. b \in Seq(T) /\ Len(b) = Len(s) - k /\ \A i \in 1 .. Len(s) - k : b[i] = s[k + i]
  BY <1>1
<1>4. RemoveAt(s, k) = a \o b
  BY DEF RemoveAt
<1> HIDE DEF a, b
<1>5. a \o b \in Seq(T) /\ Len(a \o b) = Len(s) - 1
  BY <1>1, <1>2, <1>3
<1>6. ASSUME NEW i \in 1 .. Len(s) - 1 PROVE (a \o b)[i] = s[IF i < k THEN i ELSE i + 1]
  <2>1. CASE i < k
    BY <1>1, <1>2, <1>3, <2>1
  <2>2. CASE ~ i < k
    <3>1. (a \o b)[i] = b[i - Len(a)] /\ i - Len(a) \in 1 .. Len(s) - k /\ k + (i - Len(a)) = i + 1
      BY <1>1, <1>2, <1>3, <2>2
    <3> QED
      BY <1>3, <2>2, <3>1
  <2> QED
    BY <2>1, <2>2
<1> QED
  BY <1>4, <1>5, <1>6

LEMMA SeqOfNone == SetToSeq({}) = <<>>
<1>1. Cardinality({}) = 0
  BY FS_EmptySet
<1>2. \A f : f \in [1 .. 0 -> {}] /\ IsInjective(f) <=> f = <<>>
  <2>1. <<>> \in [1 .. 0 -> {}] /\ IsInjective(<<>>)
    BY DEF IsInjective
  <2>2. ASSUME NEW f \in [1 .. 0 -> {}] PROVE f = <<>>
    <3>1. f \in Seq({}) /\ Len(f) = 0
      OBVIOUS
    <3> QED
      BY <3>1
  <2> QED
    BY <2>1, <2>2
<1> QED
  BY <1>1, <1>2 DEF SetToSeq

LEMMA SeqOfOne == ASSUME NEW x PROVE SetToSeq({x}) = <<x>>
<1>1. Cardinality({x}) = 1
  BY FS_Singleton
<1>2. \A f : f \in [1 .. 1 -> {x}] /\ IsInjective(f) <=> f = <<x>>
  BY DEF IsInjective
<1> QED
  BY <1>1, <1>2 DEF SetToSeq

-----------------------------------------------------------------------------
(* The calls.                                                              *)

\* The calls and the points at which they are awaited, one by one.
LEMMA CallCases ==
    /\ DOMAIN CallOf = {"uploading", "arming", "starting", "returning"}
    /\ CallOf["uploading"] = "upload_mission" /\ CallOf["arming"] = "arm"
    /\ CallOf["starting"] = "start_mission" /\ CallOf["returning"] = "return_to_launch"
    /\ CommandCall["pause"] = "pause_mission" /\ CommandCall["resume"] = "start_mission"
    /\ CommandCall["rtl"] = "return_to_launch" /\ CommandCall["abort"] = "land"
BY DEF CallOf, CommandCall

\* The call the task of m waits for, and the one a command does.
TaskOrder(m) == [by |-> "executor", id |-> m, call |-> CallOf[task[m]]]

CommandOrder(c) == [by |-> "operator", id |-> c.req, call |-> CommandCall[c.op]]

LEMMA AwaitedCases ==
    \A o : o \in Awaited <=> \/ \E m \in Missions : task[m] \in DOMAIN CallOf /\ o = TaskOrder(m)
                             \/ \E c \in calls : o = CommandOrder(c)
BY DEF Awaited, TaskOrder, CommandOrder

LEMMA AwaitedAreOrders == TypeOK => Awaited \subseteq Orders
<1> SUFFICES ASSUME TypeOK, NEW o \in Awaited PROVE o \in Orders
  OBVIOUS
<1>1. CASE \E m \in Missions : task[m] \in DOMAIN CallOf /\ o = TaskOrder(m)
  BY <1>1, CallCases DEF TaskOrder, Orders, CallNames
<1>2. CASE \E c \in calls : o = CommandOrder(c)
  <2>1. PICK c \in calls : o = CommandOrder(c)
    BY <1>2
  <2>2. c.req \in Requests /\ CommandCall[c.op] \in CallNames
    BY <2>1, CallCases DEF TypeOK, Calls, Operations, CallNames
  <2> QED
    BY <2>1, <2>2 DEF CommandOrder, Orders
<1> QED
  BY <1>1, <1>2, AwaitedCases

-----------------------------------------------------------------------------
(* What a step makes somebody wait for.                                    *)

\* A step of the task of m, or of its launch.
TaskMoves(m) == calls' = calls /\ \A n \in Missions \ {m} : task'[n] = task[n]

LEMMA TaskStepMoves ==
    ASSUME TypeOK, NEW m \in Missions, Launch(m) \/ ExecutorStep(m) \/ Cancelled(m)
    PROVE  TaskMoves(m)
BY DEF TypeOK, Launch, ExecutorStep, Proceeds, Polls, Raises, Cancelled, Begin, Uploaded, SetupFailed,
       Armed, EntersLoop, LoopHead, ReachesEnd, GuardReturns, FliesOn, Crashed, Returned, Exported,
       ExportFailed, Finish, Suspend, TaskMoves

LEMMA TaskWaits ==
    ASSUME TypeOK, TypeOK', NEW m \in Missions, TaskMoves(m)
    PROVE  /\ \A o \in Awaited \ Awaited' : task[m] \in DOMAIN CallOf /\ o = TaskOrder(m)
           /\ \A o \in Awaited' \ Awaited : task'[m] \in DOMAIN CallOf /\ o = TaskOrder(m)'
           /\ task'[m] # task[m] /\ task'[m] \in DOMAIN CallOf => TaskOrder(m)' \in Awaited' \ Awaited
           /\ task'[m] # task[m] /\ task[m] \in DOMAIN CallOf => TaskOrder(m) \notin Awaited'
<1>1. /\ calls' = calls
      /\ \A n \in Missions : n # m => task'[n] = task[n]
  BY DEF TaskMoves
<1>2. \A n \in Missions : n # m => TaskOrder(n)' = TaskOrder(n)
  BY <1>1 DEF TaskOrder
<1>3. \A c \in calls : CommandOrder(c)' = CommandOrder(c)
  BY DEF CommandOrder
<1>4. \A o : o \in Awaited' <=> \/ \E n \in Missions : task'[n] \in DOMAIN CallOf /\ o = TaskOrder(n)'
                                \/ \E c \in calls' : o = CommandOrder(c)
  BY AwaitedCases DEF Awaited, TaskOrder, CommandOrder
<1>5. ASSUME NEW o \in Awaited, o \notin Awaited' PROVE task[m] \in DOMAIN CallOf /\ o = TaskOrder(m)
  BY <1>1, <1>2, <1>4, <1>5, AwaitedCases
<1>6. ASSUME NEW o \in Awaited', o \notin Awaited PROVE task'[m] \in DOMAIN CallOf /\ o = TaskOrder(m)'
  BY <1>1, <1>2, <1>4, <1>6, AwaitedCases
<1>7. ASSUME task'[m] # task[m], task'[m] \in DOMAIN CallOf
      PROVE  TaskOrder(m)' \in Awaited' \ Awaited
  <2>1. TaskOrder(m)' \in Awaited'
    BY <1>4, <1>7
  <2>2. ASSUME NEW n \in Missions, task[n] \in DOMAIN CallOf, TaskOrder(m)' = TaskOrder(n) PROVE FALSE
    BY <1>7, <2>2, CallCases DEF TaskOrder
  <2>3. \A c \in calls : TaskOrder(m)' # CommandOrder(c)
    BY DEF TaskOrder, CommandOrder
  <2> QED
    BY <2>1, <2>2, <2>3, AwaitedCases
<1>8. ASSUME task'[m] # task[m], task[m] \in DOMAIN CallOf
      PROVE  TaskOrder(m) \notin Awaited'
  <2>1. ASSUME NEW n \in Missions, task'[n] \in DOMAIN CallOf, TaskOrder(m) = TaskOrder(n)' PROVE FALSE
    BY <1>8, <2>1, CallCases DEF TaskOrder
  <2>2. \A c \in calls' : TaskOrder(m) # CommandOrder(c)
    BY DEF TaskOrder, CommandOrder
  <2> QED
    BY <1>4, <2>1, <2>2
<1> QED
  BY <1>5, <1>6, <1>7, <1>8

LEMMA CommandWaits ==
    ASSUME NEW r \in Requests, NEW op \in Operations, NEW m \in Missions, Command(r, op, m)
    PROVE  LET c == [req |-> r, op |-> op, mission |-> m]
           IN  Awaited \subseteq Awaited' /\ Awaited' \ Awaited = {CommandOrder(c)}
<1> DEFINE c == [req |-> r, op |-> op, mission |-> m]
<1>1. task' = task /\ calls' = calls \cup {c} /\ \A d \in calls : d.req # r
  BY DEF Command
<1>2. \A o : o \in Awaited' <=> o \in Awaited \/ o = CommandOrder(c)
  BY <1>1 DEF Awaited, CommandOrder
<1>3. \A n \in Missions : CommandOrder(c) # TaskOrder(n)
  BY DEF TaskOrder, CommandOrder
<1>4. \A d \in calls : CommandOrder(c) # CommandOrder(d)
  BY <1>1 DEF CommandOrder
<1>5. CommandOrder(c) \notin Awaited
  BY <1>3, <1>4, AwaitedCases
<1> QED
  BY <1>2, <1>5

LEMMA ReplyWaits ==
    ASSUME NEW c \in calls, Answered(c) \/ Resumed(c) \/ ResumeFailed(c)
    PROVE  Awaited' \subseteq Awaited /\ \A o \in Awaited \ Awaited' : o = CommandOrder(c)
<1>1. task' = task /\ calls' = calls \ {c}
  BY DEF Answered, Resumed, ResumeFailed
<1> QED
  BY <1>1 DEF Awaited, CommandOrder

LEMMA NobodyWaits == task' = task /\ calls' = calls => Awaited' = Awaited
BY DEF Awaited

\* A step ends one wait at most and begins one at most.
LEMMA OneWaitAtATime ==
    ASSUME TypeOK, TypeOK',
           \/ \E m \in Missions : Launch(m) \/ VehicleTask(m) \/ TaskCancelled(m)
           \/ \E r \in Requests, op \in Operations, m \in Missions : VehicleCommand(r, op, m)
           \/ \E r \in Requests : VehicleReply(r)
    PROVE  /\ \A o, q \in Awaited \ Awaited' : o = q
           /\ \A o, q \in Awaited' \ Awaited : o = q
<1>1. ASSUME NEW m \in Missions, Launch(m) \/ VehicleTask(m) \/ TaskCancelled(m)
      PROVE  /\ \A o, q \in Awaited \ Awaited' : o = q
             /\ \A o, q \in Awaited' \ Awaited : o = q
  <2>1. Launch(m) \/ ExecutorStep(m) \/ Cancelled(m)
    BY <1>1 DEF VehicleTask, TaskProceeds, TaskPolls, Completes, TaskRaises, TaskCancelled, ExecutorStep, Polls
  <2> QED
    BY <2>1, TaskStepMoves, TaskWaits
<1>2. ASSUME NEW r \in Requests, NEW op \in Operations, NEW m \in Missions, VehicleCommand(r, op, m)
      PROVE  /\ \A o, q \in Awaited \ Awaited' : o = q
             /\ \A o, q \in Awaited' \ Awaited : o = q
  BY <1>2, CommandWaits DEF VehicleCommand
<1>3. ASSUME NEW r \in Requests, VehicleReply(r)
      PROVE  /\ \A o, q \in Awaited \ Awaited' : o = q
             /\ \A o, q \in Awaited' \ Awaited : o = q
  BY <1>3, ReplyWaits DEF VehicleReply
<1> QED
  BY <1>1, <1>2, <1>3

-----------------------------------------------------------------------------
(* The link.                                                               *)

\* The link carries calls that are waited for, none of them twice.
LinkInvariant ==
    /\ pending \in Seq(Orders)
    /\ \A i \in DOMAIN pending : pending[i] \in Awaited
    /\ \A i, j \in DOMAIN pending : pending[i] = pending[j] => i = j

\* A step that ends one wait at most and begins one at most: the calls left on the
\* link keep their order, and a new call is the last.
LEMMA TransmitEffect ==
    ASSUME LinkInvariant, Awaited' \subseteq Orders, Transmit,
           \A o, q \in Awaited \ Awaited' : o = q,
           \A o, q \in Awaited' \ Awaited : o = q
    PROVE  /\ LinkInvariant'
           /\ \A i \in DOMAIN pending' : pending'[i] \in Awaited =>
                 \E j \in DOMAIN pending : pending'[i] = pending[j]
           /\ \A o \in Awaited' \ Awaited : pending' # <<>> /\ Last(pending') = o
           /\ Awaited' \subseteq Awaited =>
                /\ Forgotten = {} => pending' = pending
                /\ pending # <<>> /\ Last(pending) \in Awaited' =>
                      pending' # <<>> /\ Last(pending') = Last(pending)
<1> DEFINE left == IF Forgotten = {} THEN pending
                                     ELSE RemoveAt(pending, CHOOSE i \in Forgotten : TRUE)
           new == SetToSeq(Awaited' \ Awaited)
<1>1. pending' = left \o new
  BY DEF Transmit
<1>2. pending \in Seq(Orders) /\ Len(pending) \in Nat /\ DOMAIN pending = 1 .. Len(pending)
  BY DEF LinkInvariant
<1>3. ASSUME NEW i \in DOMAIN pending, NEW j \in DOMAIN pending, pending[i] = pending[j] PROVE i = j
  BY <1>3 DEF LinkInvariant
<1>4. ASSUME NEW i \in Forgotten, NEW j \in Forgotten PROVE i = j
  <2>1. i \in DOMAIN pending /\ j \in DOMAIN pending
    BY DEF Forgotten
  <2>2. pending[i] \in Awaited \ Awaited' /\ pending[j] \in Awaited \ Awaited'
    BY DEF Forgotten, LinkInvariant
  <2> QED
    BY <1>3, <2>1, <2>2
<1>5. /\ left \in Seq(Orders)
      /\ \A i \in DOMAIN left : \E j \in DOMAIN pending : left[i] = pending[j] /\ pending[j] \in Awaited'
      /\ \A i, j \in DOMAIN left : left[i] = left[j] => i = j
      /\ Forgotten = {} => left = pending
      /\ pending # <<>> /\ Last(pending) \in Awaited' => left # <<>> /\ Last(left) = Last(pending)
  <2>1. CASE Forgotten = {}
    BY <1>2, <1>3, <2>1 DEF Forgotten
  <2>2. CASE Forgotten # {}
    <3> DEFINE k == CHOOSE i \in Forgotten : TRUE
               n == Len(pending)
               from(i) == IF i < k THEN i ELSE i + 1
    <3>1. k \in Forgotten /\ Forgotten = {k}
      BY <1>4, <2>2
    <3>2. k \in 1 .. n /\ pending[k] \notin Awaited'
      BY <1>2, <3>1 DEF Forgotten
    <3> HIDE DEF k
    <3>3. left = RemoveAt(pending, k)
      BY <2>2 DEF k
    <3> HIDE DEF left
    <3>4. left \in Seq(Orders) /\ Len(left) = n - 1 /\ \A i \in 1 .. n - 1 : left[i] = pending[from(i)]
      <4>1. k \in DOMAIN pending
        BY <1>2, <3>2
      <4> HIDE DEF LinkInvariant
      <4> QED
        BY <1>2, <3>3, <4>1, RemovesOne
    <3> HIDE DEF n
    <3>5. DOMAIN left = 1 .. n - 1 /\ n \in Nat /\ DOMAIN pending = 1 .. n
      BY <1>2, <3>4 DEF n
    <3>6. \A i \in 1 .. n - 1 : from(i) \in 1 .. n /\ from(i) # k
      BY <3>2, <3>5
    <3>7. \A i, j \in 1 .. n - 1 : from(i) = from(j) => i = j
      BY <3>2, <3>5
    <3> HIDE DEF from
    <3>8. \A i \in 1 .. n - 1 : pending[from(i)] \in Awaited'
      BY <3>1, <3>5, <3>6 DEF Forgotten
    <3>9. \A i, j \in DOMAIN left : left[i] = left[j] => i = j
      BY <1>3, <3>4, <3>5, <3>6, <3>7
    <3>10. ASSUME pending # <<>>, Last(pending) \in Awaited' PROVE left # <<>> /\ Last(left) = Last(pending)
      <4>1. Last(pending) = pending[n] /\ k # n
        BY <3>2, <3>10 DEF Last, n
      <4>2. n - 1 \in 1 .. n - 1 /\ from(n - 1) = n
        BY <3>2, <3>5, <4>1 DEF from
      <4>3. left # <<>> /\ Last(left) = left[n - 1]
        BY <3>4, <4>2 DEF Last
      <4> QED
        BY <3>4, <4>1, <4>2, <4>3
    <3> QED
      BY <2>2, <3>4, <3>5, <3>6, <3>8, <3>9, <3>10
  <2> QED
    BY <2>1, <2>2
<1> HIDE DEF left
<1>6. CASE Awaited' \subseteq Awaited
  <2>1. new = <<>>
    <3>1. Awaited' \ Awaited = {}
      BY <1>6
    <3> QED
      BY <3>1, SeqOfNone
  <2>2. pending' = left
    BY <1>1, <1>5, <2>1, ConcatEmptySeq
  <2> QED
    BY <1>5, <1>6, <2>2 DEF LinkInvariant
<1>7. CASE ~ (Awaited' \subseteq Awaited)
  <2>1. PICK o \in Awaited' : o \notin Awaited
    BY <1>7
  <2>2. new = <<o>>
    <3>1. Awaited' \ Awaited = {o}
      BY <2>1
    <3> QED
      BY <3>1, SeqOfOne
  <2> DEFINE n == Len(left)
  <2>3. pending' = Append(left, o)
    <3>1. left \in Seq(Orders) /\ o \in Orders
      BY <1>5, <2>1
    <3>2. pending' = left \o <<o>>
      BY <1>1, <2>2
    <3> QED
      BY <3>1, <3>2, AppendIsConcat
  <2>4. n \in Nat /\ DOMAIN left = 1 .. n /\ o \in Orders
    BY <1>5, <2>1
  <2>5. /\ pending' \in Seq(Orders) /\ Len(pending') = n + 1 /\ pending'[n + 1] = o
        /\ DOMAIN pending' = 1 .. n + 1
        /\ \A i \in 1 .. n : pending'[i] = left[i]
    BY <1>5, <2>3, <2>4
  <2>6. \A i \in 1 .. n : left[i] # o /\ left[i] \in Awaited'
    BY <1>5, <2>1, <2>4 DEF LinkInvariant
  <2>7. \A i \in 1 .. n + 1 : i = n + 1 \/ i \in 1 .. n
    BY <2>4
  <2>8. LinkInvariant'
    <3>1. \A i \in DOMAIN pending' : pending'[i] \in Awaited'
      BY <2>1, <2>5, <2>6, <2>7
    <3>2. ASSUME NEW i \in DOMAIN pending', NEW j \in DOMAIN pending', pending'[i] = pending'[j]
          PROVE  i = j
      <4>1. CASE i \in 1 .. n /\ j \in 1 .. n
        BY <1>5, <2>4, <2>5, <3>2, <4>1
      <4>2. CASE i = n + 1 \/ j = n + 1
        BY <2>4, <2>5, <2>6, <2>7, <3>2, <4>2
      <4> QED
        BY <2>5, <2>7, <4>1, <4>2
    <3> QED
      BY <2>5, <3>1, <3>2 DEF LinkInvariant
  <2>9. \A q \in Awaited' \ Awaited : q = o
    BY <2>1
  <2>10. \A i \in DOMAIN pending' : pending'[i] \in Awaited =>
            \E j \in DOMAIN pending : pending'[i] = pending[j]
    BY <1>5, <2>1, <2>4, <2>5, <2>7
  <2>11. pending' # <<>> /\ Last(pending') = o
    BY <2>4, <2>5 DEF Last
  <2> QED
    BY <1>7, <2>8, <2>9, <2>10, <2>11
<1> QED
  BY <1>6, <1>7

\* What a step that transmits does to the link.
LEMMA TransmitStep ==
    ASSUME TypeOK, TypeOK', LinkInvariant, Transmit,
           \/ \E m \in Missions : Launch(m) \/ VehicleTask(m) \/ TaskCancelled(m)
           \/ \E r \in Requests, op \in Operations, m \in Missions : VehicleCommand(r, op, m)
           \/ \E r \in Requests : VehicleReply(r)
    PROVE  /\ LinkInvariant'
           /\ \A i \in DOMAIN pending' : pending'[i] \in Awaited =>
                 \E j \in DOMAIN pending : pending'[i] = pending[j]
           /\ \A o \in Awaited' \ Awaited : pending' # <<>> /\ Last(pending') = o
           /\ Awaited' \subseteq Awaited =>
                /\ Forgotten = {} => pending' = pending
                /\ pending # <<>> /\ Last(pending) \in Awaited' =>
                      pending' # <<>> /\ Last(pending') = Last(pending)
<1>1. Awaited' \subseteq Orders
  <2>1. TypeOK' => (Awaited \subseteq Orders)'
    BY AwaitedAreOrders, PTL
  <2> QED
    BY <2>1
<1> QED
  BY <1>1, OneWaitAtATime, TransmitEffect

LEMMA LinkStep == ASSUME TypeOK, TypeOK', LinkInvariant, [VehicleNext]_vehicleVars PROVE LinkInvariant'
<1>1. CASE \/ \E m \in Missions : (Launch(m) /\ Transmit) \/ VehicleTask(m) \/ TaskCancelled(m)
           \/ \E r \in Requests, op \in Operations, m \in Missions : VehicleCommand(r, op, m)
           \/ \E r \in Requests : VehicleReply(r)
  <2>1. Transmit
    BY <1>1 DEF VehicleTask, TaskProceeds, TaskPolls, TaskRaises, TaskCancelled, VehicleCommand, VehicleReply
  <2> QED
    BY <1>1, <2>1, TransmitStep
<1>2. CASE Obeys
  <2>1. Awaited' = Awaited
    BY <1>2, NobodyWaits DEF Obeys, vars
  <2>2. pending \in Seq(Orders) /\ pending # <<>> /\ pending' = Tail(pending)
    BY <1>2 DEF Obeys, LinkInvariant
  <2>3. /\ pending' \in Seq(Orders) /\ DOMAIN pending' = 1 .. Len(pending) - 1 /\ Len(pending) \in Nat
        /\ \A i \in 1 .. Len(pending) - 1 : pending'[i] = pending[i + 1] /\ i + 1 \in DOMAIN pending
    BY <2>2
  <2>4. \A i \in DOMAIN pending' : pending'[i] \in Awaited'
    BY <2>1, <2>3 DEF LinkInvariant
  <2>5. ASSUME NEW i \in DOMAIN pending', NEW j \in DOMAIN pending', pending'[i] = pending'[j] PROVE i = j
    <3>1. i \in Nat /\ j \in Nat /\ i + 1 = j + 1
      BY <2>3, <2>5 DEF LinkInvariant
    <3> QED
      BY <3>1
  <2> QED
    BY <2>3, <2>4, <2>5 DEF LinkInvariant
<1>3. CASE Surroundings /\ UNCHANGED <<pending, disturbed>>
  <2>1. Awaited' = Awaited
    BY <1>3, NobodyWaits DEF Surroundings, FindingChanges, Shutdown, vars
  <2> QED
    BY <1>3, <2>1 DEF LinkInvariant
<1>4. CASE UNCHANGED vehicleVars
  <2>1. Awaited' = Awaited
    BY <1>4, NobodyWaits DEF vehicleVars, vars
  <2> QED
    BY <1>4, <2>1 DEF LinkInvariant, vehicleVars
<1> QED
  BY <1>1, <1>2, <1>3, <1>4 DEF VehicleNext

-----------------------------------------------------------------------------
(* The vehicle's types.                                                    *)

Modes == {"idle", "armed", "mission", "hold", "rtl", "land", "landed"}

\* VehicleTypeOK with what makes it inductive: the link carries awaited calls only.
VehicleTypeInvariant ==
    /\ LinkInvariant
    /\ mode \in Modes
    /\ airborne \in BOOLEAN /\ started \in BOOLEAN /\ paused \in BOOLEAN /\ disturbed \in BOOLEAN

LEMMA TypeStep ==
    ASSUME TypeOK, TypeOK', VehicleTypeInvariant, [VehicleNext]_vehicleVars
    PROVE  VehicleTypeInvariant'
<1>1. LinkInvariant'
  BY LinkStep DEF VehicleTypeInvariant
<1>2. ASSUME UNCHANGED aircraft
      PROVE  mode' \in Modes /\ airborne' \in BOOLEAN /\ started' \in BOOLEAN /\ paused' \in BOOLEAN
  BY <1>2 DEF VehicleTypeInvariant, aircraft
<1>3. ASSUME Advances
      PROVE  mode' \in Modes /\ airborne' \in BOOLEAN /\ started' \in BOOLEAN /\ paused' \in BOOLEAN
  <2>1. /\ mode' \in {mode, "landed"} /\ UNCHANGED <<started, paused>>
        /\ airborne' = FALSE \/ airborne' = airborne
    BY <1>3, Zenon DEF Advances, aircraft
  <2> QED
    BY <2>1 DEF VehicleTypeInvariant, Modes
<1>4. ASSUME NEW call, Does(call)
      PROVE  mode' \in Modes /\ airborne' \in BOOLEAN /\ started' \in BOOLEAN /\ paused' \in BOOLEAN
  BY <1>4 DEF VehicleTypeInvariant, Modes, Does, Uploads, Arms, Starts, Pauses, Returns, Lands
<1>5. mode' \in Modes /\ airborne' \in BOOLEAN /\ started' \in BOOLEAN /\ paused' \in BOOLEAN
  <2>1. UNCHANGED aircraft \/ Advances \/ Obeys
    BY DEF VehicleNext, VehicleTask, TaskProceeds, TaskPolls, TaskRaises, TaskCancelled, VehicleCommand,
           VehicleReply, Surroundings, vehicleVars
  <2> QED
    BY <1>2, <1>3, <1>4, <2>1 DEF Obeys
<1>6. disturbed' \in BOOLEAN
  <2>1. ASSUME NEW r \in Requests, NEW op \in Operations, NEW m \in Missions, VehicleCommand(r, op, m)
        PROVE  disturbed' \in BOOLEAN
    BY <2>1, Zenon DEF VehicleCommand
  <2>2. ASSUME NEW r \in Requests, VehicleReply(r) PROVE disturbed' \in BOOLEAN
    <3>1. disturbed' = disturbed \/ disturbed' = TRUE
      BY <2>2, Zenon DEF VehicleReply
    <3> QED
      BY <3>1 DEF VehicleTypeInvariant
  <2>3. ASSUME UNCHANGED disturbed PROVE disturbed' \in BOOLEAN
    BY <2>3 DEF VehicleTypeInvariant
  <2> QED
    BY <2>1, <2>2, <2>3
       DEF VehicleNext, VehicleTask, TaskProceeds, TaskPolls, TaskRaises, TaskCancelled, Obeys,
           vehicleVars
<1> QED
  BY <1>1, <1>5, <1>6 DEF VehicleTypeInvariant

LEMMA TypeInvariantHolds == VehicleSpec => []VehicleTypeInvariant
<1>1. VehicleInit => VehicleTypeInvariant
  <2> SUFFICES ASSUME VehicleInit PROVE VehicleTypeInvariant
    OBVIOUS
  <2>1. LinkInvariant
    BY DEF VehicleInit, LinkInvariant
  <2>2. mode \in Modes
    BY DEF VehicleInit, Modes
  <2>3. airborne \in BOOLEAN /\ started \in BOOLEAN /\ paused \in BOOLEAN /\ disturbed \in BOOLEAN
    BY Zenon DEF VehicleInit
  <2> QED
    BY <2>1, <2>2, <2>3 DEF VehicleTypeInvariant
<1>2. TypeOK /\ TypeOK' /\ VehicleTypeInvariant /\ [VehicleNext]_vehicleVars => VehicleTypeInvariant'
  BY TypeStep
<1>3. ExecutionInvariant => TypeOK
  BY DEF ExecutionInvariant
<1> QED
  BY <1>1, <1>2, <1>3, VehicleKeepsInvariant, PTL DEF VehicleSpec

\* What the vehicle and the link are is of the right type, for any number of
\* missions and requests (mock_adapter.py:9-110).
THEOREM VehicleTypeCorrect == VehicleSpec => []VehicleTypeOK
<1>1. VehicleTypeInvariant /\ OnRoute => VehicleTypeOK
  BY Zenon DEF VehicleTypeInvariant, LinkInvariant, OnRoute, VehicleTypeOK, Modes
<1> QED
  BY <1>1, TypeInvariantHolds, ProgressWithinRoute, PTL

-----------------------------------------------------------------------------
(* The last call.                                                          *)

\* What the mode of the vehicle says of the rest of it.
FlightInvariant ==
    /\ mode = "hold" => paused
    /\ mode \in {"mission", "landed"} => started /\ ~ paused
    /\ mode \in {"rtl", "land", "landed"} => ~ airborne

LEMMA ModeStep ==
    ASSUME VehicleTypeInvariant, FlightInvariant, [VehicleNext]_vehicleVars
    PROVE  FlightInvariant'
<1>1. ASSUME UNCHANGED aircraft PROVE FlightInvariant'
  BY <1>1 DEF aircraft, FlightInvariant
<1>2. ASSUME Advances PROVE FlightInvariant'
  <2>1. CASE ~ started \/ paused \/ total = 0
    BY <1>1, <1>2, <2>1 DEF Advances
  <2>2. CASE ~ (~ started \/ paused \/ total = 0)
    BY <1>2, <2>2, Zenon DEF Advances, FlightInvariant
  <2> QED
    BY <2>1, <2>2
<1>3. ASSUME NEW call, Does(call) PROVE FlightInvariant'
  BY <1>3 DEF FlightInvariant, Does, Uploads, Arms, Starts, Pauses, Returns, Lands
<1>4. UNCHANGED aircraft \/ Advances \/ Obeys
  BY DEF VehicleNext, VehicleTask, TaskProceeds, TaskPolls, TaskRaises, TaskCancelled, VehicleCommand,
         VehicleReply, Surroundings, vehicleVars
<1> QED
  BY <1>1, <1>2, <1>3, <1>4 DEF Obeys

\* The last call that a mission in the state is to get.
FinalOrder ==
    [executing |-> "start_mission", paused |-> "pause_mission", resuming |-> "start_mission",
     rtl |-> "return_to_launch", aborted |-> "land", completed |-> "return_to_launch"]

\* The modes it may be in when it has got it.
Reached(s) == IF s = "resuming" THEN {"mission", "landed"} ELSE Expected[s]

\* The last call on the link is the one that goes with the state, or, when the link
\* is empty, the vehicle is where that call brought it.
LastOrderStands(m) ==
    ~ disturbed =>
        /\ task[m] = "arming" => state[m] = "executing"
        /\ task[m] # "arming" /\ state[m] \in DOMAIN FinalOrder =>
              /\ pending = <<>> => mode \in Reached(state[m])
              /\ pending # <<>> => /\ Last(pending).call = FinalOrder[state[m]]
                                   /\ state[m] = "resuming" => Last(pending).by = "operator"

LEMMA FinalCases ==
    /\ DOMAIN FinalOrder = {"executing", "paused", "resuming", "rtl", "aborted", "completed"}
    /\ FinalOrder["executing"] = "start_mission" /\ FinalOrder["resuming"] = "start_mission"
    /\ FinalOrder["paused"] = "pause_mission" /\ FinalOrder["aborted"] = "land"
    /\ FinalOrder["rtl"] = "return_to_launch" /\ FinalOrder["completed"] = "return_to_launch"
    /\ Reached("executing") = {"mission", "landed"} /\ Reached("resuming") = {"mission", "landed"}
    /\ Reached("paused") = {"hold"} /\ Reached("aborted") = {"land", "landed"}
    /\ Reached("rtl") = {"rtl", "landed"} /\ Reached("completed") = {"rtl", "landed"}
BY DEF FinalOrder, Reached, Expected

\* Progress takes the vehicle to no other mode than its state allows.
LEMMA AdvanceReaches ==
    ASSUME FlightInvariant, Advances, NEW s \in DOMAIN FinalOrder, mode \in Reached(s)
    PROVE  mode' \in Reached(s)
<1>1. mode' = mode \/ (~ paused /\ mode' = "landed")
  <2>1. CASE ~ started \/ paused \/ total = 0
    BY <2>1 DEF Advances, aircraft
  <2>2. CASE ~ (~ started \/ paused \/ total = 0)
    <3>1. mode' = "landed" \/ mode' = mode
      BY <2>2 DEF Advances
    <3> QED
      BY <2>2, <3>1
  <2> QED
    BY <2>1, <2>2
<1>2. s = "paused" => paused
  BY FinalCases DEF FlightInvariant
<1> QED
  BY <1>1, <1>2, FinalCases

\* A call that is obeyed as the last one takes the vehicle where it belongs.
LEMMA ObeyReaches ==
    ASSUME NEW call, Does(call), NEW s \in DOMAIN FinalOrder, call = FinalOrder[s]
    PROVE  mode' \in Reached(s)
BY FinalCases DEF Does, Uploads, Arms, Starts, Pauses, Returns, Lands

\* There is one mission on the vehicle.
OneMission == \A m, n \in Missions : m = n

\* Whose call the last one is.
LEMMA LastOrder ==
    ASSUME OneMission, NEW m \in Missions, LinkInvariant, pending # <<>>
    PROVE  /\ Last(pending) \in Awaited
           /\ \/ task[m] \in DOMAIN CallOf /\ Last(pending) = TaskOrder(m)
              \/ \E c \in calls : Last(pending) = CommandOrder(c)
<1>1. Last(pending) \in Awaited
  BY DEF LinkInvariant, Last
<1> QED
  BY <1>1, AwaitedCases DEF OneMission

\* While the mission executes, the link is empty unless the executor has still to
\* start the vehicle: a resume whose call is under way has its mission in RESUMING.
LEMMA ExecutingLink ==
    ASSUME OneMission, NEW m \in Missions, ExecutionInvariant, LinkInvariant, LastOrderStands(m),
           ~ disturbed, state[m] = "executing", task[m] # "arming", pending # <<>>
    PROVE  task[m] = "starting" /\ Last(pending) = TaskOrder(m)
<1>1. Last(pending).call = "start_mission"
  BY FinalCases DEF LastOrderStands
<1>2. ASSUME NEW c \in calls, Last(pending) = CommandOrder(c) PROVE FALSE
  <2>1. c.op \in Operations /\ c.mission = m
    BY DEF ExecutionInvariant, TypeOK, Calls, OneMission
  <2>2. CommandCall[c.op] = "start_mission"
    BY <1>1, <1>2 DEF CommandOrder
  <2>3. c \in ResumesOf(m)
    BY <2>1, <2>2, CallCases DEF Operations, ResumesOf
  <2> QED
    BY <2>3 DEF ExecutionInvariant, ResumingIsOwned
<1>3. task[m] \in DOMAIN CallOf /\ Last(pending) = TaskOrder(m)
  BY <1>2, LastOrder
<1> QED
  BY <1>1, <1>3, CallCases DEF TaskOrder

\* The steps of the executor between its calls.
LEMMA ProceedsOrder ==
    ASSUME OneMission, NEW m \in Missions, ExecutionInvariant, TypeOK', LinkInvariant, LastOrderStands(m),
           TaskProceeds(m)
    PROVE  LastOrderStands(m)'
<1> USE DEF ExecutionInvariant, TypeOK
<1>1. /\ ExecutorStep(m) /\ TaskMoves(m) /\ UNCHANGED <<mode, disturbed>>
  BY TaskStepMoves DEF TaskProceeds, ExecutorStep, aircraft
<1>2. /\ \A o \in Awaited' \ Awaited : pending' # <<>> /\ Last(pending') = o
      /\ Awaited' \subseteq Awaited /\ Forgotten = {} => pending' = pending
  BY TransmitStep DEF TaskProceeds, VehicleTask
<1>3. Forgotten = {}
  <2>1. \A i \in DOMAIN pending : pending[i] \in Awaited /\ pending[i] # TaskOrder(m)
    BY DEF TaskProceeds, Obeyed, TaskOrder, LinkInvariant
  <2> QED
    BY <1>1, <2>1, TaskWaits DEF Forgotten
<1>4. \A o \in Awaited' \ Awaited : task'[m] \in DOMAIN CallOf /\ o = TaskOrder(m)'
  BY <1>1, TaskWaits
<1>5. CASE Begin(m) \/ Uploaded(m)
  <2>1. /\ task[m] \in {"created", "uploading"} /\ state[m] = "staging"
        /\ Uploaded(m) => state'[m] = "executing" /\ task'[m] = "arming"
        /\ Begin(m) => state'[m] = "staging" /\ task'[m] = "uploading"
    BY <1>5, TransitionCases DEF Begin, Uploaded, Suspend, TaskMatchesState
  <2> QED
    BY <1>5, <2>1, FinalCases DEF LastOrderStands
<1>6. CASE Armed(m)
  <2>1. task[m] = "arming" /\ task'[m] = "starting" /\ state'[m] = state[m]
    BY <1>6 DEF Armed, Suspend
  <2>2. TaskOrder(m)' \in Awaited' \ Awaited
    BY <1>1, <2>1, CallCases, TaskWaits
  <2>3. pending' # <<>> /\ Last(pending').call = "start_mission"
    BY <1>2, <2>1, <2>2, CallCases DEF TaskOrder
  <2> QED
    BY <1>1, <2>1, <2>3, FinalCases DEF LastOrderStands
<1>7. CASE EntersLoop(m) \/ Returned(m) \/ Exported(m) \/ ExportFailed(m)
  <2>1. /\ task[m] # "arming" /\ state'[m] = state[m]
        /\ task'[m] \in {"polling", "archiving", "done"}
    BY <1>7 DEF EntersLoop, LoopHead, Returned, Exported, ExportFailed, Suspend, Finish
  <2>2. pending' = pending
    BY <1>2, <1>3, <1>4, <2>1, CallCases
  <2> QED
    BY <1>1, <2>1, <2>2 DEF LastOrderStands
<1> QED
  BY <1>5, <1>6, <1>7 DEF TaskProceeds, Proceeds

\* A step in which a call of the executor raises, or that cancels it: what it waited
\* for is forgotten, and unless the mission has failed that was not the last call.
LEMMA GivesUpOrder ==
    ASSUME OneMission, NEW m \in Missions, ExecutionInvariant, TypeOK', LinkInvariant, LastOrderStands(m),
           TaskRaises(m) \/ TaskCancelled(m)
    PROVE  LastOrderStands(m)'
<1> USE DEF ExecutionInvariant, TypeOK
<1>1. TaskMoves(m) /\ UNCHANGED <<mode, disturbed>>
  BY TaskStepMoves DEF TaskRaises, TaskCancelled, ExecutorStep, aircraft
<1>2. /\ task[m] \in Running /\ task'[m] \in {"archiving", "done"}
      /\ \/ state'[m] = "failed"
         \/ state'[m] = state[m] /\ state[m] \notin {"staging", "executing", "rtl"}
         \/ state'[m] = state[m] /\ task[m] \in {"created", "archiving"}
  BY TransitionCases, TerminalCases
     DEF TaskRaises, TaskCancelled, Raises, SetupFailed, Crashed, Cancelled, Finish, Suspend, Running,
         FailIfNotTerminal, Attempt, IsTerminal, TaskPoints
<1>3. CASE state'[m] = "failed"
  BY <1>2, <1>3, FinalCases DEF LastOrderStands
<1>4. CASE state'[m] = state[m] /\ state[m] # "failed"
  <2>1. /\ \A o \in Awaited' \ Awaited : FALSE
        /\ \A o \in Awaited \ Awaited' : task[m] \in DOMAIN CallOf /\ o = TaskOrder(m)
    BY <1>1, <1>2, CallCases, TaskWaits
  <2>2. /\ Forgotten = {} => pending' = pending
        /\ pending # <<>> /\ Last(pending) \in Awaited' =>
              pending' # <<>> /\ Last(pending') = Last(pending)
    <3>1. Awaited' \subseteq Awaited
      BY <2>1
    <3> QED
      BY <3>1, TransmitStep DEF TaskRaises, TaskCancelled, VehicleTask
  <2>3. task[m] = "arming" => disturbed
    BY <1>2, <1>4 DEF LastOrderStands
  <2>4. CASE disturbed
    BY <1>1, <2>4 DEF LastOrderStands
  <2>5. CASE ~ disturbed /\ state[m] \notin DOMAIN FinalOrder
    BY <1>2, <1>4, <2>5 DEF LastOrderStands
  <2>6. CASE ~ disturbed /\ state[m] \in DOMAIN FinalOrder /\ pending = <<>>
    <3>1. Forgotten = {}
      BY <2>6 DEF Forgotten
    <3> QED
      BY <1>1, <1>2, <1>4, <2>2, <2>3, <2>6, <3>1 DEF LastOrderStands
  <2>7. CASE ~ disturbed /\ state[m] \in DOMAIN FinalOrder /\ pending # <<>>
    <3>1. /\ Last(pending) \in Awaited /\ Last(pending).call = FinalOrder[state[m]]
          /\ state[m] = "resuming" => Last(pending).by = "operator"
      BY <2>3, <2>7, LastOrder DEF LastOrderStands
    <3>2. task[m] \in DOMAIN CallOf => Last(pending) # TaskOrder(m)
      <4>1. task[m] \in DOMAIN CallOf =>
               task[m] \in {"uploading", "starting"} /\ state[m] \in {"paused", "resuming", "aborted", "completed"}
        BY <1>2, <1>4, <2>3, <2>7, CallCases, FinalCases DEF TaskMatchesState
      <4>2. TaskOrder(m).by = "executor" /\ TaskOrder(m).call = CallOf[task[m]]
        BY DEF TaskOrder
      <4> QED
        BY <3>1, <4>1, <4>2, CallCases, FinalCases
    <3>3. Last(pending) \in Awaited'
      BY <2>1, <3>1, <3>2
    <3> QED
      BY <1>1, <1>2, <1>4, <2>2, <2>3, <2>7, <3>3 DEF LastOrderStands
  <2> QED
    BY <2>4, <2>5, <2>6, <2>7
<1> QED
  BY <1>2, <1>3, <1>4

\* A poll is answered: the link is as it was, unless the guard sends the mission home.
LEMMA PollsOrder ==
    ASSUME OneMission, NEW m \in Missions, ExecutionInvariant, TypeOK', VehicleTypeInvariant,
           FlightInvariant, LastOrderStands(m), TaskPolls(m)
    PROVE  LastOrderStands(m)'
<1> USE DEF ExecutionInvariant, TypeOK
<1>1. /\ TaskMoves(m) /\ UNCHANGED disturbed
      /\ task[m] = "polling" /\ task'[m] \in {"archiving", "done", "returning", "sleeping"}
  <2>1. Polls(m) /\ UNCHANGED disturbed
    BY DEF TaskPolls, Completes, Polls
  <2>2. task[m] = "polling" /\ task'[m] \in {"archiving", "done", "returning", "sleeping"}
    BY <2>1 DEF Polls, ReachesEnd, GuardReturns, FliesOn, Finish, Suspend
  <2> QED
    BY <2>1, <2>2, TaskStepMoves DEF ExecutorStep
<1>2. /\ \A o \in Awaited' \ Awaited : pending' # <<>> /\ Last(pending') = o
      /\ Awaited' \subseteq Awaited /\ Forgotten = {} => pending' = pending
  BY TransmitStep DEF TaskPolls, VehicleTask, VehicleTypeInvariant
<1>3. CASE task'[m] = "returning"
  <2>1. state'[m] = "rtl"
    BY <1>3 DEF TaskPolls, Completes, ReachesEnd, GuardReturns, FliesOn, Finish, Suspend
  <2>2. TaskOrder(m)' \in Awaited' \ Awaited
    BY <1>1, <1>3, CallCases, TaskWaits
  <2>3. pending' # <<>> /\ Last(pending').call = "return_to_launch"
    BY <1>2, <1>3, <2>2, CallCases DEF TaskOrder
  <2> QED
    BY <1>3, <2>1, <2>3, FinalCases DEF LastOrderStands
<1>4. CASE task'[m] # "returning"
  <2>1. pending' = pending
    <3>1. Awaited' = Awaited
      BY <1>1, <1>4, CallCases, TaskWaits
    <3> QED
      BY <1>2, <3>1 DEF Forgotten, VehicleTypeInvariant, LinkInvariant
  <2>2. ASSUME NEW s \in DOMAIN FinalOrder, mode \in Reached(s) PROVE mode' \in Reached(s)
    <3>1. Advances \/ UNCHANGED aircraft
      BY DEF TaskPolls
    <3> QED
      BY <2>2, <3>1, AdvanceReaches DEF aircraft
  <2>3. CASE state'[m] = state[m]
    BY <1>1, <2>1, <2>2, <2>3 DEF LastOrderStands
  <2>4. CASE state'[m] # state[m]
    <3>1. ReachesEnd(m) /\ Advances /\ AtEnd'
      BY <1>4, <2>4 DEF TaskPolls, Completes, GuardReturns, FliesOn, Finish, Suspend
    <3>2. state[m] \in {"executing", "rtl"} /\ state'[m] = "completed"
      BY <2>4, <3>1, TransitionCases DEF ReachesEnd, Finish, Attempt
    <3>3. CASE disturbed
      BY <1>1, <3>3 DEF LastOrderStands
    <3>4. CASE ~ disturbed /\ state[m] = "rtl"
      BY <1>1, <2>1, <2>2, <3>2, <3>4, FinalCases DEF LastOrderStands
    <3>5. CASE ~ disturbed /\ state[m] = "executing"
      <4>1. pending = <<>>
        BY <1>1, <3>5, ExecutingLink DEF VehicleTypeInvariant
      <4>2. mode \in {"mission", "landed"}
        BY <1>1, <3>5, <4>1, FinalCases DEF LastOrderStands
      <4>3. started /\ ~ paused
        BY <4>2 DEF FlightInvariant
      <4>4. mode' = "landed"
        <5>1. total' > 0 /\ waypoint' >= total'
          BY <3>1 DEF AtEnd
        <5>2. total # 0
          BY <3>1, <5>1 DEF Advances, aircraft
        <5>3. total' = total /\ (waypoint' >= total => mode' = "landed")
          BY <3>1, <4>3, <5>2 DEF Advances
        <5> QED
          BY <5>1, <5>3
      <4> QED
        BY <1>1, <2>1, <3>2, <4>1, <4>4, FinalCases DEF LastOrderStands
    <3> QED
      BY <3>2, <3>3, <3>4, <3>5
  <2> QED
    BY <2>3, <2>4
<1> QED
  BY <1>3, <1>4

\* A command: its call is the last, and a command that overtakes the start of the
\* vehicle disturbs.
LEMMA CommandOrderStands ==
    ASSUME OneMission, NEW m \in Missions, ExecutionInvariant, TypeOK', LinkInvariant, LastOrderStands(m),
           NEW r \in Requests, NEW op \in Operations, VehicleCommand(r, op, m)
    PROVE  LastOrderStands(m)'
<1> DEFINE c == [req |-> r, op |-> op, mission |-> m]
<1>1. /\ task' = task /\ state'[m] = Target[op]
      /\ ~ disturbed' => ~ disturbed /\ task[m] # "arming"
  BY DEF VehicleCommand, Command, ExecutionInvariant, TypeOK
<1>2. Awaited' \ Awaited = {CommandOrder(c)}
  BY CommandWaits DEF VehicleCommand
<1>3. pending' # <<>> /\ Last(pending') = CommandOrder(c)
  BY <1>2, TransmitStep DEF VehicleCommand, ExecutionInvariant
<1>4. FinalOrder[Target[op]] = CommandCall[op] /\ Target[op] \in DOMAIN FinalOrder
  BY CallCases, FinalCases DEF Operations, Target
<1>5. Last(pending').by = "operator" /\ Last(pending').call = CommandCall[op]
  BY <1>3 DEF CommandOrder
<1> QED
  BY <1>1, <1>3, <1>4, <1>5 DEF LastOrderStands

\* A command is answered: what it asked for is done, or the failure disturbs.
LEMMA ReplyOrder ==
    ASSUME OneMission, NEW m \in Missions, ExecutionInvariant, TypeOK', LinkInvariant, LastOrderStands(m),
           NEW r \in Requests, VehicleReply(r)
    PROVE  LastOrderStands(m)'
<1>1. CASE disturbed'
  BY <1>1 DEF LastOrderStands
<1>2. CASE ~ disturbed'
  <2>1. /\ UNCHANGED <<disturbed, aircraft>> /\ Obeyed(<<"operator", r>>)
        /\ \E c \in calls : c.req = r /\ (Answered(c) \/ Resumed(c))
    BY <1>2 DEF VehicleReply
  <2>2. PICK c \in calls : c.req = r /\ (Answered(c) \/ Resumed(c))
    BY <2>1
  <2>3. \A i \in DOMAIN pending : pending[i] # CommandOrder(c)
    BY <2>1, <2>2 DEF Obeyed, CommandOrder
  <2>4. pending' = pending
    <3>1. Awaited' \subseteq Awaited /\ Forgotten = {}
      BY <2>2, <2>3, ReplyWaits DEF Forgotten, LinkInvariant
    <3> QED
      BY <3>1, TransmitStep DEF VehicleReply, ExecutionInvariant
  <2>5. CASE Answered(c)
    BY <2>1, <2>4, <2>5 DEF Answered, LastOrderStands, aircraft
  <2>6. CASE Resumed(c)
    <3>1. c.mission = m /\ c \in ResumesOf(m)
      BY <2>6 DEF Resumed, ResumesOf, ExecutionInvariant, TypeOK, Calls, OneMission
    <3>2. state[m] = "resuming" /\ \A d \in ResumesOf(m) : d = c
      BY <3>1 DEF ExecutionInvariant, ResumingIsOwned
    <3>3. state'[m] = "executing" /\ task' = task
      BY <2>6, <3>1, <3>2, TransitionCases DEF Resumed, Attempt, ExecutionInvariant, TypeOK
    <3>4. task[m] # "arming"
      BY <1>2, <2>1, <3>2 DEF LastOrderStands
    <3>5. pending = <<>>
      <4>1. SUFFICES ASSUME pending # <<>> PROVE FALSE
        OBVIOUS
      <4>2. Last(pending).call = "start_mission" /\ Last(pending).by = "operator"
        BY <1>2, <2>1, <3>2, <3>4, <4>1, FinalCases DEF LastOrderStands
      <4>3. PICK d \in calls : Last(pending) = CommandOrder(d)
        BY <4>1, <4>2, LastOrder DEF TaskOrder
      <4>4. d \in ResumesOf(m)
        <5>1. CommandCall[d.op] = "start_mission" /\ d.op \in Operations /\ d.mission = m
          BY <4>2, <4>3 DEF CommandOrder, ExecutionInvariant, TypeOK, Calls, OneMission
        <5> QED
          BY <5>1, CallCases DEF Operations, ResumesOf
      <4> QED
        BY <2>3, <3>2, <4>1, <4>3, <4>4 DEF LinkInvariant, Last
    <3> QED
      BY <1>2, <2>1, <2>4, <3>2, <3>3, <3>4, <3>5, FinalCases DEF LastOrderStands, aircraft
  <2> QED
    BY <2>2, <2>5, <2>6
<1> QED
  BY <1>1, <1>2

\* A call takes effect: if it was the last, the vehicle is where it belongs.
LEMMA ObeysOrder ==
    ASSUME NEW m \in Missions, LinkInvariant, LastOrderStands(m), Obeys
    PROVE  LastOrderStands(m)'
<1>1. /\ UNCHANGED <<vars, disturbed>> /\ pending # <<>> /\ pending' = Tail(pending)
      /\ pending \in Seq(Orders)
  BY DEF Obeys, LinkInvariant
<1>2. Len(pending) \in Nat \ {0}
  BY <1>1
<1>3. CASE Len(pending) = 1
  <2>1. pending' = <<>> /\ Head(pending) = Last(pending)
    BY <1>1, <1>3 DEF Last
  <2>2. \A s \in DOMAIN FinalOrder : Last(pending).call = FinalOrder[s] => mode' \in Reached(s)
    BY <2>1, ObeyReaches DEF Obeys
  <2> QED
    BY <1>1, <2>1, <2>2 DEF LastOrderStands, vars
<1>4. CASE Len(pending) # 1
  <2>1. pending' # <<>> /\ Last(pending') = Last(pending)
    <3> DEFINE n == Len(pending)
    <3>1. n - 1 \in 1 .. n - 1 /\ n = (n - 1) + 1
      BY <1>2, <1>4
    <3>2. Len(pending') = n - 1 /\ \A i \in 1 .. n - 1 : pending'[i] = pending[i + 1]
      BY <1>1
    <3>3. pending'[n - 1] = pending[n] /\ pending' # <<>>
      BY <3>1, <3>2
    <3> QED
      BY <3>2, <3>3 DEF Last
  <2> QED
    BY <1>1, <2>1 DEF LastOrderStands, vars
<1> QED
  BY <1>3, <1>4

LEMMA OrderStep ==
    ASSUME OneMission, NEW m \in Missions, ExecutionInvariant, TypeOK', VehicleTypeInvariant, FlightInvariant,
           LastOrderStands(m), [VehicleNext]_vehicleVars
    PROVE  LastOrderStands(m)'
<1>1. ASSUME NEW n \in Missions, Launch(n), Transmit PROVE LastOrderStands(m)'
  <2>1. n = m /\ state'[m] = "staging" /\ task'[m] = "created"
    BY <1>1 DEF Launch, Suspend, ExecutionInvariant, TypeOK, OneMission
  <2> QED
    BY <2>1, FinalCases DEF LastOrderStands
<1>2. ASSUME NEW n \in Missions, VehicleTask(n) \/ TaskCancelled(n) PROVE LastOrderStands(m)'
  <2>1. n = m
    BY DEF OneMission
  <2> QED
    BY <1>2, <2>1, ProceedsOrder, PollsOrder, GivesUpOrder DEF VehicleTask, VehicleTypeInvariant
<1>3. ASSUME NEW r \in Requests, NEW op \in Operations, NEW n \in Missions, VehicleCommand(r, op, n)
      PROVE  LastOrderStands(m)'
  <2>1. n = m
    BY DEF OneMission
  <2> QED
    BY <1>3, <2>1, CommandOrderStands DEF VehicleTypeInvariant
<1>4. ASSUME NEW r \in Requests, VehicleReply(r) PROVE LastOrderStands(m)'
  BY <1>4, ReplyOrder DEF VehicleTypeInvariant
<1>5. CASE Obeys
  BY <1>5, ObeysOrder DEF VehicleTypeInvariant
<1>6. CASE Surroundings /\ UNCHANGED <<pending, disturbed>>
  <2>1. UNCHANGED <<state, task, pending, disturbed>>
    BY <1>6 DEF Surroundings, FindingChanges, Shutdown, vars
  <2>2. ASSUME NEW s \in DOMAIN FinalOrder, mode \in Reached(s) PROVE mode' \in Reached(s)
    BY <1>6, <2>2, AdvanceReaches DEF Surroundings, aircraft
  <2> QED
    BY <2>1, <2>2 DEF LastOrderStands
<1>7. CASE UNCHANGED vehicleVars
  BY <1>7 DEF vehicleVars, vars, aircraft, LastOrderStands
<1> QED
  BY <1>1, <1>2, <1>3, <1>4, <1>5, <1>6, <1>7 DEF VehicleNext

\* What makes OrdersAgree inductive: what is said of the last call holds with calls
\* under way, and in RESUMING, as well.
OrderInvariant == FlightInvariant /\ \A m \in Missions : LastOrderStands(m)

LEMMA OrderInvariantHolds == ASSUME OneMission PROVE VehicleSpec => []OrderInvariant
<1>1. VehicleInit => OrderInvariant
  BY FinalCases DEF VehicleInit, Init, InitFrom, OrderInvariant, FlightInvariant, LastOrderStands
<1>2. /\ ExecutionInvariant /\ ExecutionInvariant' /\ VehicleTypeInvariant /\ OrderInvariant
      /\ [VehicleNext]_vehicleVars
      => OrderInvariant'
  BY OrderStep, ModeStep DEF OrderInvariant, ExecutionInvariant
<1> QED
  BY <1>1, <1>2, VehicleKeepsInvariant, TypeInvariantHolds, PTL DEF VehicleSpec

\* With one mission on the vehicle, and unless a command came between arm() and the
\* start or failed, the vehicle does what the store says whenever no call is under
\* way, for any number of operator requests in any order (commands.py:37-61,
\* executor.py:104-151).
THEOREM OrdersStand == ASSUME OneMission PROVE VehicleSpec => []OrdersAgree
<1>1. ExecutionInvariant /\ VehicleTypeInvariant /\ OrderInvariant => OrdersAgree
  <2> SUFFICES ASSUME ExecutionInvariant, VehicleTypeInvariant, OrderInvariant, NEW m \in Missions,
                      Awaited = {}, ~ disturbed, state[m] \in DOMAIN Expected
               PROVE  /\ mode \in Expected[state[m]]
                      /\ state[m] \in {"rtl", "aborted", "completed"} => ~ airborne
    BY DEF OrdersAgree
  <2>1. pending = <<>>
    BY LastOrder, EmptySeq DEF VehicleTypeInvariant, LinkInvariant
  <2>2. task[m] # "arming"
    BY AwaitedCases, CallCases
  <2>3. state[m] \in DOMAIN FinalOrder /\ state[m] # "resuming"
    BY DEF Expected, FinalOrder
  <2>4. mode \in Expected[state[m]]
    BY <2>1, <2>2, <2>3 DEF OrderInvariant, LastOrderStands, Reached
  <2> QED
    BY <2>3, <2>4, FinalCases DEF OrderInvariant, FlightInvariant, Reached
<1> QED
  BY <1>1, OrderInvariantHolds, VehicleKeepsInvariant, TypeInvariantHolds, PTL

-----------------------------------------------------------------------------
(* Down for good.                                                          *)

\* The states without a way back to flight.
Over == {"rtl"} \cup TerminalStates

\* Every mission is over, the vehicle is on the ground, and nothing that would start
\* it is on the link or still to be sent.
Grounded ==
    /\ ~ airborne
    /\ \A m \in Missions : state[m] \in Over /\ task[m] # "arming"
    /\ \A i \in DOMAIN pending : pending[i].call # "start_mission"

LEMMA OverStays == \A s, t : s \in Over /\ CanTransition(s, t) => t \in Over
BY TransitionCases, TerminalCases DEF Over

\* No step takes a mission that is over back, brings its task to the call of arm()
\* or starts waiting for a start of the vehicle.
LEMMA OverStep ==
    ASSUME ExecutionInvariant, TypeOK', Grounded, [VehicleNext]_vehicleVars
    PROVE  /\ \A m \in Missions : state'[m] \in Over /\ task'[m] # "arming"
           /\ \A o \in Awaited' \ Awaited : o.call # "start_mission"
<1> USE DEF ExecutionInvariant, TypeOK
<1>1. ASSUME NEW m \in Missions, Launch(m) PROVE FALSE
  BY <1>1, TransitionCases, TerminalCases DEF Launch, Grounded, Over
<1>2. ASSUME NEW m \in Missions, VehicleTask(m) \/ TaskCancelled(m)
      PROVE  /\ \A n \in Missions : state'[n] \in Over /\ task'[n] # "arming"
             /\ \A o \in Awaited' \ Awaited : o.call # "start_mission"
  <2>1. ExecutorStep(m) \/ Cancelled(m)
    BY <1>2 DEF VehicleTask, TaskProceeds, TaskPolls, Completes, TaskRaises, TaskCancelled, ExecutorStep, Polls
  <2>2. TaskMoves(m)
    BY <2>1, TaskStepMoves
  <2>3. /\ \A n \in Missions : n # m => state'[n] = state[n]
        /\ state'[m] = state[m] \/ CanTransition(state[m], state'[m])
        /\ task'[m] \notin {"arming", "starting"}
    <3>1. state[m] \in Over /\ task[m] # "arming" /\ ~ CanTransition(state[m], "executing")
      BY TransitionCases, TerminalCases DEF Grounded, Over
    <3> QED
      BY <2>1, <3>1
         DEF ExecutorStep, Proceeds, Polls, Raises, Cancelled, Begin, Uploaded, SetupFailed, Armed,
             EntersLoop, LoopHead, ReachesEnd, GuardReturns, FliesOn, Crashed, Returned, Exported,
             ExportFailed, Finish, Suspend, FailIfNotTerminal, Attempt
  <2>4. \A n \in Missions : state'[n] \in Over /\ task'[n] # "arming"
    BY <2>2, <2>3, OverStays DEF TaskMoves, Grounded
  <2>5. ASSUME NEW o \in Awaited', o \notin Awaited PROVE o.call # "start_mission"
    <3>1. \A q \in Awaited' \ Awaited : task'[m] \in DOMAIN CallOf /\ q = TaskOrder(m)'
      BY <2>2, TaskWaits
    <3>2. task'[m] \in DOMAIN CallOf /\ o.call = CallOf[task'[m]]
      BY <2>5, <3>1 DEF TaskOrder
    <3> QED
      BY <2>3, <3>2, CallCases
  <2> QED
    BY <2>4, <2>5
<1>3. ASSUME NEW r \in Requests, NEW op \in Operations, NEW m \in Missions, VehicleCommand(r, op, m)
      PROVE  FALSE
  <2>1. Target[op] \in {"paused", "resuming", "rtl", "aborted"}
    BY DEF Target, Operations
  <2> QED
    BY <1>3, <2>1, TransitionCases, TerminalCases DEF VehicleCommand, Command, Grounded, Over
<1>4. ASSUME NEW r \in Requests, VehicleReply(r)
      PROVE  /\ \A n \in Missions : state'[n] \in Over /\ task'[n] # "arming"
             /\ \A o \in Awaited' \ Awaited : o.call # "start_mission"
  <2>1. PICK c \in calls : Answered(c) \/ Resumed(c) \/ ResumeFailed(c)
    BY <1>4 DEF VehicleReply
  <2>2. state' = state /\ task' = task
    <3>1. ~ CanTransition(state[c.mission], "executing")
      BY TransitionCases, TerminalCases DEF Grounded, Over, Calls
    <3> QED
      BY <2>1, <3>1 DEF Answered, Resumed, ResumeFailed, Attempt, AfterFailedResume
  <2> QED
    BY <2>1, <2>2, ReplyWaits DEF Grounded
<1>5. CASE Obeys \/ Surroundings \/ UNCHANGED vehicleVars
  <2>1. UNCHANGED <<state, task, calls>>
    BY <1>5 DEF Obeys, Surroundings, FindingChanges, Shutdown, vars, vehicleVars
  <2> QED
    BY <2>1, NobodyWaits DEF Grounded
<1> QED
  BY <1>1, <1>2, <1>3, <1>4, <1>5 DEF VehicleNext

\* A vehicle that is down, with every mission over and no start on the link, never
\* flies again: no late answer, failure, cancelled task, guard or duplicate command
\* starts it, for any missions and requests (executor.py:104-158, commands.py:37-193).
THEOREM GroundedForGood == VehicleSpec => [][Grounded => Grounded']_vehicleVars
<1>1. ASSUME ExecutionInvariant, TypeOK', VehicleTypeInvariant, Grounded, [VehicleNext]_vehicleVars
      PROVE  Grounded'
  <2>1. /\ \A m \in Missions : state'[m] \in Over /\ task'[m] # "arming"
        /\ \A o \in Awaited' \ Awaited : o.call # "start_mission"
    BY <1>1, OverStep
  <2>2. LinkInvariant /\ LinkInvariant' /\ TypeOK
    BY <1>1, LinkStep DEF VehicleTypeInvariant, ExecutionInvariant
  <2>3. CASE Obeys
    <3>1. pending \in Seq(Orders) /\ pending # <<>> /\ pending' = Tail(pending)
      BY <2>2, <2>3 DEF Obeys, LinkInvariant
    <3>2. /\ 1 \in DOMAIN pending /\ Head(pending) = pending[1]
          /\ \A i \in DOMAIN pending' : i + 1 \in DOMAIN pending /\ pending'[i] = pending[i + 1]
      BY <3>1
    <3>3. ~ airborne'
      <4>1. Head(pending).call # "start_mission"
        BY <1>1, <3>2 DEF Grounded
      <4> QED
        BY <1>1, <2>3, <4>1 DEF Grounded, Obeys, Does, Uploads, Arms, Pauses, Returns, Lands
    <3> QED
      BY <1>1, <2>1, <3>2, <3>3 DEF Grounded
  <2>4. CASE ~ Obeys
    <3>1. ~ airborne'
      <4>1. ASSUME Advances PROVE ~ airborne'
        <5>1. airborne' = FALSE \/ airborne' = airborne
          BY <4>1, Zenon DEF Advances, aircraft
        <5> QED
          BY <1>1, <5>1 DEF Grounded
      <4>2. UNCHANGED aircraft \/ Advances
        BY <1>1, <2>4
           DEF VehicleNext, VehicleTask, TaskProceeds, TaskPolls, TaskRaises, TaskCancelled, VehicleCommand,
               VehicleReply, Surroundings, vehicleVars
      <4> QED
        BY <1>1, <4>1, <4>2 DEF aircraft, Grounded
    <3>2. \A i \in DOMAIN pending' : pending'[i] \in Awaited =>
             \E j \in DOMAIN pending : pending'[i] = pending[j]
      <4>1. CASE UNCHANGED pending
        BY <4>1
      <4>2. CASE /\ Transmit
                 /\ \/ \E m \in Missions : Launch(m) \/ VehicleTask(m) \/ TaskCancelled(m)
                    \/ \E r \in Requests, op \in Operations, m \in Missions : VehicleCommand(r, op, m)
                    \/ \E r \in Requests : VehicleReply(r)
        BY <1>1, <2>2, <4>2, TransmitStep
      <4> QED
        BY <1>1, <2>4, <4>1, <4>2
           DEF VehicleNext, VehicleTask, TaskProceeds, TaskPolls, TaskRaises, TaskCancelled, VehicleCommand,
               VehicleReply, vehicleVars
    <3>3. ASSUME NEW i \in DOMAIN pending' PROVE pending'[i].call # "start_mission"
      <4>1. pending'[i] \in Awaited'
        BY <2>2 DEF LinkInvariant
      <4> QED
        BY <1>1, <2>1, <3>2, <4>1 DEF Grounded
    <3> QED
      BY <2>1, <3>1, <3>3 DEF Grounded
  <2> QED
    BY <2>3, <2>4
<1>2. ExecutionInvariant => TypeOK
  BY DEF ExecutionInvariant
<1> QED
  BY <1>1, <1>2, VehicleKeepsInvariant, TypeInvariantHolds, PTL DEF VehicleSpec

\* When the link has been emptied, a mission that was sent home, aborted or completed
\* is one whose vehicle is down for good, unless a call disturbed the order: the
\* safety half of SafetyCommandsLand, which adds only that the link is emptied.
THEOREM HomeIsGrounded ==
    ASSUME OneMission
    PROVE  VehicleSpec => [](\A m \in Missions :
               state[m] \in {"rtl", "aborted", "completed"} /\ pending = <<>> /\ ~ disturbed => Grounded)
<1>1. ExecutionInvariant /\ OrderInvariant => \A m \in Missions :
          state[m] \in {"rtl", "aborted", "completed"} /\ pending = <<>> /\ ~ disturbed => Grounded
  <2> SUFFICES ASSUME ExecutionInvariant, OrderInvariant, NEW m \in Missions, ~ disturbed,
                      state[m] \in {"rtl", "aborted", "completed"}, pending = <<>>
               PROVE  Grounded
    OBVIOUS
  <2>1. task[m] # "arming" /\ mode \in Reached(state[m])
    BY FinalCases DEF OrderInvariant, LastOrderStands
  <2>2. ~ airborne
    BY <2>1, FinalCases DEF OrderInvariant, FlightInvariant
  <2>3. state[m] \in Over
    BY TerminalCases DEF Over
  <2> QED
    BY <2>1, <2>2, <2>3 DEF Grounded, OneMission
<1> QED
  BY <1>1, OrderInvariantHolds, VehicleKeepsInvariant, PTL

=============================================================================
