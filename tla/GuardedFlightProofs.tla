------------------------- MODULE GuardedFlightProofs -------------------------
(***************************************************************************)
(* MissionExecution under its guard is MissionExecution, for any missions, *)
(* requests and limits; and the record of a mission is closed before it is *)
(* exported.                                                               *)
(***************************************************************************)
EXTENDS GuardedFlight, MissionExecutionProofs

\* What the guard says is one of the findings.
LEMMA CheckIsFinding == \A sample, t : Check(sample, t) \in Findings
BY VerdictAssumption DEF Check

\* A step of the collector, of the clock or of the vehicle changes findings only.
LEMMA SensedStep == ASSUME NEW ACTION A, Sensed(A) PROVE [Next]_vars
<1>1. finding' \in [Missions -> Findings]
  BY CheckIsFinding DEF Sensed, Finds, Verdict
<1>2. CASE finding' = finding
  BY <1>2 DEF Sensed, vars
<1>3. CASE finding' # finding
  BY <1>1, <1>3 DEF Sensed, Next, FlightStep, FindingChanges
<1> QED
  BY <1>2, <1>3

\* The guard and the collector take no step that MissionExecution does not allow.
LEMMA GuardedStep == [GuardedNext]_guardedVars => [Next]_vars
<1> SUFFICES ASSUME [GuardedNext]_guardedVars PROVE [Next]_vars
  OBVIOUS
<1>1. ASSUME NEW m \in Missions, Handled(Launch(m)) \/ GuardedTask(m) \/ LoopCloses(m)
      PROVE  Next
  BY <1>1 DEF Handled, GuardedTask, LoopCloses, Next, FlightStep
<1>2. ASSUME NEW r \in Requests, NEW op \in Operations, NEW m \in Missions,
             Handled(Command(r, op, m))
      PROVE  Next
  BY <1>2 DEF Handled, Next, FlightStep
<1>3. ASSUME NEW r \in Requests, GuardedReply(r) PROVE Next
  BY <1>3 DEF Handled, GuardedReply, Next, FlightStep
<1>4. CASE Handled(Shutdown)
  BY <1>4 DEF Handled, Next, FlightStep
<1>5. CASE CollectorRuns \/ LifespanEnds \/ Sensed(ConditionChanges /\ UNCHANGED elapsed) \/ Tick
  BY <1>5, SensedStep DEF CollectorRuns, LifespanEnds, Tick
<1>6. CASE UNCHANGED guardedVars
  BY <1>6 DEF guardedVars
<1> QED
  BY <1>1, <1>2, <1>3, <1>4, <1>5, <1>6 DEF GuardedNext

\* A mission under the guard does what MissionExecution says, whose findings may
\* change at any time: so all that is proved there holds here
\* (executor.py:138-156, safety_guard.py:20-75).
THEOREM GuardedImplementsExecution == GuardedSpec => Spec
<1>1. GuardedInit => Init
  BY DEF GuardedInit
<1> QED
  BY <1>1, GuardedStep, PTL DEF GuardedSpec, Spec

-----------------------------------------------------------------------------

\* GuardedTypeOK without what is MissionExecution's.
TelemetryTypeOK ==
    /\ CollectorTypeOK
    /\ samples \in [Missions -> 0 .. 1]
    /\ own \subseteq Missions
    /\ elapsed \in [Missions -> 0 .. Timeout + 1]

LEMMA OlderInRange ==
    \A limit \in Nat : \A age \in 0 .. limit + 1 : Older(age, limit) \in 0 .. limit + 1
BY DEF Older

LEMMA TelemetryTypeInit == GuardedInit => TelemetryTypeOK
<1> SUFFICES ASSUME GuardedInit PROVE TelemetryTypeOK
  OBVIOUS
<1>1. CollectorTypeOK
  BY DEF GuardedInit, CollectorInit, CollectorTypeOK, Phases, Reading, Healths
<1>2. 0 \in 0 .. Timeout + 1
  BY GuardAssumption
<1> QED
  BY <1>1, <1>2 DEF GuardedInit, TelemetryTypeOK

LEMMA TelemetryTypeStep == TelemetryTypeOK /\ [GuardedNext]_guardedVars => TelemetryTypeOK'
<1> SUFFICES ASSUME TelemetryTypeOK, [GuardedNext]_guardedVars PROVE TelemetryTypeOK'
  OBVIOUS
<1> USE GuardAssumption DEF TelemetryTypeOK, CollectorTypeOK, Phases, Reading, Healths, Samples, NoSample
<1>1. CASE UNCHANGED surroundings
  BY <1>1 DEF surroundings, collectorVars
<1>2. CASE CollectorRuns
  <2>1. UNCHANGED <<own, elapsed>> /\ CollectorStep(Active)
    BY <1>2 DEF CollectorRuns, Sensed
  <2>2. CASE BeginsRound \/ SensesHealth \/ ReadFails
    BY <2>1, <2>2 DEF BeginsRound, SensesHealth, ReadFails, EndsRound
  <2>3. CASE Stores(Active)
    <3>1. cache' \in Samples
      BY <2>3 DEF Stores
    <3>2. samples' \in [Missions -> 0 .. 1]
      <4>1. Active \subseteq Missions
        BY DEF Active
      <4> QED
        BY <2>3, <4>1 DEF Stores
    <3> QED
      BY <2>1, <2>3, <3>1, <3>2 DEF Stores, EndsRound
  <2> QED
    BY <2>1, <2>2, <2>3 DEF CollectorStep
<1>3. CASE LifespanEnds
  BY <1>3 DEF LifespanEnds, Sensed, Stops
<1>4. CASE Sensed(ConditionChanges /\ UNCHANGED elapsed)
  BY <1>4 DEF Sensed, ConditionChanges
<1>5. CASE Tick
  <2>1. UNCHANGED <<own, condition, phase, draft, samples, stopping>> /\ SampleAges /\ ClockRuns
    BY <1>5 DEF Tick, Sensed, SampleAges
  <2>2. cache' \in Samples \cup {NoSample}
    <3>1. CASE cache = NoSample
      BY <2>1, <3>1 DEF SampleAges
    <3>2. CASE cache # NoSample
      <4>1. cache \in Samples /\ cache.age \in 0 .. Freshness + 1
        BY <3>2
      <4>2. cache' = [cache EXCEPT !.age = Older(cache.age, Freshness)]
        BY <2>1, <3>2 DEF SampleAges
      <4> QED
        BY <4>1, <4>2, OlderInRange
    <3> QED
      BY <3>1, <3>2
  <2>3. elapsed' \in [Missions -> 0 .. Timeout + 1]
    BY <2>1, OlderInRange DEF ClockRuns
  <2> QED
    BY <2>1, <2>2, <2>3
<1> QED
  BY <1>1, <1>2, <1>3, <1>4, <1>5
     DEF GuardedNext, Handled, GuardedTask, LoopCloses, GuardedReply, guardedVars

\* Type correctness of executor, collector, cache and clock.
THEOREM GuardedTypeCorrect == GuardedSpec => []GuardedTypeOK
<1>1. TypeOK /\ TelemetryTypeOK => GuardedTypeOK
  BY DEF TelemetryTypeOK, GuardedTypeOK
<1> QED
  BY <1>1, TelemetryTypeInit, TelemetryTypeStep, GuardedImplementsExecution, TypeCorrect, PTL DEF GuardedSpec

-----------------------------------------------------------------------------

\* No sample is added to a record that is being exported or has been, and none
\* to the record of a mission of another vehicle: the states in which a mission
\* is active are not terminal, and a mission whose task exports is in a terminal
\* one (telemetry_collector.py:35-37, executor.py:53-59).
THEOREM RecordsCloseAtExport == GuardedSpec => RecordClosedAtExport
<1> DEFINE Closed == \A m \in Missions :
                       samples'[m] # samples[m] =>
                           /\ m \in own
                           /\ task[m] # "archiving" /\ archived[m] = "nothing"
<1>1. ExecutionInvariant /\ TelemetryTypeOK /\ [GuardedNext]_guardedVars => [Closed]_guardedVars
  <2> SUFFICES ASSUME ExecutionInvariant, TelemetryTypeOK, GuardedNext,
                      NEW m \in Missions, samples'[m] # samples[m]
               PROVE  m \in own /\ task[m] # "archiving" /\ archived[m] = "nothing"
    OBVIOUS
  <2>1. CollectorRuns /\ Stores(Active)
    BY DEF GuardedNext, Handled, GuardedTask, LoopCloses, GuardedReply, surroundings, collectorVars,
           CollectorRuns, LifespanEnds, Tick, Sensed, CollectorStep, BeginsRound, SensesHealth,
           ReadFails, Stops, ConditionChanges, SampleAges
  <2>2. m \in Active
    BY <2>1 DEF Stores, TelemetryTypeOK
  <2>3. m \in own /\ ~ IsTerminal(state[m])
    BY <2>2, TerminalCases DEF Active, ActiveStates, IsTerminal
  <2> QED
    BY <2>3 DEF ExecutionInvariant, TaskMatchesState, LastWord
<1> QED
  BY <1>1, TelemetryTypeInit, TelemetryTypeStep, GuardedImplementsExecution, ExecutionInvariantHolds, PTL
     DEF GuardedSpec, RecordClosedAtExport

-----------------------------------------------------------------------------
(* What the guard acts on.                                                 *)

\* What the executor is told is what the guard would say now, of the sample that is
\* cached now: nothing is left over from an earlier sample.
FindingsFollow == finding = [m \in Missions |-> Verdict(m)]

LEMMA FindingsFollowStep == FindingsFollow /\ [GuardedNext]_guardedVars => FindingsFollow'
<1> SUFFICES ASSUME FindingsFollow, [GuardedNext]_guardedVars PROVE FindingsFollow'
  OBVIOUS
<1>1. CASE Finds
  BY <1>1 DEF Finds, FindingsFollow
<1>2. CASE UNCHANGED <<finding, surroundings>>
  <2>1. \A m \in Missions : Verdict(m)' = Verdict(m)
    BY <1>2 DEF Verdict, surroundings, collectorVars
  <2> QED
    BY <1>2, <2>1 DEF FindingsFollow
<1>3. ASSUME NEW m \in Missions, Handled(Launch(m)) \/ GuardedTask(m) \/ LoopCloses(m)
      PROVE  UNCHANGED <<finding, surroundings>>
  BY <1>3
     DEF Handled, GuardedTask, LoopCloses, Launch, ExecutorStep, Proceeds, Polls, Raises, Cancelled, Begin,
         Uploaded, SetupFailed, Armed, EntersLoop, LoopHead, ReachesEnd, GuardReturns, FliesOn, Crashed,
         Returned, Exported, ExportFailed
<1>4. ASSUME NEW r \in Requests, NEW op \in Operations, NEW m \in Missions, Handled(Command(r, op, m))
      PROVE  UNCHANGED <<finding, surroundings>>
  BY <1>4 DEF Handled, Command
<1>5. ASSUME NEW r \in Requests, GuardedReply(r) PROVE UNCHANGED <<finding, surroundings>>
  BY <1>5 DEF GuardedReply, Handled, Reply, Answered, Resumed, ResumeFailed
<1>6. Handled(Shutdown) \/ UNCHANGED guardedVars => UNCHANGED <<finding, surroundings>>
  BY DEF Handled, Shutdown, guardedVars, vars
<1>7. CollectorRuns \/ LifespanEnds \/ Sensed(ConditionChanges /\ UNCHANGED elapsed) \/ Tick => Finds
  BY DEF CollectorRuns, LifespanEnds, Tick, Sensed
<1> QED
  BY <1>1, <1>2, <1>3, <1>4, <1>5, <1>6, <1>7 DEF GuardedNext

LEMMA FindingsFollowAlways == GuardedSpec => []FindingsFollow
<1>1. GuardedInit => FindingsFollow
  BY DEF GuardedInit, FindingsFollow
<1> QED
  BY <1>1, FindingsFollowStep, PTL DEF GuardedSpec

\* The guard sends a mission home only with a cause: its vehicle is the one that is
\* read, a sample of it is cached, and that sample is out of its limits or, while it
\* is fresh, the time of the mission is over.  A mission planned for any other
\* vehicle is never sent home (executor.py:138-151, safety_guard.py:20-75).
THEOREM ReturnsHaveCause ==
    GuardedSpec => [][\A m \in Missions :
        task[m] = "polling" /\ task'[m] = "returning" =>
            /\ m \in own /\ cache # NoSample
            /\ \/ cache.health # "nominal"
               \/ cache.age <= Freshness /\ elapsed[m] > Timeout]_guardedVars
<1> DEFINE Caused(m) == /\ m \in own /\ cache # NoSample
                        /\ \/ cache.health # "nominal"
                           \/ cache.age <= Freshness /\ elapsed[m] > Timeout
           Returns == \A m \in Missions : task[m] = "polling" /\ task'[m] = "returning" => Caused(m)
<1>1. TypeOK /\ GuardedTypeOK /\ FindingsFollow /\ [GuardedNext]_guardedVars => [Returns]_guardedVars
  <2> SUFFICES ASSUME TypeOK, GuardedTypeOK, FindingsFollow, GuardedNext,
                      NEW m \in Missions, task[m] = "polling", task'[m] = "returning"
               PROVE  Caused(m)
    BY Zenon
  <2>1. ASSUME NEW n \in Missions, ExecutorStep(n) PROVE n = m /\ ActsOn(finding[m])
    <3> USE <2>1 DEF TypeOK, Suspend
    <3>1. CASE GuardReturns(n)
      BY <3>1 DEF GuardReturns, Finish
    <3>2. CASE ~ GuardReturns(n)
      BY <3>2 DEF ExecutorStep, Proceeds, Polls, Raises, Begin, Uploaded, SetupFailed, Armed, EntersLoop,
                  LoopHead, ReachesEnd, FliesOn, Crashed, Returned, Exported, ExportFailed, Finish
    <3> QED
      BY <3>1, <3>2
  <2>2. \E n \in Missions : ExecutorStep(n)
    <3>1. ASSUME NEW n \in Missions, Launch(n) \/ Cancelled(n) PROVE FALSE
      BY <3>1 DEF TypeOK, Launch, Cancelled, Suspend
    <3>2. ASSUME NEW r \in Requests, NEW op \in Operations, NEW n \in Missions, Command(r, op, n) PROVE FALSE
      BY <3>2 DEF Command
    <3>3. ASSUME NEW r \in Requests, Reply(r) PROVE FALSE
      BY <3>3 DEF Reply, Answered, Resumed, ResumeFailed
    <3>4. task' # task
      OBVIOUS
    <3> QED
      BY <3>1, <3>2, <3>3, <3>4
         DEF GuardedNext, Handled, GuardedTask, LoopCloses, GuardedReply, Shutdown, CollectorRuns,
             LifespanEnds, Tick, Sensed
  <2>3. Verdict(m) \in {"degraded", "timeout"}
    BY <2>1, <2>2 DEF ActsOn, FindingsFollow
  <2>4. m \in own /\ Check(cache, elapsed[m]) \in {"degraded", "timeout"}
    BY <2>3 DEF Verdict, Check
  <2>5. /\ cache # NoSample
        /\ \/ cache.health # "nominal"
           \/ ~ (cache.age > Freshness) /\ elapsed[m] > Timeout
    BY <2>4 DEF Check
  <2>6. cache.age \in Nat
    BY <2>5 DEF GuardedTypeOK, CollectorTypeOK, Samples
  <2> QED
    BY <2>4, <2>5, <2>6, GuardAssumption
<1>2. GuardedSpec => []TypeOK
  BY GuardedImplementsExecution, TypeCorrect, PTL
<1> QED
  BY <1>1, <1>2, GuardedTypeCorrect, FindingsFollowAlways, PTL DEF GuardedSpec

\* A vehicle that is well all the time, read by reads that do not fail, is never
\* reported degraded: whatever is sent home then has run out of time.  A read that
\* times out does more harm: its battery counts as empty (mavsdk_adapter.py:105-109,
\* telemetry_collector.py:49-89, safety_guard.py:31-50).
THEOREM NoFalseAlarm ==
    ASSUME ReadsMayFail = FALSE
    PROVE  GuardedSpec /\ [](condition = "nominal")
               => [](\A m \in Missions : finding[m] # "degraded")
<1> DEFINE Sound == draft = "nominal" /\ (cache = NoSample \/ cache.health = "nominal")
<1>1. GuardedInit => Sound
  BY DEF GuardedInit, CollectorInit
<1>2. TelemetryTypeOK /\ Sound /\ condition = "nominal" /\ [GuardedNext]_guardedVars => Sound'
  <2> SUFFICES ASSUME TelemetryTypeOK, Sound, condition = "nominal", [GuardedNext]_guardedVars
               PROVE  Sound'
    BY Zenon
  <2>1. CASE UNCHANGED surroundings
    BY <2>1 DEF surroundings, collectorVars
  <2>2. CASE CollectorRuns \/ LifespanEnds \/ Sensed(ConditionChanges /\ UNCHANGED elapsed)
    BY <2>2 DEF CollectorRuns, LifespanEnds, Sensed, CollectorStep, BeginsRound, SensesHealth, Stores,
                ReadFails, Stops, ConditionChanges
  <2>3. CASE Tick
    <3>1. draft' = draft /\ (cache = NoSample => cache' = NoSample)
      BY <2>3 DEF Tick, Sensed, SampleAges
    <3>2. cache # NoSample => cache' = [cache EXCEPT !.age = Older(@, Freshness)] /\ cache \in Samples
      BY <2>3 DEF Tick, Sensed, SampleAges, TelemetryTypeOK, CollectorTypeOK
    <3> QED
      BY <3>1, <3>2 DEF Samples
  <2> QED
    BY <2>1, <2>2, <2>3 DEF GuardedNext, Handled, GuardedTask, LoopCloses, GuardedReply, guardedVars
<1>3. Sound /\ FindingsFollow => \A m \in Missions : finding[m] # "degraded"
  BY DEF FindingsFollow, Verdict, Check
<1> QED
  BY <1>1, <1>2, <1>3, TelemetryTypeInit, TelemetryTypeStep, FindingsFollowAlways, PTL DEF GuardedSpec

=============================================================================
