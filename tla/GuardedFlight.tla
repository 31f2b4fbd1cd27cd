---------------------------- MODULE GuardedFlight ----------------------------
(***************************************************************************)
(* MissionExecution under its safety guard: in the place of findings that  *)
(* change at will, the telemetry collector, the cache, the clock and the   *)
(* checks of the guard.  Missions may be planned for a vehicle other than  *)
(* the one the service is connected to; execute_mission does not ask.      *)
(***************************************************************************)
EXTENDS MissionExecution, TelemetryCollector

ASSUME VerdictAssumption == {"none", "blocked", "degraded", "timeout"} \subseteq Findings

VARIABLES
    own,     \* missions whose vehicle_id is that of the adapter
    elapsed  \* elapsed[m]: ticks since the staging entry of m's timeline

surroundings == <<collectorVars, own, elapsed>>

guardedVars == <<vars, surroundings>>

-----------------------------------------------------------------------------

\* Mutant: any mission that was launched is recorded.
ActiveStatesAll == MissionStates \ PreLaunch

\* get_active_for_vehicle
ActiveStates == {"staging", "executing", "resuming"}

Active == {m \in own : state[m] \in ActiveStates}

\* What the guard says of m: it finds samples of the vehicle of the adapter only.
Verdict(m) == Check(IF m \in own THEN cache ELSE NoSample, elapsed[m])

Finds == finding' = [m \in Missions |-> Verdict(m)']

GuardedTypeOK ==
    /\ TypeOK
    /\ CollectorTypeOK
    /\ samples \in [Missions -> 0 .. 1]
    /\ own \subseteq Missions
    /\ elapsed \in [Missions -> 0 .. Timeout + 1]

GuardedInit ==
    /\ CollectorInit
    /\ samples = [m \in Missions |-> 0]
    /\ own \in SUBSET Missions
    /\ elapsed = [m \in Missions |-> 0]
    /\ finding = [m \in Missions |-> Verdict(m)]
    /\ Init

-----------------------------------------------------------------------------

\* A step of MissionExecution that leaves telemetry and clock alone.
Handled(step) == step /\ UNCHANGED surroundings

\* A step of the collector or of the surroundings: what the guard would say
\* follows from it.
Sensed(step) ==
    /\ step
    /\ UNCHANGED <<state, task, calls, announced, archived, up, own>>
    /\ Finds

GuardedTask(m) == Handled(ExecutorStep(m))

GuardedReply(r) == Handled(Reply(r))

CollectorRuns == Sensed(CollectorStep(Active) /\ UNCHANGED elapsed)

\* The lifespan ends when the requests in flight are finished, and the loop is
\* closed when it has ended.
LifespanEnds == ~ up /\ calls = {} /\ Sensed(Stops /\ UNCHANGED elapsed)

LoopCloses(m) == phase = "stopped" /\ Handled(Cancelled(m))

\* The clock of the missions that are staged, or were.
ClockRuns ==
    elapsed' = [m \in Missions |-> IF state[m] \in PreLaunch THEN elapsed[m]
                                   ELSE Older(elapsed[m], Timeout)]

Tick == Sensed(SampleAges /\ ClockRuns)

GuardedNext ==
    \/ \E m \in Missions : Handled(Launch(m)) \/ GuardedTask(m) \/ LoopCloses(m)
    \/ \E r \in Requests, op \in Operations, m \in Missions : Handled(Command(r, op, m))
    \/ \E r \in Requests : GuardedReply(r)
    \/ Handled(Shutdown)
    \/ CollectorRuns
    \/ LifespanEnds
    \/ Sensed(ConditionChanges /\ UNCHANGED elapsed)
    \/ Tick

GuardedSpec == GuardedInit /\ [][GuardedNext]_guardedVars

\* As in MissionExecution; and reads end, the wait of the collector ends, and a
\* server that is told to stop does so.  Nothing makes a read succeed.
FairGuardedSpec ==
    /\ GuardedSpec
    /\ \A m \in Missions : WF_guardedVars(GuardedTask(m))
    /\ \A r \in Requests : WF_guardedVars(GuardedReply(r))
    /\ WF_guardedVars(CollectorRuns)
    /\ WF_guardedVars(LifespanEnds)

-----------------------------------------------------------------------------
(* Properties.                                                             *)

\* The telemetry in a record is that of the mission's own vehicle, and it is
\* complete before the export thread reads it: collector and executor share the
\* record without a lock, and yet no sample is added once the executor waits for
\* the export or has exported (telemetry_collector.py:35-37, executor.py:53-59,
\* store.py:128-137).
RecordClosedAtExport ==
    [][\A m \in Missions :
          samples'[m] # samples[m] =>
              /\ m \in own
              /\ task[m] # "archiving" /\ archived[m] = "nothing"]_guardedVars

\* A vehicle whose battery, link or estimator is out of its limits for good is not
\* flown on for ever, as long as samples of it keep coming, however stale they are
\* when the guard looks and whatever other check fails with it
\* (safety_guard.py:31-57, executor.py:139-154).
ImpairmentActs ==
    ([]<><<Sensed(Stores(Active) /\ UNCHANGED elapsed)>>_guardedVars)
        => \A m \in Missions :
              ~ <>[](m \in own /\ condition # "nominal" /\ task[m] \in Monitoring)

\* A mission whose time is over is not flown on for ever, if its telemetry stays
\* fresh.  Without the second condition it is, see StaleBlocks: a stale sample is
\* found before the timeout, and not acted on (safety_guard.py:52-73).
TimeoutActs ==
    \A m \in Missions :
        ~ <>[](/\ m \in own /\ task[m] \in Monitoring
               /\ elapsed[m] > Timeout
               /\ cache # NoSample /\ cache.age <= Freshness)

\* The collector ends with the service, even if it loses its cancellation, so
\* that the loop can be closed (app.py:93-98, telemetry_collector.py:29-47).
CollectorStops == ~ up ~> phase = "stopped"

-----------------------------------------------------------------------------
(* What the documentation says and the code does not do.                   *)

\* README.md:101, "Telemetry freshness | <= 1.5s before execution blocks": a
\* mission is not flown on for ever without fresh telemetry.  It is: the guard
\* answers blocked.*, which the executor only logs (executor.py:155-156).
StaleBlocks ==
    \A m \in Missions :
        ~ <>[](/\ up /\ m \in own /\ task[m] \in Monitoring
               /\ cache # NoSample /\ cache.age > Freshness)

=============================================================================
