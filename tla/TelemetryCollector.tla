-------------------------- MODULE TelemetryCollector -------------------------
(***************************************************************************)
(* vehicle/telemetry_collector.py: the background task that reads the      *)
(* vehicle value by value, keeps the last sample in the telemetry cache    *)
(* and adds it to the record of the mission that is active; and the        *)
(* lifespan of app.py that stops it.                                       *)
(*                                                                         *)
(* Each read suspends.  Of what is read only the health matters here, so   *)
(* the eight reads of a round are two phases, before and after it.  From   *)
(* the last read to the update of cache and record nothing suspends.       *)
(***************************************************************************)
EXTENDS SafetyGuard

CONSTANT ReadsMayFail  \* a read may time out or raise (FALSE: the mock vehicle)

ASSUME CollectorAssumption == ReadsMayFail \in BOOLEAN

VARIABLES
    condition,  \* the health of the vehicle, now
    phase,      \* where run() is suspended
    draft,      \* the health read in this round
    cache,      \* VehicleTelemetryCache._latest of the vehicle of the adapter
    samples,    \* samples[m]: len(MissionRecord.telemetry), modulo 2
    stopping    \* _stop is set

collectorVars == <<condition, phase, draft, cache, samples, stopping>>

\* "sensing": up to the answer of get_health.  "finishing": the reads after it.
\* "waiting": for the next round.  "stopped": the task has ended.
Reading == {"sensing", "finishing"}
Phases  == Reading \cup {"waiting", "stopped"}

CollectorTypeOK ==
    /\ condition \in Healths
    /\ phase \in Phases
    /\ draft \in Healths
    /\ cache \in Samples \cup {NoSample}
    /\ stopping \in BOOLEAN

CollectorInit ==
    /\ condition \in Healths
    /\ phase = "sensing"
    /\ draft = "nominal"
    /\ cache = NoSample
    /\ stopping = FALSE

-----------------------------------------------------------------------------

\* Mutant: the loop does not look at the stop flag.
EndsAnyRound == phase' = "waiting"

\* The round is over: `while not self._stop.is_set()`, or the wait that a set
\* flag ends at once.
EndsRound == phase' = IF stopping THEN "stopped" ELSE "waiting"

\* The wait between two rounds times out.
BeginsRound ==
    /\ phase = "waiting"
    /\ phase' = "sensing"
    /\ UNCHANGED <<condition, draft, cache, samples, stopping>>

\* get_health answers.  A battery that is not read in time counts as empty.
SensesHealth ==
    /\ phase = "sensing"
    /\ phase' = "finishing"
    /\ \/ draft' = condition
       \/ ReadsMayFail /\ draft' = "low_battery"
    /\ UNCHANGED <<condition, cache, samples, stopping>>

\* The last read answers: the sample is stamped, cached and added to the record
\* of an active mission of the vehicle (the first in the store), if there is one.
Stores(active) ==
    /\ phase = "finishing"
    /\ cache' = [health |-> draft, age |-> 0]
    /\ IF active = {} THEN UNCHANGED samples
         ELSE \E m \in active : samples' = [samples EXCEPT ![m] = 1 - @]
    /\ EndsRound
    /\ draft' = "nominal"
    /\ UNCHANGED <<condition, stopping>>

\* A read raises: the exception is logged and the last sample stays.
ReadFails ==
    /\ ReadsMayFail
    /\ phase \in Reading
    /\ EndsRound
    /\ draft' = "nominal"
    /\ UNCHANGED <<condition, cache, samples, stopping>>

CollectorStep(active) == BeginsRound \/ SensesHealth \/ Stores(active) \/ ReadFails

\* lifespan: stop() and cancel().  The cancellation ends the task where it waits;
\* that of a read whose value has just arrived is lost in wait_for (Python 3.11),
\* and the flag ends the loop after the round.
Stops ==
    /\ ~ stopping
    /\ stopping' = TRUE
    /\ \/ phase' = "stopped"
       \/ phase \in Reading /\ phase' = phase
    /\ draft' = IF phase' = "stopped" THEN "nominal" ELSE draft
    /\ UNCHANGED <<condition, cache, samples>>

\* The surroundings: the vehicle gets better or worse, and the sample older.
ConditionChanges ==
    /\ condition' \in Healths \ {condition}
    /\ UNCHANGED <<phase, draft, cache, samples, stopping>>

SampleAges ==
    /\ cache' = IF cache = NoSample THEN cache
                                    ELSE [cache EXCEPT !.age = Older(@, Freshness)]
    /\ UNCHANGED <<condition, phase, draft, samples, stopping>>

=============================================================================
