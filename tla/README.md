# Wyvern in TLA+

Wyvern (`src/wyvern`) is a mission control service for unmanned aircraft: an
HTTP API takes a mission from its draft through validation and approval to
execution, a background task flies it over a vehicle adapter, and operators may
pause, resume, send home or abort it meanwhile. This directory holds TLA+
modules of the parts in which the difficulty lies, TLC configurations that check
them on small instances, and theorems the TLAPS proof manager checks for every
instance. Line numbers refer to `src/wyvern`, unless a path says otherwise.

## The system

The service is one asyncio event loop in one process, with its state in memory.
Code between two awaits that really suspend is therefore atomic. Three kinds of
await suspend: calls of the vehicle adapter or of Chimera, sleeps and queue
waits, and the archive export, which runs in a thread. `await emitter.emit(...)`
contains no such await and never suspends. All races of the program are between
these stretches of code.

| Part | State | Operations | Talks to |
|---|---|---|---|
| State machine (`state_machine.py`) | none | `can_transition`, `is_terminal` | everybody |
| Store (`store.py`) | records: state, timeline, validation, keys, trace links, telemetry, archive reference | `create`, `transition`, `set_*`, `append_*`, idempotency | routes, executor, collector |
| Mission routes (`routes/missions.py`) | none | create, validate, approve, execute | store, validation, Chimera, executor, emitter |
| Commands (`routes/commands.py`) | none | pause, resume, rtl, abort | store, vehicle |
| Executor (`services/executor.py`) | one task for each executed mission | upload, arm, start, monitor, return, archive | store, vehicle, guard, emitter, exporter |
| Safety guard (`services/safety_guard.py`) | none | `check` | telemetry cache, timeline |
| Event emitter and websocket (`services/event_emitter.py`, `routes/events.py`) | sequence number, ring buffer, queue of each subscriber | emit, subscribe, replay, drain | clients |
| Archive exporter (`services/archive_exporter.py`) | files of a directory | export | record, disk |
| Telemetry collector, cache (`vehicle/telemetry_collector.py`, `store.py:140-148`) | last sample of each vehicle | sample, attribute | vehicle, store |
| Vehicle adapters (`vehicle/`) | the vehicle | arm, upload, start, pause, RTL, land, reads | flight controller |
| Validation (`services/validation.py`) | none | six checks of a mission | telemetry cache |
| Chimera client (`services/chimera_client.py`) | none | `request_approval` | Chimera |
| Read-only routes, wiring, contracts | none | projections, construction | |

What is hard in it, and what makes each part correct:

* **Executor against operators.** The executor reads the state, awaits the
  vehicle, and acts. An operator command may come in between. Correct: no task
  that ends leaves its mission staging or executing; there is never a
  second task; what is archived, or announced as completed or returning, is and stays true; what is announced
  as failed has no executor any more and never completes; staging and resuming end.
* **Approval.** Two approve requests may wait for Chimera at once and be
  answered in any order, after the mission has moved on. Correct: approval and state
  agree, nothing flies or is refused without the steps that lead there, and a
  result stored for a retry is true.
* **History.** Correct: the timeline is the whole history, without gaps.
* **Vehicle.** The store moves on first and the vehicle is called afterwards, so
  that calls of several commands and of the executor are under way at once. Correct:
  when none is, the vehicle does what the store says, and safety commands bring it down.
* **Guard and telemetry.** The guard looks at a sample a background task read some
  time ago, value by value, and reports the first of several violations; reads fail. Correct: a
  lasting violation is acted on, records are complete when exported, the collector ends.
* **Validation.** Ray casting over any ring of coordinates. Correct: the
  verdict is that of the geometry, and that of the guard where both look at the same sample.
* **Export.** A thread reads the record while the loop may change it; disk and
  process may fail at every write. Correct: what is published is whole and a
  mixture is recognisable.
* **Events.** Replay and queue are filled at different times, and buffers are
  bounded. Correct: no event twice or out of order, and no loss but at the two bounds.

`PROJECT.json` lists the hazards one by one, each with its line and the
properties that catch it.

## Modules

```
MissionStateMachine      the transition table
  |-- MissionStore            records and timelines        <- MissionStoreProofs
  |-- MissionExecution        executor tasks and commands  <- MissionExecutionProofs
        |-- MissionApi        + create, validate, approve, execute, keys
        |     |               <- MissionApiProofs
        |     |-- implements MissionGovernance (what a client is promised)
        |-- Vehicle           + the link and the vehicle   <- VehicleProofs
        |     |-- implements MissionExecution
        |-- GuardedFlight     + guard, telemetry, clock    <- GuardedFlightProofs
              |-- implements MissionExecution
SafetyGuard              the checks of the guard
  |-- TelemetryCollector      the background task and its cache
  |     |-- GuardedFlight     (see above)
  |-- Validation              the checks before approval   <- ValidationProofs
ArchiveExport            the export, file by file          <- ArchiveExportProofs
EventStream              emitter and websocket handlers    <- EventStreamProofs
```

Every component `M` has `MCM`, which TLC runs with the configurations
`MCM_<run>.cfg`. Definitions called "Mutant" in their comment are not part of
any specification: each is a plausible bug in place of the definition that follows,
and shows that some property would notice.

### MissionStateMachine

The table as a set of pairs, `CanTransition`, `IsTerminal`. `expired` and
`manual_handover` are in the table, but no code asks for a transition to them.

### MissionExecution

`state[m]` is the state in the store, `task[m]` the await at which the executor
task of `m` is suspended, `calls` the commands that wait for the vehicle,
`finding[m]` what `SafetyGuard.check` would say, `announced[m]` and
`archived[m]` what the executor last told the clients and the disk.

| Action | Code |
|---|---|
| `Launch` | `routes/missions.py:231-249`, transition and `create_task` |
| `Begin`, `Uploaded`, `Armed` | `executor.py:74-105` up to each await |
| `SetupFailed` | the two except clauses, `85-89`, `106-110`: `mission.failed` is announced whether the transition is allowed or not |
| `EntersLoop` | head of the loop, `112-125` |
| `ReachesEnd`, `GuardReturns`, `FliesOn` | the three ways on after `get_mission_progress()`, `125-158` |
| `Returned`, `Crashed` | the answer of `return_to_launch()`, and `49-51` |
| `Exported`, `ExportFailed` | `53-61` |
| `Cancelled` | `45-48`, when the loop is closed |
| `Command`, `Answered`, `Resumed`, `ResumeFailed` | `commands.py`, up to the call of the vehicle and after it |
| `FindingChanges` | what `safety_guard.py:20-75` returns changes in any way; `GuardedFlight` says which ways there are |
| `Shutdown` | the server is told to stop |

Where the answer of a call has no consequence in the code (pause, RTL and abort
log an exception and go on), success and failure are one action, `Answered`.
The stop of the server is modelled as uvicorn does it: no new requests, those in
flight are finished, then the loop is closed and the tasks are cancelled.

`ExecutorStep` is `Proceeds` (the call or sleep is over), `Polls` (the progress is known) or
`Raises`, so that `Vehicle` can tie each to what the vehicle did.

### Vehicle

`MissionExecution` knows that a call is awaited; `Vehicle` knows where it is. Each step that
suspends in a call appends it to `pending` (`Transmit`), `Obeys` takes it off the front
and does what `mock_adapter.py:57-98` does with it, and only then may the caller go on
(`TaskProceeds`, `VehicleReply`), unless the call raises. `TaskPolls` is
`get_mission_progress` (`134-150`), which moves the mock on by one waypoint; the
telemetry collector polls it too (`Surroundings`). The order of the link is an
assumption: MAVSDK sends the commands of one connection in the order they are called. With
the mock the three steps of a call are one, which is a behaviour of the model too.
`disturbed` remembers what no property can expect to hold after: a failed command, which
the code only logs, and a command during `arm()`, the finding `start_after_abort`.

### SafetyGuard, TelemetryCollector, GuardedFlight

`Check` is `SafetyGuard.check` over a sample (a health and an age in ticks) and the ticks
since the staging entry. Health is nominal, below the battery limit, or unsound (link or estimator).
The collector reads, stamps, caches and attributes:

| Action | Code |
|---|---|
| `BeginsRound`, `SensesHealth` | `telemetry_collector.py:41-53`; on MAVSDK a battery that is not read in 5 s counts as empty (`mavsdk_adapter.py:103-107`) |
| `Stores` | the reads after it and `32-37`: cache and record in one step |
| `ReadFails` | `38-39` |
| `Stops`, `LifespanEnds` | `app.py:93-98`; a cancellation that meets a read which has just answered is lost in `asyncio.wait_for` of Python 3.11, and the flag ends the loop |
| `SampleAges`, `ClockRuns` in `Tick` | `safety_guard.py:53-55`, `67-69` |

`GuardedFlight` puts them under the executor: `finding` is no longer any finding at any time but
`Verdict`, and follows the cache and the clock. `own` is the set of missions that name the vehicle of
the adapter: the others are flown by it all the same, and the guard finds no sample for them.

### Validation

`validate()` suspends nowhere, so it is one action over a mission and a sample chosen from `Cases`.
`PointInPolygon` toggles once for each edge the ray crosses, which is the parity of their number.
Coordinates are integers and the quotient of `validation.py:24` is compared by
cross-multiplication: what floats round is not covered. The reference, `InFan`, is defined for every
point: one on the fence, or in line with two vertices, counts to the place a hair east of it and a hair of that north
(`Left`). Off the fence that says nothing but where it is; on the fence it says which side the code
takes: the west and south sides of a rectangle are inside, the east and north ones outside.

### MissionApi and MissionGovernance

`MissionApi` extends `MissionExecution` by the handlers of `routes/missions.py`.
Only `approve_mission` suspends, so it is `Approve` (up to the call of Chimera)
and `Reviewed` or `ReviewFailed`. `verdict`, `approval`, `links` and `keys` are the
fields of the record they write. `MissionGovernance` is the contract in terms of
three values for each mission: how far authority has gone (planned, cleared,
refused, flown), how it ended, and what the archive says. `GovernanceSpec`
maps the states of the API to these.

### MissionStore

Records with their timelines under any sequence of requests: a superset of what
the other two modules do with the store. Actors, reason codes and timestamps are
left out.

### ArchiveExport

One directory, one file for each action, manifest last. `life` counts starts of the
process, `result` the validations of the mission in this life. A file content is
identified by the life and, if it depends on it, the validation result it was made
from. A failed write or a crash may leave the file in progress cut off.

### EventStream

Events are their numbers. `replay[c]` is what the handler of connection `c` has
yet to send of the buffer, `queue[c]` its subscriber queue, `lost[c]` what was
given up on the way. A client that goes away is noticed by the next send only.

## Runs

| Run | Instance | Shows |
|---|---|---|
| `flight` | 1 mission of 2 waypoints, 3 commands in flight, failing calls and exports, shutdown | states, tasks, archive and announcements agree; the vehicle does what the store says once no call is under way; no second executor; no mission abandoned; staging and resuming end, the executor winds down, safety commands bring the vehicle down |
| `guard` | 1 mission, own or foreign, 1 command in flight, limits of one tick, failing reads | lasting impairments and timeouts are acted on; no sample is added during or after the export; the collector ends |
| `contract` | 1 mission, 2 reviewers, 2 keys, 2 commands in flight | approval, provenance, keys and answers; refinement of `MissionGovernance` |
| `validation` | 12 450 places in triangles, quadrilaterals and closed rings, 97 500 legs, 270 sets of papers | geofence verdict, legs, agreement with the guard |
| `history` | 2 missions, 12 entries | timelines |
| `export` | 3 lives, 3 validations in each | published archives and mixtures |
| `delivery` | 2 clients, 5 events, buffer and queue of 2 | order and losses; delivery and release |

Why these bounds are enough. Missions share nothing but the operators' requests
and the vehicle; every property speaks of one mission, so one shows every step it depends
on, and the theorems cover any number. The two properties of `Vehicle`, `OrdersAgree` and
`SafetyCommandsLand`, are about one mission on the vehicle and would be false of two: nothing in
the code keeps a second mission from the same vehicle (see the hazards). Two commands in flight give each pair of
commands of one mission, and three the case that a third finds the mission in a state one
of the two has left. `flight` has the findings "none" and "timeout", as its code distinguishes
only whether a finding is acted on; `guard` has all kinds and one command, as commands among themselves are
the matter of `flight`. Two waypoints give a poll that moves on and one that ends. A limit of one tick
gives a sample or a time below, at and over it. The geofences are all rings of three or four vertices
on nine points of an even grid, from one fixed first vertex, in both directions, convex, concave and
crossing themselves; waypoints fall on vertices, on edges, level with vertices and between.
Two reviewers give each order of two answers, two keys a retry and a
fresh request. Twelve timeline entries are two rounds of pause and resume after the six
entries of the way to EXECUTING. Three lives give an export over an interrupted export
over a complete one. Five events overrun a buffer and a queue of two, with one to spare
after the loss. The theorems below do not need any of these bounds.

`MaxEntries`, `MaxLives`, `MaxResults` and `MaxSeq` are the bounds of the models, and ages and
times stop counting one tick over their limit, after which the code tells none apart;
no other counter is bounded. Deadlock is checked in `flight`, `guard` and `contract` and
switched off for the models that end at such a bound (`MCMissionStore`,
`MCArchiveExport`, `MCEventStream`; a websocket handler without an event to send
also really waits) and for `MCValidation`, which ends with its result. Where it is checked, findings,
health or progress may always change, so that
the absence of deadlock says little: that the tasks go on is what the liveness properties show.

### What the code does not do

These runs each refute one statement of the repository's documents or comments.

| Run | Statement | What happens |
|---|---|---|
| `start_after_abort` | README: no lower layer may override a higher | abort during `arm()`, then `start_mission()` is called |
| `unmonitored` | "from staging through completion" | after pause and resume no task is left |
| `abort_not_archived` | "Archive on terminal state" | aborted while paused: no export |
| `stale_flies_on` | README: telemetry freshness <= 1.5 s "before execution blocks" | reads fail, the sample stays stale, and the mission is flown on for ever, past its timeout |
| `pending_is_approved` | "Chimera approved" | any status but "rejected" approves |

Other differences met while modelling are noted at their hazard in `PROJECT.json`: `mission.failed` is emitted for a
mission that an operator has paused, is resuming or has aborted when the call raises (`executor.py:106-110`), and such a mission may even
be resumed (`AnnouncedMatchesState` says what the event still promises), a mission in RTL is
not ended by anybody, two missions of one vehicle fly at once, a validation during the export
leaves an artifact with the hash of another result than the one archived beside it.

## Fairness

`FairSpec` of `MissionExecution` has weak fairness on each executor task and on
each command in flight: the loop runs what can run, and every adapter call and
export ends, with an answer or an exception. MAVSDK calls end with an exception
when the link is lost; the mock's end at once. There is no fairness on operators,
findings, `Launch`, `Shutdown` or `Cancelled`, nor on progress towards the last
waypoint: a mission may fly for ever. The fairness of a task is on the disjunction of its
steps, so nothing says that the end is ever reached rather than another round.
`FairVehicleSpec` has the same, with calls that go on only once they are obeyed, and
weak fairness on `Obeys`: what is on the link arrives. `FairGuardedSpec` adds that reads end
(`CollectorRuns`) and that a server which is told to stop ends its lifespan (`LifespanEnds`, which
uvicorn does as soon as the requests are finished). Nothing makes a read succeed, time pass or the vehicle recover:
`ImpairmentActs` says itself that samples keep coming, as its assumption.

`FairSpec` of `EventStream` has weak fairness on each websocket handler:
what can be sent is sent. No fairness is on clients and emission.

## Proofs

| Module | Theorems |
|---|---|
| `MissionExecutionProofs` | type correctness, all safety invariants and action properties of `MissionExecution` |
| `MissionApiProofs` | the invariants of `MissionApi`, the stability of answers and the refinement `ApiSpec => GovernanceSpec` |
| `VehicleProofs` | `VehicleSpec => Spec`, so that every safety property of the execution holds over the link; type correctness: the link carries awaited calls only, none twice; `OrdersAgree` for one mission and any number of requests; a vehicle that is down for good stays down |
| `GuardedFlightProofs` | `GuardedSpec => Spec`; type correctness; no sample is added to a record that is exported; the guard acts with cause only, and on a healthy vehicle never for its health |
| `ValidationProofs` | for fences and routes of any size and integer coordinates: the ray casting gives the verdict of the geometry for every point, those on the fence as `Left` places them, and is indifferent to how the ring is written; no leg of a passed route leaves the convex hull of the fence, so none leaves a convex fence; agreement of validation and guard |
| `EventStreamProofs` | types and limits, order and accounting of the events for any clients, sizes and number of events |
| `MissionStoreProofs` | timelines of any length: type correctness, history, one staging entry, append only |
| `ArchiveExportProofs` | type correctness, and what an archive can be trusted for after any number of restarts |

Each follows the same line: an inductive invariant (`ExecutionInvariant`,
`ApiInvariant`, `StoreInvariant`, `ArchiveInvariant`, `StreamInvariant`, `VehicleTypeInvariant`, `OrderInvariant`), a lemma that every step
preserves it with one step of the proof for each action, and theorems that take
their conjuncts from it. The assumptions are the named `ASSUME`s of the constants; the few theorems that need more
have it as a hypothesis: `OneMission` (`OrdersStand`, `HomeIsGrounded`) and `ReadsMayFail = FALSE` (`NoFalseAlarm`).

* `ExecutionInvariant` ties task to state (`TaskMatchesState`) because an action of a task is
  harmless only in the states that task can find: `ArchiveIsFinal` needs that a
  task which exports has a terminal mission, and that no other task of it can come after
  (`LastWord`). `AnnouncedMatchesState` needs of `LastWord` that only the executor completes a mission, and on its way out:
  a call that raises cannot find it completed. `ResumingIsOwned` is inductive only together with the table: RESUMING
  has one way out, and only the resume in flight takes it.
* `ApprovalMatchesState` needs that the flight never goes back before `approved`
  (lemma `FlightEffect`, which is all `MissionApi` has to know of `MissionExecution`).
* `StagedOnce` needs that the launch is crossed in one direction only (`LaunchIsOneWay`).
* `ManifestVouches` needs `OneLife`: a manifest is of one life, and of an earlier
  one as long as this export has not written it; `Progress` says what of `files` is on
  disk.
* `RecordClosedAtExport` is the execution's `TaskMatchesState` and `LastWord`, taken over by the refinement: the
  states in which the collector finds a mission active are not terminal, and a task that exports, or has,
  has a terminal mission.
* `StreamInvariant` adds to order and accounting that the buffer is the latest events without a gap (`Latest`): so
  what a new connection replays is their end, and what is missing from it is exactly what the buffer dropped. A
  send moves the head of replay or queue to what was sent and leaves their concatenation (`Line`) as it is.
* `LinkInvariant` says that every call on the link is awaited, and none is there twice. It needs that a step ends one wait at
  most and begins one at most (`OneWaitAtATime`); then a transmission removes one call at most, keeps the order of the others
  and puts a new call last (`TransmitEffect`).
* `OrdersAgree` speaks of the moments without a call under way, and is far from inductive. `LastOrderStands` says what holds
  between them: the last call on the link is the one that goes with the state of the mission (`FinalOrder`) or, if
  the link is empty, the vehicle is in a mode that this call leads to. While the task waits for `arm()` it is
  not so, since the start is still to come: this is where a command disturbs the order, and the mission is executing otherwise.
  RESUMING adds whose call it is, because the reply to a resume leaves the link empty only if the last call was its own
  (`ResumingIsOwned`). A task that gives up has its call removed, and that is never the last one unless the mission has failed
  (`GivesUpOrder`). `FlightInvariant` adds what the modes mean: a poll that finds the last waypoint leaves
  the vehicle landed only if it was started and not paused.
* `OneMission` is the hypothesis that the vehicle carries one mission. With two, neither of the stores' states need be the
  vehicle's (see the hazards); the other theorems of `VehicleProofs` do without it.
* `GroundedForGood` needs no order: once every mission is over, no step waits for a start of the vehicle anew (`OverStep`), so
  that what is not on the link never comes. With `HomeIsGrounded` this is all of `SafetyCommandsLand` but the emptying of the
  link, which is fairness.
* `ReturnsHaveCause` rests on `FindingsFollow`: the finding is always that of the sample that is cached now. `NoFalseAlarm` is
  false without its hypothesis that reads do not fail: a battery read that times out counts as empty
  (`mavsdk_adapter.py:105-109`).
* `ContainmentIsSound` compares two parities. A point is in a triangle exactly if an odd number of its edges
  crosses the ray (`TriangleParity`). That is shown first for points in line with no side (`OffLineParity`); any other is nudged off
  the lines, in a plane scaled up so far that coordinates stay integers and nothing else changes sides (`NudgedEdge`, `Outweighed`).
  Over the whole fan the diagonals from the first vertex cancel out (`OddChanges`), and
  what is left are the edges of the ring, the closing one taken apart (`OddRing`, `RayCastingIsExact`). What
  this needs of induction is over the natural numbers only, by the least counterexample (`LeastNat`, from the
  well-foundedness of `<`), since the induction theorems of the library cannot be instantiated here.
* `RingAsWritten` pairs the edges of two ways to write a ring (`PairedEdges`): the ray crosses an edge whichever end comes first
  (`CrossesIsSymmetric`), and the edge from the last vertex of a closed ring to the first has no length.
* `PassedIsInHull` and `PassedIsInside` hold for points on an edge or in line with vertices too. If the parity is odd, an edge
  crosses the ray east of the point; as the edges that straddle the height of the point are even in number
  (`StraddlesAreEven`), another one passes it in the west. The point is between two points of the hull
  (`InsideIsInHull`), and a leg is between its ends (`LegInHalfPlane`). A convex fence is the intersection of half-planes (`SideIsHalfPlane`).
* `PassedIsWithinReach` needs no induction over the ring: if the parity is odd some edge is crossed, and the
  ends of a crossed edge are on both sides of the ray and not both west of the point (`EdgeAround`).

The refinement of the contract is proved as a theorem: `ApiInit` maps to the initial state of the contract
and, under the invariant, every step to a step of it or a stutter.

With these, every safety invariant and every action property of the runs is a theorem. Model-checked only are the liveness
properties (`StagingResolves`, `ResumingResolves`, `ExecutorWindsDown`, `SafetyCommandsLand`, `ImpairmentActs`, `TimeoutActs`,
`CollectorStops`, `WaitingIsSent`, `GoneIsReleased`): fairness and ENABLED are beyond the prover.
No module here declares a recursive operator.

## Not modelled

* Floating point, the values of position and velocity, which nothing decides on, and of the battery beyond low or not.
* What MAVSDK and the autopilot do beyond the mock: failsafes, a manual pilot, a refused command other than as an exception.
* A call that is obeyed after its caller has given up: in `Vehicle` a call that raises has been obeyed before, or never is.
  `OrdersAgree` and `SafetyCommandsLand` are not claimed of a vehicle that obeys later than that.
* That a read of the collector takes time: a sample is as old as its stamp, which the code takes after seven reads.
* Two missions on one vehicle, as far as the vehicle is concerned; a restart of the event stream.
* Bodies of answers and the HTTP codes that leave the state alone (404, 409); the
  read-only routes; hashing and JSON; configuration.
* In `MissionApi` an answer of Chimera may still come after the tasks were cancelled,
  where uvicorn would have waited: the model allows more than the server does.
* A restart of the service, except for the archive directory, the only thing that survives it.
* The semantic API of `docs/contracts/wyvern.semantic.openapi.json`, which has no code.

## What could follow

1. A restart of the service seen by a websocket client, whose `since_seq` is then from an earlier life.
2. Two missions on one vehicle, once the code says what should happen then.
3. The rounding of the ray casting.
