------------------------------ MODULE Vehicle -------------------------------
(***************************************************************************)
(* The vehicle under MissionExecution: what the adapter of                 *)
(* vehicle/mock_adapter.py does with the calls of the executor and of the  *)
(* operator commands, and the link on which these calls are under way.     *)
(*                                                                         *)
(* A call is issued by the step that suspends in it, obeyed by the vehicle *)
(* some time later, and answered later still; meanwhile other handlers     *)
(* issue theirs.  The link keeps the order of the calls (commands of one   *)
(* MAVSDK connection); with the mock all three happen in one step.  A      *)
(* call that raises has been obeyed before, or never is.  Reads are not    *)
(* queued: get_mission_progress is the step that ends a poll.              *)
(***************************************************************************)
EXTENDS MissionExecution, SequencesExt

CONSTANT Waypoints  \* how many waypoints an uploaded route has

ASSUME VehicleAssumption == Waypoints \in Nat \ {0}

VARIABLES
    pending,    \* calls issued and not yet obeyed, in the order of issue
    mode,       \* _flight_mode
    airborne,   \* _in_air
    started,    \* _mission_started; nothing ever resets it
    paused,     \* _paused
    total,      \* len(_waypoints), 0 before the first upload
    waypoint,   \* _current_waypoint
    disturbed   \* a call of an operator failed, or a command was accepted
                \* while the executor had still to start the vehicle

aircraft == <<mode, airborne, started, paused, total, waypoint>>

vehicleVars == <<vars, pending, aircraft, disturbed>>

-----------------------------------------------------------------------------

\* The call in which a task is suspended, at the points that are such calls.
CallOf == [uploading |-> "upload_mission", arming |-> "arm",
           starting |-> "start_mission", returning |-> "return_to_launch"]

\* Mutant: an abort holds the vehicle where it is.
CommandHolds == [pause |-> "pause_mission", resume |-> "start_mission",
                 rtl |-> "return_to_launch", abort |-> "pause_mission"]

\* The call each command handler makes.
CommandCall == [pause |-> "pause_mission", resume |-> "start_mission",
                rtl |-> "return_to_launch", abort |-> "land"]

CallNames == {"upload_mission", "arm", "start_mission", "pause_mission",
              "return_to_launch", "land"}

\* A call, and who waits for it.
Orders == [by : {"executor"}, id : Missions, call : CallNames]
              \cup [by : {"operator"}, id : Requests, call : CallNames]

\* The calls somebody waits for.
Awaited ==
    {[by |-> "executor", id |-> m, call |-> CallOf[task[m]]] :
        m \in {n \in Missions : task[n] \in DOMAIN CallOf}}
    \cup {[by |-> "operator", id |-> c.req, call |-> CommandCall[c.op]] : c \in calls}

VehicleTypeOK ==
    /\ pending \in Seq(Orders)
    /\ mode \in {"idle", "armed", "mission", "hold", "rtl", "land", "landed"}
    /\ {airborne, started, paused, disturbed} \subseteq BOOLEAN
    /\ total \in {0, Waypoints}
    /\ waypoint \in 0 .. total

VehicleInit ==
    /\ Init
    /\ pending = <<>>
    /\ mode = "idle"
    /\ airborne = FALSE
    /\ started = FALSE
    /\ paused = FALSE
    /\ total = 0
    /\ waypoint = 0
    /\ disturbed = FALSE

-----------------------------------------------------------------------------
(* The link.                                                               *)

\* Where on the link the call is whose caller gives up; a step ends one wait at most.
Forgotten == {i \in DOMAIN pending : pending[i] \notin Awaited'}

\* Nobody issues a call but the steps of MissionExecution: what is newly awaited
\* is sent, and what is no longer awaited is forgotten.
Transmit ==
    LET left == IF Forgotten = {} THEN pending
                                  ELSE RemoveAt(pending, CHOOSE i \in Forgotten : TRUE)
    IN  pending' = left \o SetToSeq(Awaited' \ Awaited)

\* The vehicle has obeyed what the caller waits for.
Obeyed(caller) == \A i \in DOMAIN pending : <<pending[i].by, pending[i].id>> # caller

-----------------------------------------------------------------------------
(* What the vehicle does with a call.                                      *)

Uploads ==
    /\ total' = Waypoints
    /\ waypoint' = 0
    /\ UNCHANGED <<mode, airborne, started, paused>>

Arms == mode' = "armed" /\ UNCHANGED <<airborne, started, paused, total, waypoint>>

Starts ==
    /\ started' = TRUE
    /\ paused' = FALSE
    /\ airborne' = TRUE
    /\ mode' = "mission"
    /\ UNCHANGED <<total, waypoint>>

Pauses == paused' = TRUE /\ mode' = "hold" /\ UNCHANGED <<airborne, started, total, waypoint>>

Returns ==
    /\ mode' = "rtl"
    /\ paused' = FALSE
    /\ airborne' = FALSE
    /\ UNCHANGED <<started, total, waypoint>>

Lands == mode' = "land" /\ airborne' = FALSE /\ UNCHANGED <<started, paused, total, waypoint>>

Does(call) ==
    \/ call = "upload_mission"   /\ Uploads
    \/ call = "arm"              /\ Arms
    \/ call = "start_mission"    /\ Starts
    \/ call = "pause_mission"    /\ Pauses
    \/ call = "return_to_launch" /\ Returns
    \/ call = "land"             /\ Lands

\* The next call on the link takes effect.
Obeys ==
    /\ pending # <<>>
    /\ Does(Head(pending).call)
    /\ pending' = Tail(pending)
    /\ UNCHANGED <<vars, disturbed>>

\* Mutant: the count of waypoints is not limited.
NextWaypointUnbounded == waypoint + 1

\* `if self._advance_on_poll and current < total: current += 1`
NextWaypoint == IF waypoint < total THEN waypoint + 1 ELSE waypoint

\* get_mission_progress moves a started and unpaused vehicle on by one waypoint
\* and lands it at the last.
Advances ==
    IF ~ started \/ paused \/ total = 0
      THEN UNCHANGED aircraft
      ELSE /\ waypoint' = NextWaypoint
           /\ IF waypoint' >= total
                THEN airborne' = FALSE /\ mode' = "landed"
                ELSE UNCHANGED <<airborne, mode>>
           /\ UNCHANGED <<started, paused, total>>

AtEnd == total > 0 /\ waypoint >= total

-----------------------------------------------------------------------------
(* MissionExecution over the vehicle.                                      *)

\* A task goes on when the vehicle has obeyed its call.
TaskProceeds(m) ==
    /\ Proceeds(m)
    /\ Obeyed(<<"executor", m>>)
    /\ Transmit
    /\ UNCHANGED <<aircraft, disturbed>>

\* Mutant: the last waypoint is taken for reached when it is the next.
EndsAt(m) == ReachesEnd(m) /\ waypoint' + 1 >= total

\* The mission is over exactly if the progress that was reported says so.
Completes(m) == ReachesEnd(m) /\ AtEnd'

\* A poll is answered.  Where reads may time out, the answer may be (0, 0).
TaskPolls(m) ==
    /\ \/ Advances /\ Completes(m)
       \/ Advances /\ ~ AtEnd' /\ (GuardReturns(m) \/ FliesOn(m))
       \/ VehicleMayFail /\ UNCHANGED aircraft /\ (GuardReturns(m) \/ FliesOn(m))
    /\ Transmit
    /\ UNCHANGED disturbed

\* A call of the task raises, whether or not the vehicle obeyed it.
TaskRaises(m) ==
    /\ Raises(m)
    /\ Transmit
    /\ UNCHANGED <<aircraft, disturbed>>

VehicleTask(m) == TaskProceeds(m) \/ TaskPolls(m) \/ TaskRaises(m)

TaskCancelled(m) ==
    /\ Cancelled(m)
    /\ Transmit
    /\ UNCHANGED <<aircraft, disturbed>>

VehicleCommand(r, op, m) ==
    /\ Command(r, op, m)
    /\ Transmit
    /\ disturbed' = (disturbed \/ task[m] = "arming")
    /\ UNCHANGED aircraft

\* A command is answered: the vehicle obeyed it, or the call raised.
VehicleReply(r) ==
    /\ \/ /\ Obeyed(<<"operator", r>>)
          /\ \E c \in calls : c.req = r /\ (Answered(c) \/ Resumed(c))
          /\ UNCHANGED disturbed
       \/ /\ VehicleMayFail
          /\ \E c \in calls : c.req = r /\ (Answered(c) \/ ResumeFailed(c))
          /\ disturbed' = TRUE
    /\ Transmit
    /\ UNCHANGED aircraft

\* Nothing but the surroundings changes: what the guard would say, the shutdown,
\* or the progress of the vehicle (the telemetry collector polls it as well).
Surroundings ==
    \/ (FindingChanges \/ Shutdown) /\ UNCHANGED aircraft
    \/ Advances /\ UNCHANGED vars

VehicleNext ==
    \/ \E m \in Missions :
          \/ Launch(m) /\ Transmit /\ UNCHANGED <<aircraft, disturbed>>
          \/ VehicleTask(m)
          \/ TaskCancelled(m)
    \/ \E r \in Requests, op \in Operations, m \in Missions : VehicleCommand(r, op, m)
    \/ \E r \in Requests : VehicleReply(r)
    \/ Obeys
    \/ Surroundings /\ UNCHANGED <<pending, disturbed>>

VehicleSpec == VehicleInit /\ [][VehicleNext]_vehicleVars

\* As in MissionExecution; and what is on the link reaches the vehicle.
FairVehicleSpec ==
    /\ VehicleSpec
    /\ \A m \in Missions : WF_vehicleVars(VehicleTask(m))
    /\ \A r \in Requests : WF_vehicleVars(VehicleReply(r))
    /\ WF_vehicleVars(Obeys)

-----------------------------------------------------------------------------
(* Properties, of one mission on the vehicle.                              *)

\* The modes a vehicle may be in when its mission is in the state.  A mission may
\* be completed by a poll that an RTL command has overtaken: the call comes after.
Expected == [executing |-> {"mission", "landed"}, paused |-> {"hold"},
             rtl |-> {"rtl", "landed"}, aborted |-> {"land", "landed"},
             completed |-> {"rtl", "landed"}]

\* Whatever order commands and executor steps come in, when no call is under
\* way the vehicle does what the store says, and it is on the ground when the
\* mission is to be: the last order it got is that of the last transition,
\* although the transition comes first and the call later (commands.py:37-61,
\* executor.py:104-151).  Not so after a command during arm(), see
\* StartRespectsOperator, nor after a failed command, which is only logged.
OrdersAgree ==
    \A m \in Missions :
        Awaited = {} /\ ~ disturbed /\ state[m] \in DOMAIN Expected =>
            /\ mode \in Expected[state[m]]
            /\ state[m] \in {"rtl", "aborted", "completed"} => ~ airborne

\* A mission that is sent home or aborted, by an operator or by the guard, comes
\* down and stays down, whatever was on the link before it and whatever the
\* executor still had to do (commands.py:141, 183; executor.py:150).
SafetyCommandsLand ==
    \A m \in Missions :
        <>[](state[m] \in {"rtl", "aborted"}) => <>[](~ airborne \/ disturbed)

=============================================================================
