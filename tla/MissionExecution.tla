-------------------------- MODULE MissionExecution --------------------------
(***************************************************************************)
(* The execution of missions: the background task that flies a mission     *)
(* (services/executor.py) and the operator commands that reach the same    *)
(* mission while it flies (routes/commands.py).                            *)
(*                                                                         *)
(* The service is one asyncio loop, so what runs between two awaits that   *)
(* really suspend is one step.  The awaits that suspend are the calls to   *)
(* the vehicle adapter, the sleep of the monitor loop and the archive      *)
(* export (which runs in a thread); `await emitter.emit(...)` never does.  *)
(* So an executor task is always suspended at one of the points of         *)
(* `TaskPoints`, a command handler is one element of `calls` while the     *)
(* vehicle answers it, and an action is the code from one point to the     *)
(* next.                                                                   *)
(***************************************************************************)
EXTENDS MissionStateMachine

CONSTANTS
    Missions,            \* mission ids
    Requests,            \* operator requests served at the same time
    Findings,            \* what the safety guard may report, see ActsOn
    VehicleMayFail,      \* adapter calls may raise (FALSE: the mock vehicle)
    ArchiveMayFail,      \* the export may raise (a full or read-only disk)
    ArchiveOnCompletion  \* settings.archive_on_completion

ASSUME ExecutionAssumption ==
    /\ "none" \in Findings
    /\ Findings \subseteq {"none", "blocked", "degraded", "timeout"}
    /\ {VehicleMayFail, ArchiveMayFail, ArchiveOnCompletion} \subseteq BOOLEAN

VARIABLES
    state,      \* state[m]: MissionRecord.state, Absent when the store has no record
    task,       \* task[m]: where m's executor task is suspended
    calls,      \* operator commands whose adapter call has not answered yet
    finding,    \* finding[m]: the violation SafetyGuard.check(m) would return now;
                \* GuardedFlight says where it comes from
    announced,  \* announced[m]: the last event m's executor emitted
    archived,   \* archived[m]: the terminal state the exported archive records
    up          \* FALSE once the server shuts down

vars == <<state, task, calls, finding, announced, archived, up>>

-----------------------------------------------------------------------------

Absent == "absent"

\* The states of a mission nobody has started to execute.
PreLaunch == {Absent, "draft", "validated", "awaiting_approval", "approved",
              "rejected", "expired"}

\* "none": never created.  "created": create_task was called, the coroutine has
\* not run.  "polling" .. "sleeping": the awaits of the monitor loop.
TaskPoints == {"none", "created", "uploading", "arming", "starting", "polling",
               "sleeping", "returning", "archiving", "done"}

Running    == TaskPoints \ {"none", "done"}
Monitoring == {"polling", "sleeping"}

Operations == {"pause", "resume", "rtl", "abort"}

\* The state each command asks the store for before it calls the vehicle.
Target == [pause |-> "paused", resume |-> "resuming",
           rtl |-> "rtl", abort |-> "aborted"]

Calls == [req : Requests, op : Operations, mission : Missions]

TypeOK ==
    /\ state \in [Missions -> MissionStates \cup {Absent}]
    /\ task \in [Missions -> TaskPoints]
    /\ calls \subseteq Calls
    /\ finding \in [Missions -> Findings]
    /\ announced \in [Missions -> {"nothing", "executing", "failed", "completed",
                                   "rtl", "archived"}]
    /\ archived \in [Missions -> TerminalStates \cup {"nothing"}]
    /\ up \in BOOLEAN

InitFrom(s) ==
    /\ state = [m \in Missions |-> s]
    /\ task = [m \in Missions |-> "none"]
    /\ calls = {}
    /\ finding \in [Missions -> Findings]
    /\ announced = [m \in Missions |-> "nothing"]
    /\ archived = [m \in Missions |-> "nothing"]
    /\ up = TRUE

\* An approved fleet about to fly: MissionApi models how a mission gets there.
Init == InitFrom("approved")

-----------------------------------------------------------------------------
(* What the handlers do to the state s of a mission.                       *)

\* store.transition(mission, t) where InvalidTransition is swallowed.
Attempt(s, t) == IF CanTransition(s, t) THEN t ELSE s

\* Mutant: the crash handler only logs.
FailNothing(s) == s

\* Mutant: the crash handler assigns the state without asking for a transition.
FailAnyway(s) == "failed"

\* MissionExecutor._fail_if_not_terminal.
FailIfNotTerminal(s) == IF IsTerminal(s) THEN s ELSE Attempt(s, "failed")

\* Mutant: the test for a terminal state is lost.
ExportsAnyway(s) == ArchiveOnCompletion

\* "Archive on terminal state", when the settings gave the executor an archiver.
Exports(s) == IsTerminal(s) /\ ArchiveOnCompletion

\* The executor's inner run ends with its mission in s; execute() then exports
\* it or ends.
Finish(m, s) ==
    /\ state' = [state EXCEPT ![m] = s]
    /\ task' = [task EXCEPT ![m] = IF Exports(s) THEN "archiving" ELSE "done"]

Suspend(m, point) == task' = [task EXCEPT ![m] = point]

Announce(m, event) == announced' = [announced EXCEPT ![m] = event]

-----------------------------------------------------------------------------
(* The executor task of mission m.                                         *)

\* execute_mission: approved -> staging, then create_task(executor.execute).
Launch(m) ==
    /\ up
    /\ CanTransition(state[m], "staging")
    /\ state' = [state EXCEPT ![m] = "staging"]
    /\ Suspend(m, "created")
    /\ UNCHANGED <<calls, finding, announced, archived, up>>

\* The coroutine starts and calls upload_mission.
Begin(m) ==
    /\ task[m] = "created"
    /\ Suspend(m, "uploading")
    /\ UNCHANGED <<state, calls, finding, announced, archived, up>>

\* The plan is on the vehicle: staging -> executing, then arm().
Uploaded(m) ==
    /\ task[m] = "uploading"
    /\ IF CanTransition(state[m], "executing")
         THEN /\ state' = [state EXCEPT ![m] = "executing"]
              /\ Suspend(m, "arming")
              /\ Announce(m, "executing")
         ELSE /\ Finish(m, state[m])
              /\ UNCHANGED announced
    /\ UNCHANGED <<calls, finding, archived, up>>

\* upload_mission, arm or start_mission raised: the mission is failed, where
\* the table allows it, and the failure is announced in any case.
SetupFailed(m) ==
    /\ VehicleMayFail
    /\ task[m] \in {"uploading", "arming", "starting"}
    /\ Finish(m, FailIfNotTerminal(state[m]))
    /\ Announce(m, "failed")
    /\ UNCHANGED <<calls, finding, archived, up>>

\* arm() returned: start_mission() is called whatever the state is by now.
Armed(m) ==
    /\ task[m] = "arming"
    /\ Suspend(m, "starting")
    /\ UNCHANGED <<state, calls, finding, announced, archived, up>>

\* Mutant: the loop never yields.
StaysAlways(s) == TRUE

\* The states in which the monitor loop goes on.
Stays(s) == s \in {"executing", "resuming"}

\* The head of the monitor loop: yield, or ask the vehicle for its progress.
LoopHead(m) ==
    /\ IF Stays(state[m]) THEN Suspend(m, "polling") /\ UNCHANGED state
                          ELSE Finish(m, state[m])
    /\ UNCHANGED <<calls, finding, announced, archived, up>>

\* start_mission() returned, or the sleep of the loop is over.
EntersLoop(m) == task[m] \in {"starting", "sleeping"} /\ LoopHead(m)

\* Mutant: mission.completed is emitted even if the transition is refused.
AnnounceAnyCompletion(m) == Announce(m, "completed")

\* mission.completed is emitted after the transition, which raises if refused.
AnnounceCompletion(m) ==
    IF CanTransition(state[m], "completed") THEN Announce(m, "completed")
                                            ELSE UNCHANGED announced

\* get_mission_progress() reports the last waypoint: complete and leave the loop.
ReachesEnd(m) ==
    /\ task[m] = "polling"
    /\ Finish(m, Attempt(state[m], "completed"))
    /\ AnnounceCompletion(m)
    /\ UNCHANGED <<calls, finding, archived, up>>

\* Mutant: timeout.* is only logged.
ActsOnDegraded(f) == f = "degraded"

\* degraded.* and timeout.* are acted on; blocked.* is only logged.
ActsOn(f) == f \in {"degraded", "timeout"}

\* Waypoints are left and the guard reports a violation to act on: RTL, then
\* return_to_launch().  A refused transition ends the loop all the same.
GuardReturns(m) ==
    /\ task[m] = "polling"
    /\ ActsOn(finding[m])
    /\ IF CanTransition(state[m], "rtl")
         THEN /\ state' = [state EXCEPT ![m] = "rtl"]
              /\ Suspend(m, "returning")
         ELSE Finish(m, state[m])
    /\ UNCHANGED <<calls, finding, announced, archived, up>>

\* Waypoints are left and nothing is to be acted on: sleep.
FliesOn(m) ==
    /\ task[m] = "polling"
    /\ ~ ActsOn(finding[m])
    /\ Suspend(m, "sleeping")
    /\ UNCHANGED <<state, calls, finding, announced, archived, up>>

\* get_mission_progress or return_to_launch raised: execute() catches it.
Crashed(m) ==
    /\ VehicleMayFail
    /\ task[m] \in {"polling", "returning"}
    /\ Finish(m, FailIfNotTerminal(state[m]))
    /\ UNCHANGED <<calls, finding, announced, archived, up>>

\* return_to_launch() answered: announce it and leave the loop.
Returned(m) ==
    /\ task[m] = "returning"
    /\ Finish(m, state[m])
    /\ Announce(m, "rtl")
    /\ UNCHANGED <<calls, finding, archived, up>>

\* The export thread is done: the archive holds the state it read.
Exported(m) ==
    /\ task[m] = "archiving"
    /\ archived' = [archived EXCEPT ![m] = state[m]]
    /\ Announce(m, "archived")
    /\ Suspend(m, "done")
    /\ UNCHANGED <<state, calls, finding, up>>

ExportFailed(m) ==
    /\ ArchiveMayFail
    /\ task[m] = "archiving"
    /\ Suspend(m, "done")
    /\ UNCHANGED <<state, calls, finding, announced, archived, up>>

\* CancelledError at the task's await, when the loop is closed.  A coroutine
\* that has not started, or that waits for the export, is outside the try
\* that fails the mission.
Cancelled(m) ==
    /\ ~ up
    /\ calls = {}
    /\ task[m] \in Running
    /\ state' = [state EXCEPT ![m] =
                   IF task[m] \in {"created", "archiving"} THEN @ ELSE FailIfNotTerminal(@)]
    /\ Suspend(m, "done")
    /\ UNCHANGED <<calls, finding, announced, archived, up>>

\* What the task does when the call or the sleep it waits for is over ...
Proceeds(m) ==
    \/ Begin(m)
    \/ Uploaded(m)
    \/ Armed(m)
    \/ EntersLoop(m)
    \/ Returned(m)
    \/ Exported(m)
    \/ ExportFailed(m)

\* ... when the vehicle has reported its progress ...
Polls(m) == ReachesEnd(m) \/ GuardReturns(m) \/ FliesOn(m)

\* ... and when the call raised.
Raises(m) == SetupFailed(m) \/ Crashed(m)

ExecutorStep(m) == Proceeds(m) \/ Polls(m) \/ Raises(m)

-----------------------------------------------------------------------------
(* The operator commands, each in two steps: what the handler does up to   *)
(* its adapter call, and what it does with the answer.  A command that is  *)
(* a duplicate, or that the table refuses (409), changes nothing.          *)

Command(r, op, m) ==
    /\ up
    /\ \A c \in calls : c.req # r
    /\ CanTransition(state[m], Target[op])
    /\ state' = [state EXCEPT ![m] = Target[op]]
    /\ calls' = calls \cup {[req |-> r, op |-> op, mission |-> m]}
    /\ UNCHANGED <<task, finding, announced, archived, up>>

\* pause, rtl and abort answer the same whether the vehicle obeyed or raised.
Answered(c) ==
    /\ c.op # "resume"
    /\ calls' = calls \ {c}
    /\ UNCHANGED <<state, task, finding, announced, archived, up>>

\* start_mission() returned; a refused transition falls into the handler's
\* except clause, which is refused again and gives up.
Resumed(c) ==
    /\ c.op = "resume"
    /\ calls' = calls \ {c}
    /\ state' = [state EXCEPT ![c.mission] = Attempt(@, "executing")]
    /\ UNCHANGED <<task, finding, announced, archived, up>>

\* Mutant: a resume that raises leaves the mission where it is.
LeftInPlace(s) == s

\* resuming -> executing -> failed, unless the first transition is refused.
AfterFailedResume(s) ==
    IF CanTransition(s, "executing") THEN Attempt("executing", "failed") ELSE s

\* start_mission() raised.
ResumeFailed(c) ==
    /\ VehicleMayFail
    /\ c.op = "resume"
    /\ calls' = calls \ {c}
    /\ state' = [state EXCEPT ![c.mission] = AfterFailedResume(@)]
    /\ UNCHANGED <<task, finding, announced, archived, up>>

Reply(r) == \E c \in calls : c.req = r /\ (Answered(c) \/ Resumed(c) \/ ResumeFailed(c))

-----------------------------------------------------------------------------
(* The surroundings: telemetry and the clock change what the guard would   *)
(* say, and the server may be told to stop.  It then takes no new request, *)
(* waits for the ones in flight and closes the loop (see Cancelled).       *)

FindingChanges ==
    /\ finding' \in [Missions -> Findings]
    /\ finding' # finding
    /\ UNCHANGED <<state, task, calls, announced, archived, up>>

Shutdown ==
    /\ up
    /\ up' = FALSE
    /\ UNCHANGED <<state, task, calls, finding, announced, archived>>

-----------------------------------------------------------------------------

\* Everything that happens to missions once they are launched.
FlightStep ==
    \/ \E m \in Missions : ExecutorStep(m) \/ Cancelled(m)
    \/ \E r \in Requests, op \in Operations, m \in Missions : Command(r, op, m)
    \/ \E r \in Requests : Reply(r)
    \/ FindingChanges
    \/ Shutdown

Next == FlightStep \/ \E m \in Missions : Launch(m)

\* The loop runs every task that can run, and every adapter call and export
\* ends at last, with an answer or an exception.
Fairness ==
    /\ \A m \in Missions : WF_vars(ExecutorStep(m))
    /\ \A r \in Requests : WF_vars(Reply(r))

Spec == Init /\ [][Next]_vars

FairSpec == Spec /\ Fairness

-----------------------------------------------------------------------------
(* Safety.                                                                 *)

ResumesOf(m) == {c \in calls : c.op = "resume" /\ c.mission = m}

\* While resume_mission waits for the vehicle, the mission is its own: it is
\* in RESUMING exactly as long as one resume, and only one, is in flight, so the
\* handler's second transition cannot be refused (commands.py:70-101).
ResumingIsOwned ==
    \A m \in Missions :
        /\ state[m] = "resuming" <=> ResumesOf(m) # {}
        /\ \A c, d \in ResumesOf(m) : c = d

\* A mission gets one executor task in its life: execute_mission never creates
\* a second one, however often it is called and whatever became of the first
\* (missions.py:231-249).
NoSecondExecutor ==
    [][\A m \in Missions :
          task[m] \notin {"none", "created"} => task'[m] \notin {"none", "created"}]_vars

\* Unless the service is shutting down, no executor task that ends leaves its
\* mission in staging or executing, which nobody else ends: the mission is over,
\* or an operator or the guard has moved it on (executor.py:41-63, 120-122,
\* 126-136, 144-154).
ExecutorNeverAbandons ==
    [][\A m \in Missions :
          up /\ task[m] \in Running /\ task'[m] = "done"
             => state'[m] \notin {"staging", "executing"}]_vars

\* What is archived stays true: the terminal state in the archive is the
\* mission's state at any later time (executor.py:53-59).
ArchiveIsFinal ==
    \A m \in Missions : archived[m] # "nothing" => archived[m] = state[m]

\* What the executor announced last agrees with the store.  A mission announced as
\* completed, returning or archived is so, and no mission leaves staging but with
\* an event or by a cancelled task.  "failed" promises less than it says: if an
\* operator has paused the mission, is resuming it or has aborted it when arm() or
\* start_mission() raises, it does not fail and may even execute again; but its
\* executor is over, and it never completes
\* (executor.py:57-59, 63-72, 99, 106-110, 126-136, 144-151).
AnnouncedMatchesState ==
    \A m \in Missions :
        /\ announced[m] = "completed" => state[m] = "completed"
        /\ announced[m] = "rtl" => state[m] = "rtl"
        /\ announced[m] = "archived" => IsTerminal(state[m]) /\ archived[m] = state[m]
        /\ announced[m] = "executing" => state[m] \notin PreLaunch \cup {"staging"}
        /\ announced[m] = "nothing" => state[m] \in PreLaunch \cup {"staging", "failed"}
        /\ announced[m] = "failed" =>
              /\ task[m] \in {"archiving", "done"}
              /\ state[m] \notin PreLaunch \cup {"staging", "completed"}

\* Where the executor task stands agrees with what the store says: a mission has
\* a task exactly when it has left the pre-launch states, it is staging exactly
\* while the task has not finished the upload (a shutdown may strand it there),
\* a task that waits for the way home has its mission in RTL, and one that waits
\* for the export has it in a terminal state (executor.py:74-158, 53-62).
TaskMatchesState ==
    \A m \in Missions :
        /\ task[m] = "none" <=> state[m] \in PreLaunch
        /\ task[m] \in {"created", "uploading"} => state[m] = "staging"
        /\ up /\ state[m] = "staging" => task[m] \in {"created", "uploading"}
        /\ task[m] = "returning" => state[m] = "rtl"
        /\ task[m] = "archiving" => IsTerminal(state[m])

\* What follows the executor's last event: nothing moves a mission on from a
\* return that was announced, only an ended task has exported, and only the
\* executor completes a mission, on its way out.
LastWord ==
    \A m \in Missions :
        /\ announced[m] = "rtl" => task[m] = "done"
        /\ archived[m] # "nothing" => task[m] = "done" /\ IsTerminal(state[m])
        /\ state[m] = "completed" => task[m] \in {"archiving", "done"}

\* The inductive invariant: see MissionExecutionProofs.
ExecutionInvariant ==
    /\ TypeOK
    /\ TaskMatchesState
    /\ ResumingIsOwned
    /\ ArchiveIsFinal
    /\ AnnouncedMatchesState
    /\ LastWord

-----------------------------------------------------------------------------
(* Liveness, under FairSpec.                                               *)

\* Staging ends, in executing or in failed, unless the service stops first.
StagingResolves ==
    \A m \in Missions : state[m] = "staging" ~> state[m] # "staging" \/ ~ up

\* No mission stays in RESUMING.
ResumingResolves ==
    \A m \in Missions : state[m] = "resuming" ~> state[m] # "resuming"

\* The executor of a mission an operator aborted, or that ended in any other
\* way, notices it and ends.
ExecutorWindsDown ==
    \A m \in Missions : IsTerminal(state[m]) ~> task[m] \in {"none", "done"}

-----------------------------------------------------------------------------
(* What the documentation says and the code does not do.                   *)

\* README.md:37, "No lower layer may override a higher layer": the executor
\* (layer 4) does not start the vehicle on a mission an operator safety command
\* (layer 3) has stopped.  It does: executor.py:104-105 awaits arm() and calls
\* start_mission() with no look at the state in between.
StartRespectsOperator ==
    [][\A m \in Missions :
          task[m] = "arming" /\ task'[m] = "starting" => state[m] = "executing"]_vars

\* executor.py:42, "Run mission from staging through completion": a mission that
\* executes has its executor.  After pause and resume it has none: the first
\* executor has left and resume_mission starts no other (executor.py:120-122).
ExecutingIsMonitored ==
    \A m \in Missions : state[m] = "executing" => task[m] \in Running

\* executor.py:53, "Archive on terminal state": a mission that was executed and
\* ended is archived.  One that is aborted while paused is not: its executor
\* left at the pause, and abort_mission exports nothing.
TerminalIsArchived ==
    \A m \in Missions :
        IsTerminal(state[m]) /\ task[m] # "none" ~> archived[m] = state[m] \/ ~ up

=============================================================================
