------------------------ MODULE MissionExecutionProofs ----------------------
(***************************************************************************)
(* Proofs about MissionExecution, for any set of missions and of           *)
(* concurrent requests.                                                    *)
(***************************************************************************)
EXTENDS MissionExecution, TLAPS

-----------------------------------------------------------------------------
(* The table of state_machine.py.                                          *)

\* The table, pair by pair: what the provers use instead of the products.
LEMMA TransitionCases ==
    \A s, t : CanTransition(s, t) <=>
        \/ s = "draft" /\ t = "validated"
        \/ s = "validated" /\ t \in {"awaiting_approval", "rejected"}
        \/ s = "awaiting_approval" /\ t \in {"approved", "rejected"}
        \/ s = "approved" /\ t \in {"staging", "expired"}
        \/ s = "staging" /\ t \in {"executing", "failed"}
        \/ s = "executing" /\ t \in {"paused", "rtl", "aborted", "completed", "failed",
                                     "manual_handover"}
        \/ s = "paused" /\ t \in {"resuming", "rtl", "aborted", "manual_handover"}
        \/ s = "resuming" /\ t = "executing"
        \/ s = "rtl" /\ t \in {"completed", "failed"}
        \/ s = "manual_handover" /\ t = "paused"
BY DEF CanTransition, Transitions

\* The terminal states are the five without an entry in the table.
LEMMA TerminalCases ==
    TerminalStates = {"rejected", "expired", "aborted", "completed", "failed"}
BY TransitionCases DEF TerminalStates, MissionStates

LEMMA InitInvariant == \A s \in {Absent, "approved"} : InitFrom(s) => ExecutionInvariant
BY ExecutionAssumption, TerminalCases
   DEF InitFrom, ExecutionInvariant, TypeOK, TaskMatchesState, ResumingIsOwned, ResumesOf,
       ArchiveIsFinal, AnnouncedMatchesState, LastWord, TaskPoints, PreLaunch, MissionStates,
       IsTerminal, Absent

-----------------------------------------------------------------------------
(* Every step preserves the invariant: one step per action.  The actions   *)
(* of a task touch the state, the task point and perhaps the last event or *)
(* the archive of one mission; the commands touch `calls` as well and are  *)
(* taken apart conjunct by conjunct.                                       *)

LEMMA StepInvariant == ExecutionInvariant /\ [Next]_vars => ExecutionInvariant'
<1> SUFFICES ASSUME ExecutionInvariant, [Next]_vars PROVE ExecutionInvariant'
  OBVIOUS
<1> USE TransitionCases, TerminalCases
    DEF ExecutionInvariant, TypeOK, TaskMatchesState, ResumingIsOwned, ResumesOf,
        ArchiveIsFinal, AnnouncedMatchesState, LastWord, TaskPoints, PreLaunch, MissionStates,
        IsTerminal, Absent, Calls
<1>1. ASSUME NEW m \in Missions, Launch(m) PROVE ExecutionInvariant'
  BY <1>1 DEF Launch, Suspend
<1>2. ASSUME NEW m \in Missions, Begin(m) PROVE ExecutionInvariant'
  BY <1>2 DEF Begin, Suspend
<1>3. ASSUME NEW m \in Missions, Uploaded(m) PROVE ExecutionInvariant'
  BY <1>3 DEF Uploaded, Suspend, Finish, Exports, Announce
<1>4. ASSUME NEW m \in Missions, SetupFailed(m) PROVE ExecutionInvariant'
  <2>1. /\ task[m] \in {"uploading", "arming", "starting"}
        /\ state' = [state EXCEPT ![m] = FailIfNotTerminal(@)]
        /\ task'[m] \in {"archiving", "done"}
        /\ task' = [task EXCEPT ![m] = task'[m]]
        /\ task'[m] = "archiving" => IsTerminal(state'[m])
        /\ announced' = [announced EXCEPT ![m] = "failed"]
        /\ UNCHANGED <<calls, finding, archived, up>>
    BY <1>4 DEF SetupFailed, Finish, Exports, Announce
  <2>2. \/ state'[m] = "failed" /\ state[m] \in {"staging", "executing", "rtl"}
        \/ /\ state'[m] = state[m]
           /\ state[m] \notin {"staging", "executing", "completed"}
    BY <2>1 DEF FailIfNotTerminal, Attempt
  <2>3. TypeOK' /\ TaskMatchesState' /\ ResumingIsOwned'
    BY <2>1, <2>2
  <2>4. ArchiveIsFinal' /\ AnnouncedMatchesState' /\ LastWord'
    BY <2>1, <2>2
  <2> QED
    BY <2>3, <2>4
<1>5. ASSUME NEW m \in Missions, Armed(m) PROVE ExecutionInvariant'
  BY <1>5 DEF Armed, Suspend
<1>6. ASSUME NEW m \in Missions, EntersLoop(m) PROVE ExecutionInvariant'
  BY <1>6 DEF EntersLoop, LoopHead, Stays, Suspend, Finish, Exports
<1>7. ASSUME NEW m \in Missions, ReachesEnd(m) PROVE ExecutionInvariant'
  BY <1>7 DEF ReachesEnd, Finish, Exports, Attempt, AnnounceCompletion, Announce
<1>8. ASSUME NEW m \in Missions, GuardReturns(m) PROVE ExecutionInvariant'
  BY <1>8 DEF GuardReturns, Suspend, Finish, Exports
<1>9. ASSUME NEW m \in Missions, FliesOn(m) PROVE ExecutionInvariant'
  BY <1>9 DEF FliesOn, Suspend
<1>10. ASSUME NEW m \in Missions, Crashed(m) PROVE ExecutionInvariant'
  BY <1>10 DEF Crashed, Finish, Exports, FailIfNotTerminal, Attempt
<1>11. ASSUME NEW m \in Missions, Returned(m) PROVE ExecutionInvariant'
  BY <1>11 DEF Returned, Finish, Exports, Announce
<1>12. ASSUME NEW m \in Missions, Exported(m) PROVE ExecutionInvariant'
  BY <1>12 DEF Exported, Announce, Suspend
<1>13. ASSUME NEW m \in Missions, ExportFailed(m) PROVE ExecutionInvariant'
  BY <1>13 DEF ExportFailed, Suspend
<1>14. ASSUME NEW m \in Missions, Cancelled(m) PROVE ExecutionInvariant'
  BY <1>14 DEF Cancelled, Running, FailIfNotTerminal, Attempt, Suspend
<1>15. ASSUME NEW r \in Requests, NEW op \in Operations, NEW m \in Missions,
             Command(r, op, m)
      PROVE ExecutionInvariant'
  <2> DEFINE call == [req |-> r, op |-> op, mission |-> m]
  <2>1. /\ call \in Calls
        /\ calls' = calls \cup {call}
        /\ state' = [state EXCEPT ![m] = Target[op]]
        /\ UNCHANGED <<task, finding, announced, archived, up>>
    BY <1>15 DEF Command
  <2>2. \/ op = "pause"  /\ state[m] = "executing" /\ state'[m] = "paused"
        \/ op = "resume" /\ state[m] = "paused" /\ state'[m] = "resuming"
        \/ op = "rtl"    /\ state[m] \in {"executing", "paused"} /\ state'[m] = "rtl"
        \/ op = "abort"  /\ state[m] \in {"executing", "paused"} /\ state'[m] = "aborted"
        \/ op = "pause"  /\ state[m] = "manual_handover" /\ state'[m] = "paused"
    BY <1>15 DEF Command, Operations, Target
  <2>3. TypeOK'
    BY <2>1, <2>2
  <2>4. TaskMatchesState'
    BY <2>1, <2>2
  <2>5. ResumingIsOwned'
    <3>1. ASSUME NEW n \in Missions, n # m
          PROVE ResumesOf(n)' = ResumesOf(n) /\ state'[n] = state[n]
      BY <2>1, <3>1
    <3>2. op # "resume" => state'[m] # "resuming" /\ ResumesOf(m)' = {}
      BY <2>1, <2>2
    <3>3. op = "resume" => /\ state'[m] = "resuming"
                           /\ \A c : c \in ResumesOf(m)' <=> c = call
      BY <2>1, <2>2
    <3>4. ASSUME NEW n \in Missions
          PROVE /\ state'[n] = "resuming" <=> ResumesOf(n)' # {}
                /\ \A c, d \in ResumesOf(n)' : c = d
      <4>1. CASE n # m
        BY <3>1, <4>1
      <4>2. CASE n = m /\ op # "resume"
        BY <3>2, <4>2
      <4>3. CASE n = m /\ op = "resume"
        <5>1. state'[n] = "resuming" /\ call \in ResumesOf(n)'
          BY <3>3, <4>3
        <5>2. \A c, d \in ResumesOf(n)' : c = d
          BY <3>3, <4>3
        <5> QED
          BY <5>1, <5>2
      <4> QED
        BY <4>1, <4>2, <4>3
    <3> QED
      BY <3>4
  <2>6. ArchiveIsFinal' /\ AnnouncedMatchesState' /\ LastWord'
    BY <2>1, <2>2
  <2> QED
    BY <2>3, <2>4, <2>5, <2>6
<1>16. ASSUME NEW c \in calls, Answered(c) PROVE ExecutionInvariant'
  BY <1>16 DEF Answered
<1>17. ASSUME NEW c \in calls, Resumed(c) PROVE ExecutionInvariant'
  BY <1>17 DEF Resumed, Attempt
<1>18. ASSUME NEW c \in calls, ResumeFailed(c) PROVE ExecutionInvariant'
  BY <1>18 DEF ResumeFailed, AfterFailedResume, Attempt
<1>19. CASE FindingChanges
  BY <1>19 DEF FindingChanges
<1>20. CASE Shutdown
  <2>1. TypeOK'
    <3>1. up' \in BOOLEAN
      BY <1>20, Zenon DEF Shutdown
    <3> QED
      BY <1>20, <3>1 DEF Shutdown
  <2>2. TaskMatchesState'
    BY <1>20 DEF Shutdown
  <2>3. ResumingIsOwned'
    BY <1>20 DEF Shutdown
  <2>4. ArchiveIsFinal' /\ AnnouncedMatchesState' /\ LastWord'
    BY <1>20 DEF Shutdown
  <2> QED
    BY <2>1, <2>2, <2>3, <2>4
<1>21. CASE UNCHANGED vars
  BY <1>21 DEF vars
<1>22. QED
  BY <1>1, <1>2, <1>3, <1>4, <1>5, <1>6, <1>7, <1>8, <1>9, <1>10, <1>11, <1>12, <1>13, <1>14, <1>15, <1>16, <1>17, <1>18, <1>19, <1>20, <1>21 DEF Next, FlightStep, ExecutorStep, Proceeds, Polls, Raises, Reply

-----------------------------------------------------------------------------
(* The invariants.                                                         *)

\* Every reachable state satisfies the inductive invariant: task points, stored
\* states, commands in flight, archives and events agree, for any number of
\* missions and concurrent requests.
THEOREM ExecutionInvariantHolds == Spec => []ExecutionInvariant
<1>1. Init => ExecutionInvariant
  BY InitInvariant DEF Init
<1> QED
  BY <1>1, StepInvariant, PTL DEF Spec

\* Type correctness of the executor, the commands and the store's states.
THEOREM TypeCorrect == Spec => []TypeOK
<1>1. ExecutionInvariant => TypeOK
  BY DEF ExecutionInvariant
<1> QED
  BY <1>1, ExecutionInvariantHolds, PTL

\* The executor's task points agree with the store (executor.py:53-158).
THEOREM TasksMatchStates == Spec => []TaskMatchesState
<1>1. ExecutionInvariant => TaskMatchesState
  BY DEF ExecutionInvariant
<1> QED
  BY <1>1, ExecutionInvariantHolds, PTL

\* A mission is in RESUMING exactly while one resume, and only one, waits for
\* the vehicle: the second transition of resume_mission is never refused
\* (commands.py:70-101).
THEOREM ResumingOwned == Spec => []ResumingIsOwned
<1>1. ExecutionInvariant => ResumingIsOwned
  BY DEF ExecutionInvariant
<1> QED
  BY <1>1, ExecutionInvariantHolds, PTL

\* The terminal state in an archive is never contradicted later
\* (executor.py:53-59).
THEOREM ArchivesAreFinal == Spec => []ArchiveIsFinal
<1>1. ExecutionInvariant => ArchiveIsFinal
  BY DEF ExecutionInvariant
<1> QED
  BY <1>1, ExecutionInvariantHolds, PTL

\* The executor's last event, whichever it is, agrees with the store and with the
\* task; of a mission announced as failed only that its executor is over and that
\* it never completes (executor.py:57-59, 63-72, 99, 106-110, 126-136, 144-151).
THEOREM AnnouncementsMatchStates == Spec => []AnnouncedMatchesState
<1>1. ExecutionInvariant => AnnouncedMatchesState
  BY DEF ExecutionInvariant
<1> QED
  BY <1>1, ExecutionInvariantHolds, PTL

-----------------------------------------------------------------------------
(* The action properties.                                                  *)

\* No mission ever gets a second executor task (missions.py:231-249).
THEOREM NeverSecondExecutor == Spec => NoSecondExecutor
<1> DEFINE Once == \A m \in Missions :
                     task[m] \notin {"none", "created"} => task'[m] \notin {"none", "created"}
<1>1. ExecutionInvariant /\ [Next]_vars => [Once]_vars
  <2> SUFFICES ASSUME ExecutionInvariant, Next, NEW m \in Missions,
                      task[m] \notin {"none", "created"}
               PROVE  task'[m] \notin {"none", "created"}
    OBVIOUS
  <2> USE DEF ExecutionInvariant, TypeOK
  <2>1. ASSUME NEW n \in Missions, Launch(n) PROVE task'[m] = task[m]
    <3>1. state[n] \in PreLaunch /\ state[m] \notin PreLaunch
      BY <2>1, TransitionCases DEF Launch, TaskMatchesState, PreLaunch
    <3> QED
      BY <2>1, <3>1 DEF Launch, Suspend
  <2>2. ASSUME NEW n \in Missions, ExecutorStep(n) \/ Cancelled(n)
        PROVE  task'[m] \notin {"none", "created"}
    BY <2>2 DEF ExecutorStep, Proceeds, Polls, Raises, Cancelled, Begin, Uploaded, SetupFailed, Armed, EntersLoop, LoopHead,
           ReachesEnd, GuardReturns, FliesOn, Crashed, Returned, Exported, ExportFailed,
           Finish, Exports, Suspend
  <2>3. ASSUME UNCHANGED task PROVE task'[m] \notin {"none", "created"}
    BY <2>3
  <2> QED
    BY <2>1, <2>2, <2>3 DEF Next, FlightStep, Command, Reply, Answered, Resumed, ResumeFailed,
                            FindingChanges, Shutdown
<1> QED
  BY <1>1, ExecutionInvariantHolds, PTL DEF Spec, NoSecondExecutor

\* Unless the service shuts down, an executor that ends leaves no mission behind
\* in staging or executing (executor.py:41-63, 120-136).
THEOREM ExecutorsNeverAbandon == Spec => ExecutorNeverAbandons
<1> DEFINE HandsOver == \A m \in Missions :
                          up /\ task[m] \in Running /\ task'[m] = "done"
                            => state'[m] \notin {"staging", "executing"}
<1>1. ExecutionInvariant /\ [Next]_vars => [HandsOver]_vars
  <2> SUFFICES ASSUME ExecutionInvariant, Next, NEW m \in Missions,
                      up, task[m] \in Running, task'[m] = "done"
               PROVE  state'[m] \notin {"staging", "executing"}
    OBVIOUS
  <2> USE TransitionCases, TerminalCases DEF ExecutionInvariant, TypeOK, Running, IsTerminal
  <2>1. ASSUME NEW n \in Missions, Launch(n) PROVE FALSE
    BY <2>1 DEF Launch, Suspend
  <2>2. ASSUME NEW n \in Missions, ExecutorStep(n)
        PROVE  state'[m] \notin {"staging", "executing"}
    BY <2>2 DEF TaskMatchesState, ExecutorStep, Proceeds, Polls, Raises, Begin, Uploaded, SetupFailed, Armed, EntersLoop,
           LoopHead, Stays, ReachesEnd, GuardReturns, FliesOn, Crashed, Returned, Exported,
           ExportFailed, Finish, Exports, Suspend, Attempt, FailIfNotTerminal
  <2>3. ASSUME NEW n \in Missions, Cancelled(n) PROVE FALSE
    BY <2>3 DEF Cancelled
  <2>4. ASSUME UNCHANGED task PROVE FALSE
    BY <2>4
  <2> QED
    BY <2>1, <2>2, <2>3, <2>4 DEF Next, FlightStep, Command, Reply, Answered, Resumed, ResumeFailed,
                                  FindingChanges, Shutdown
<1> QED
  BY <1>1, ExecutionInvariantHolds, PTL DEF Spec, ExecutorNeverAbandons

=============================================================================
