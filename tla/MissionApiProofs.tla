-------------------------- MODULE MissionApiProofs --------------------------
(***************************************************************************)
(* Proofs about MissionApi, for any missions, requests and keys: its       *)
(* safety invariants and that it implements MissionGovernance.             *)
(***************************************************************************)
EXTENDS MissionApi, MissionExecutionProofs

ApiInvariant ==
    /\ ExecutionInvariant
    /\ ApiTypeOK
    /\ ApprovalMatchesState
    /\ Provenance
    /\ KeysTellTheTruth

-----------------------------------------------------------------------------
(* What a step of MissionExecution may do to the store and to the archive. *)

\* One mission in flight, and not over, moves to a state after launch.
FlightMove ==
    \E m \in Missions, s \in MissionStates \ PreLaunch :
        /\ state[m] \notin PreLaunch
        /\ ~ IsTerminal(state[m])
        /\ state' = [state EXCEPT ![m] = s]
        /\ UNCHANGED archived

\* The outcome of one mission is archived.
FlightArchives ==
    \E m \in Missions :
        /\ state[m] \notin PreLaunch
        /\ IsTerminal(state[m])
        /\ archived[m] = "nothing"
        /\ archived' = [archived EXCEPT ![m] = state[m]]
        /\ UNCHANGED state

LEMMA FlightEffect ==
    ExecutionInvariant /\ FlightStep
        => FlightMove \/ FlightArchives \/ UNCHANGED <<state, archived>>
<1> SUFFICES ASSUME ExecutionInvariant, FlightStep
             PROVE  FlightMove \/ FlightArchives \/ UNCHANGED <<state, archived>>
  OBVIOUS
<1> USE TransitionCases, TerminalCases
    DEF ExecutionInvariant, TypeOK, TaskMatchesState, LastWord, PreLaunch, MissionStates,
        IsTerminal, Absent
<1>1. ASSUME NEW m \in Missions, Uploaded(m) PROVE FlightMove
  BY <1>1 DEF Uploaded, FlightMove
<1>2. ASSUME NEW m \in Missions, SetupFailed(m) \/ Crashed(m) \/ ReachesEnd(m) \/ GuardReturns(m)
      PROVE  FlightMove \/ UNCHANGED <<state, archived>>
  <2>1. CASE SetupFailed(m) \/ Crashed(m)
    BY <2>1 DEF SetupFailed, Crashed, Finish, Attempt, FailIfNotTerminal, FlightMove
  <2>2. CASE ReachesEnd(m)
    BY <2>2 DEF ReachesEnd, Finish, Attempt, FlightMove
  <2>3. CASE GuardReturns(m)
    BY <2>3 DEF GuardReturns, Finish, FlightMove
  <2> QED
    BY <1>2, <2>1, <2>2, <2>3
<1>3. ASSUME NEW m \in Missions, EntersLoop(m) \/ Returned(m) PROVE UNCHANGED <<state, archived>>
  BY <1>3 DEF EntersLoop, LoopHead, Returned, Finish
<1>4. ASSUME NEW m \in Missions, Begin(m) \/ Armed(m) \/ FliesOn(m) \/ ExportFailed(m)
      PROVE  UNCHANGED <<state, archived>>
  BY <1>4 DEF Begin, Armed, FliesOn, ExportFailed
<1>5. ASSUME NEW m \in Missions, Exported(m) PROVE FlightArchives
  BY <1>5 DEF Exported, FlightArchives
<1>6. ASSUME NEW m \in Missions, Cancelled(m) PROVE FlightMove \/ UNCHANGED <<state, archived>>
  BY <1>6 DEF Cancelled, Running, TaskPoints, FailIfNotTerminal, Attempt, FlightMove
<1>7. ASSUME NEW r \in Requests, NEW op \in Operations, NEW m \in Missions, Command(r, op, m)
      PROVE  FlightMove
  <2>1. Target[op] \in {"paused", "resuming", "rtl", "aborted"}
    BY DEF Operations, Target
  <2>2. /\ CanTransition(state[m], Target[op])
        /\ state' = [state EXCEPT ![m] = Target[op]]
        /\ UNCHANGED archived
    BY <1>7 DEF Command
  <2> QED
    BY <2>1, <2>2 DEF FlightMove
<1>8. ASSUME NEW c \in calls, Answered(c) \/ Resumed(c) \/ ResumeFailed(c)
      PROVE  FlightMove \/ UNCHANGED <<state, archived>>
  <2>1. c.mission \in Missions
    BY DEF Calls
  <2> QED
    BY <1>8, <2>1 DEF Answered, Resumed, ResumeFailed, AfterFailedResume, Attempt, FlightMove
<1>9. CASE FindingChanges
  BY <1>9 DEF FindingChanges
<1>10. CASE Shutdown
  BY <1>10 DEF Shutdown
<1> QED
  BY <1>1, <1>2, <1>3, <1>4, <1>5, <1>6, <1>7, <1>8, <1>9, <1>10
     DEF FlightStep, ExecutorStep, Proceeds, Polls, Raises, Reply

-----------------------------------------------------------------------------
(* The invariant of the composition.                                       *)

LEMMA ApiInitInvariant == ApiInit => ApiInvariant
<1> SUFFICES ASSUME ApiInit PROVE ApiInvariant
  OBVIOUS
<1>1. ExecutionInvariant
  BY InitInvariant DEF ApiInit
<1> QED
  BY <1>1, TerminalCases
     DEF ApiInit, InitFrom, ApiInvariant, ExecutionInvariant, ApiTypeOK, ApprovalMatchesState,
         Provenance, KeysTellTheTruth, Approved, MissionStates, Absent, Results

\* A request that moves a mission before its launch keeps the invariant of
\* MissionExecution.
LEMMA MovesInvariant ==
    ASSUME ExecutionInvariant,
           NEW m \in Missions, state[m] \in PreLaunch,
           NEW s \in PreLaunch, Moves(m, s)
    PROVE  ExecutionInvariant'
<1> USE TransitionCases, TerminalCases
    DEF ExecutionInvariant, TypeOK, TaskMatchesState, ResumingIsOwned, ResumesOf,
        ArchiveIsFinal, AnnouncedMatchesState, LastWord, PreLaunch, MissionStates,
        IsTerminal, Absent, Moves
<1>1. archived[m] = "nothing" /\ announced[m] = "nothing"
  OBVIOUS
<1> QED
  BY <1>1

LEMMA ApiStepInvariant == ApiInvariant /\ [ApiNext]_allVars => ApiInvariant'
<1> SUFFICES ASSUME ApiInvariant, [ApiNext]_allVars PROVE ApiInvariant'
  OBVIOUS
<1> USE TransitionCases, TerminalCases
    DEF ApiInvariant, ApiTypeOK, ApprovalMatchesState, Provenance, KeysTellTheTruth,
        Approved, MissionStates, PreLaunch, Absent, Results, Reviews
<1>1. state \in [Missions -> MissionStates \cup {Absent}]
  BY DEF ExecutionInvariant, TypeOK
<1>2. ASSUME NEW m \in Missions, Create(m) PROVE ApiInvariant'
  <2>1. state[m] \in PreLaunch /\ Moves(m, "draft")
    BY <1>2 DEF Create, Exists
  <2>2. ExecutionInvariant'
    BY <2>1, MovesInvariant
  <2> QED
    BY <1>1, <1>2, <2>1, <2>2 DEF Create, Exists, Moves, apiVars, ExecutionInvariant
<1>3. ASSUME NEW m \in Missions, NEW k \in Keys \cup {NoKey}, NEW v \in {"passed", "failed"},
             Validate(m, k, v)
      PROVE  ApiInvariant'
  <2>1. CASE AfterValidation(state[m], v) = state[m]
    <3>1. UNCHANGED vars
      BY <1>1, <1>3, <2>1 DEF Validate, Moves, vars
    <3> QED
      BY <1>3, <3>1, StepInvariant DEF Validate, Record, vars, ExecutionInvariant
  <2>2. CASE AfterValidation(state[m], v) # state[m]
    <3>1. state[m] = "draft" /\ AfterValidation(state[m], v) = "awaiting_approval"
      BY <2>2 DEF AfterValidation
    <3>2. ExecutionInvariant'
      BY <1>3, <3>1, MovesInvariant DEF Validate
    <3> QED
      BY <1>1, <1>3, <3>1, <3>2 DEF Validate, Moves, Record, ExecutionInvariant
  <2> QED
    BY <2>1, <2>2
<1>4. ASSUME NEW q \in Reviewers, NEW m \in Missions, NEW k \in Keys \cup {NoKey},
             Approve(q, m, k)
      PROVE  ApiInvariant'
  BY <1>4, StepInvariant DEF Approve, vars, ExecutionInvariant
<1>5. ASSUME NEW c \in reviews, ReviewFailed(c) PROVE ApiInvariant'
  BY <1>5, StepInvariant DEF ReviewFailed, vars, ExecutionInvariant
<1>6. ASSUME NEW c \in reviews, NEW status \in Statuses, Reviewed(c, status)
      PROVE  ApiInvariant'
  <2> DEFINE m == c.mission
  <2>1. m \in Missions /\ c.key \in Keys \cup {NoKey}
    OBVIOUS
  <2>2. CASE UNCHANGED <<vars, approval, keys>>
    <3>1. ExecutionInvariant'
      BY <2>2, StepInvariant DEF vars
    <3> QED
      BY <1>6, <2>1, <2>2, <3>1 DEF Reviewed, Link, vars, ExecutionInvariant
  <2>3. CASE /\ status = "rejected"
             /\ CanTransition(state[m], "rejected")
             /\ Moves(m, "rejected")
             /\ Record(m, c.key, "rejected")
             /\ UNCHANGED approval
    <3>1. ExecutionInvariant'
      BY <2>1, <2>3, MovesInvariant
    <3> QED
      <4>1. ApiTypeOK'
        BY <1>6, <2>1, <2>3, <3>1 DEF Reviewed, Link, Record, ExecutionInvariant
      <4>2. ApprovalMatchesState'
        BY <1>1, <2>1, <2>3 DEF Moves
      <4>3. Provenance'
        BY <1>1, <1>6, <2>1, <2>3 DEF Reviewed, Link, Moves
      <4>4. KeysTellTheTruth'
        BY <1>1, <1>6, <2>1, <2>3 DEF Reviewed, Moves, Record
      <4> QED
        BY <3>1, <4>1, <4>2, <4>3, <4>4
  <2>4. CASE /\ status # "rejected"
             /\ CanTransition(state[m], "approved")
             /\ Moves(m, "approved")
             /\ approval' = [approval EXCEPT ![m] = "approved"]
             /\ Record(m, c.key, "approved")
    <3>1. ExecutionInvariant'
      BY <2>1, <2>4, MovesInvariant
    <3> QED
      <4>1. ApiTypeOK'
        BY <1>6, <2>1, <2>4, <3>1 DEF Reviewed, Link, Record, ExecutionInvariant
      <4>2. ApprovalMatchesState'
        BY <1>1, <2>1, <2>4 DEF Moves
      <4>3. Provenance'
        BY <1>1, <1>6, <2>1, <2>4 DEF Reviewed, Link, Moves
      <4>4. KeysTellTheTruth'
        <5>1. \A n \in Missions, k \in Keys :
                keys'[n][k] = keys[n][k] \/ (n = m /\ keys'[n][k] = "approved")
          BY <2>1, <2>4 DEF Record
        <5>2. \A n \in Missions : /\ approval[n] = "approved" => approval'[n] = "approved"
                                  /\ state[n] = "rejected" => state'[n] = "rejected"
          BY <1>1, <2>1, <2>4 DEF Moves
        <5>3. approval'[m] = "approved" /\ UNCHANGED <<verdict, task>>
          BY <1>6, <2>1, <2>4 DEF Reviewed, Moves
        <5> QED
          BY <5>1, <5>2, <5>3
      <4> QED
        BY <3>1, <4>1, <4>2, <4>3, <4>4
  <2> QED
    BY <1>6, <2>2, <2>3, <2>4 DEF Reviewed, Rejects, Approves
<1>7. ASSUME NEW m \in Missions, NEW k \in Keys \cup {NoKey}, Execute(m, k)
      PROVE  ApiInvariant'
  <2>1. ExecutionInvariant'
    BY <1>7, StepInvariant DEF Execute, Next
  <2> QED
    BY <1>1, <1>7, <2>1 DEF Execute, Launch, Suspend, Record, ExecutionInvariant, TypeOK
<1>8. CASE FlightStep /\ UNCHANGED apiVars
  <2>1. ExecutionInvariant'
    BY <1>8, StepInvariant DEF Next
  <2>2. \A m \in Missions : \/ state'[m] = state[m]
                            \/ state[m] \notin PreLaunch /\ state'[m] \notin PreLaunch
    BY <1>1, <1>8, FlightEffect DEF FlightMove, FlightArchives
  <2>3. \A m \in Missions : task'[m] = "none" => task[m] = "none"
    BY <2>1, <2>2 DEF ExecutionInvariant, TaskMatchesState
  <2>4. state' \in [Missions -> MissionStates \cup {Absent}]
    BY <2>1 DEF ExecutionInvariant, TypeOK
  <2>5. ApiTypeOK'
    BY <1>8, <2>1 DEF apiVars, ExecutionInvariant
  <2>6. ApprovalMatchesState'
    BY <1>1, <1>8, <2>2, <2>4 DEF apiVars
  <2>7. Provenance'
    BY <1>8, <2>2 DEF apiVars
  <2>8. KeysTellTheTruth'
    BY <1>8, <2>2, <2>3 DEF apiVars
  <2> QED
    BY <2>1, <2>5, <2>6, <2>7, <2>8
<1>9. CASE UNCHANGED allVars
  BY <1>9, StepInvariant DEF allVars, vars, ExecutionInvariant
<1> QED
  BY <1>2, <1>3, <1>4, <1>5, <1>6, <1>7, <1>8, <1>9 DEF ApiNext, RequestStep, ReviewStep

-----------------------------------------------------------------------------

\* The composition keeps its invariant, for any missions, requests and keys.
THEOREM ApiInvariantHolds == ApiSpec => []ApiInvariant
<1> QED
  BY ApiInitInvariant, ApiStepInvariant, PTL DEF ApiSpec

\* Type correctness of records, keys and waiting requests.
THEOREM ApiTypeCorrect == ApiSpec => []ApiTypeOK
<1>1. ApiInvariant => ApiTypeOK
  BY DEF ApiInvariant
<1> QED
  BY <1>1, ApiInvariantHolds, PTL

\* The approval field and the state never disagree (missions.py:181-194).
THEOREM ApprovalsMatchStates == ApiSpec => []ApprovalMatchesState
<1>1. ApiInvariant => ApprovalMatchesState
  BY DEF ApiInvariant
<1> QED
  BY <1>1, ApiInvariantHolds, PTL

\* A mission that left its draft was validated, and one that was approved or
\* rejected has the trace link of such an answer (missions.py:88, 141-146).
THEOREM ProvenanceHolds == ApiSpec => []Provenance
<1>1. ApiInvariant => Provenance
  BY DEF ApiInvariant
<1> QED
  BY <1>1, ApiInvariantHolds, PTL

\* Replayed results are true (missions.py:109, 176, 213, 260).
THEOREM KeysAreTrue == ApiSpec => []KeysTellTheTruth
<1>1. ApiInvariant => KeysTellTheTruth
  BY DEF ApiInvariant
<1> QED
  BY <1>1, ApiInvariantHolds, PTL

\* The invariants of the executor hold in the composition as well: a mission is
\* in RESUMING exactly while one resume waits for the vehicle.
THEOREM ApiResumingOwned == ApiSpec => []ResumingIsOwned
<1>1. ApiInvariant => ResumingIsOwned
  BY DEF ApiInvariant, ExecutionInvariant
<1> QED
  BY <1>1, ApiInvariantHolds, PTL

\* A decision or a launch kept under a key is never replaced: a late answer of
\* Chimera that could would need the mission in a state it has left for good
\* when the result was kept (missions.py:141-194).
THEOREM AnswersStayStable == ApiSpec => AnswersAreStable
<1> DEFINE Keeps == \A m \in Missions, k \in Keys :
                      \/ keys[m][k] = "nothing"
                      \/ keys'[m][k] = keys[m][k]
                      \/ keys[m][k] = "validation" /\ keys'[m][k] \in {"approved", "rejected"}
<1>1. ApiInvariant /\ [ApiNext]_allVars => [Keeps]_allVars
  <2> SUFFICES ASSUME ApiInvariant, ApiNext PROVE Keeps
    OBVIOUS
  <2>1. keys \in [Missions -> [Keys -> Results]]
    BY DEF ApiInvariant, ApiTypeOK
  <2>2. ASSUME UNCHANGED keys PROVE Keeps
    BY <2>2
  <2>3. ASSUME NEW n \in Missions, NEW j \in Keys \cup {NoKey}, NEW result,
               Fresh(n, j), Record(n, j, result)
        PROVE  Keeps
    BY <2>1, <2>3 DEF Fresh, Record
  <2>4. ASSUME NEW c \in reviews, NEW status \in Statuses, Reviewed(c, status)
        PROVE  Keeps
    <3> DEFINE n == c.mission
    <3>1. n \in Missions /\ c.key \in Keys \cup {NoKey}
      BY DEF ApiInvariant, ApiTypeOK, Reviews
    <3>2. CASE UNCHANGED keys
      BY <2>2, <3>2
    <3>3. CASE /\ state[n] \in {"validated", "awaiting_approval"}
               /\ Record(n, c.key, "rejected") \/ Record(n, c.key, "approved")
      <4>1. \A k \in Keys : keys[n][k] \in {"nothing", "validation"}
        <5>1. approval[n] # "approved" /\ state[n] # "rejected" /\ task[n] = "none"
          BY <3>1, <3>3
             DEF ApiInvariant, ExecutionInvariant, TaskMatchesState, PreLaunch,
                 ApprovalMatchesState, Approved
        <5> QED
          BY <2>1, <3>1, <5>1 DEF ApiInvariant, KeysTellTheTruth, Results
      <4> QED
        BY <2>1, <3>1, <3>3, <4>1 DEF Record
    <3> QED
      BY <2>4, <3>2, <3>3, TransitionCases DEF Reviewed, Rejects, Approves
  <2> QED
    <3>1. ASSUME NEW m \in Missions, NEW k \in Keys \cup {NoKey},
                 NEW v \in {"passed", "failed"}, Validate(m, k, v)
          PROVE  Keeps
      BY <2>3, <3>1 DEF Validate
    <3>2. ASSUME NEW m \in Missions, NEW k \in Keys \cup {NoKey}, Execute(m, k)
          PROVE  Keeps
      BY <2>3, <3>2 DEF Execute
    <3> QED
      BY <2>2, <2>4, <3>1, <3>2
         DEF ApiNext, RequestStep, ReviewStep, Create, Approve, ReviewFailed, apiVars
<1> QED
  BY <1>1, ApiInvariantHolds, PTL DEF ApiSpec, AnswersAreStable

-----------------------------------------------------------------------------
(* MissionApi implements MissionGovernance.                                *)

LEMMA PhaseCases ==
    \A s \in MissionStates \cup {Absent} :
        /\ s = Absent => Phase(s) = "unknown"
        /\ s \in {"draft", "validated", "awaiting_approval"} => Phase(s) = "planned"
        /\ s \in {"approved", "expired"} => Phase(s) = "cleared"
        /\ s = "rejected" => Phase(s) = "refused"
        /\ s \notin PreLaunch => Phase(s) = "flown"
BY DEF Phase, MissionStates, PreLaunch, Absent

LEMMA GovernanceInit == ApiInit => Governance!Init
BY PhaseCases, TerminalCases DEF ApiInit, InitFrom, Governance!Init, IsTerminal, Absent

\* A step that moves one mission and leaves the archive alone is one step of
\* the contract, or none, for each kind of move the handlers make.
LEMMA MoveImplements ==
    ASSUME ApiInvariant, NEW m \in Missions, NEW s \in MissionStates,
           state' = [state EXCEPT ![m] = s], archived' = archived,
           \/ state[m] = Absent /\ s = "draft"
           \/ state[m] = "draft" /\ s = "awaiting_approval"
           \/ state[m] = "awaiting_approval" /\ s = "approved"
           \/ state[m] \in {"validated", "awaiting_approval"} /\ s = "rejected"
           \/ state[m] = "approved" /\ s = "staging"
           \/ state[m] \notin PreLaunch /\ s \notin PreLaunch /\ ~ IsTerminal(state[m])
    PROVE  [Governance!Next]_(Governance!vars)
<1> USE PhaseCases, TerminalCases DEF IsTerminal, MissionStates, PreLaunch, Absent
<1>1. state \in [Missions -> MissionStates \cup {Absent}]
  BY DEF ApiInvariant, ExecutionInvariant, TypeOK
<1>2. CASE state[m] = Absent /\ s = "draft"
  <2>1. Governance!Plan(m)
    BY <1>1, <1>2 DEF Governance!Plan
  <2> QED
    BY <2>1 DEF Governance!Next
<1>3. CASE state[m] = "draft" /\ s = "awaiting_approval"
  BY <1>1, <1>3 DEF Governance!vars
<1>4. CASE state[m] = "awaiting_approval" /\ s = "approved"
  <2>1. Governance!Clear(m)
    BY <1>1, <1>4 DEF Governance!Clear
  <2> QED
    BY <2>1 DEF Governance!Next
<1>5. CASE state[m] \in {"validated", "awaiting_approval"} /\ s = "rejected"
  <2>1. Governance!Refuse(m)
    BY <1>1, <1>5 DEF Governance!Refuse
  <2> QED
    BY <2>1 DEF Governance!Next
<1>6. CASE state[m] = "approved" /\ s = "staging"
  <2>1. Governance!Fly(m)
    BY <1>1, <1>6 DEF Governance!Fly
  <2> QED
    BY <2>1 DEF Governance!Next
<1>7. CASE state[m] \notin PreLaunch /\ s \notin PreLaunch /\ ~ IsTerminal(state[m])
  <2>1. CASE ~ IsTerminal(s)
    BY <1>1, <1>7, <2>1 DEF Governance!vars
  <2>2. CASE IsTerminal(s)
    <3>1. s \in Governance!Endings
      BY <1>7, <2>2 DEF Governance!Endings
    <3>2. Phase(state[m]) = "flown" /\ Phase(s) = "flown"
      BY <1>1, <1>7
    <3>3. \A n \in Missions : Phase(state'[n]) = Phase(state[n])
      BY <1>1, <3>2
    <3>4. \A n \in Missions : n # m => state'[n] = state[n]
      BY <1>1
    <3>5. state'[m] = s
      BY <1>1
    <3> DEFINE Outcome(t) == IF IsTerminal(t) THEN t ELSE "open"
    <3>6. /\ [n \in Missions |-> Outcome(state[n])][m] = "open"
          /\ [n \in Missions |-> Outcome(state'[n])]
                = [[n \in Missions |-> Outcome(state[n])] EXCEPT ![m] = s]
      <4>1. Outcome(state[m]) = "open" /\ Outcome(state'[m]) = s
        BY <1>7, <2>2, <3>5
      <4>2. \A n \in Missions : n # m => Outcome(state'[n]) = Outcome(state[n])
        BY <3>4
      <4> HIDE DEF Outcome
      <4> DEFINE f == [n \in Missions |-> Outcome(state[n])]
                 g == [n \in Missions |-> Outcome(state'[n])]
      <4>3. f[m] = "open" /\ g[m] = s /\ \A n \in Missions : n # m => g[n] = f[n]
        BY <4>1, <4>2
      <4>4. DOMAIN f = Missions /\ DOMAIN g = Missions
        OBVIOUS
      <4>5. f = [n \in Missions |-> f[n]] /\ g = [n \in Missions |-> g[n]]
        OBVIOUS
      <4> HIDE DEF f, g
      <4>6. g = [f EXCEPT ![m] = s]
        BY <4>3, <4>4, <4>5
      <4> QED
        BY <4>3, <4>6 DEF f, g
    <3>7. /\ [n \in Missions |-> Phase(state[n])][m] = "flown"
          /\ [n \in Missions |-> Phase(state'[n])] = [n \in Missions |-> Phase(state[n])]
      BY <3>2, <3>3
    <3>8. Governance!End(m, s)
      BY <3>6, <3>7 DEF Governance!End
    <3> QED
      BY <3>1, <3>8 DEF Governance!Next
  <2> QED
    BY <2>1, <2>2
<1> QED
  BY <1>2, <1>3, <1>4, <1>5, <1>6, <1>7

LEMMA GovernanceStep == ApiInvariant /\ [ApiNext]_allVars => [Governance!Next]_(Governance!vars)
<1> SUFFICES ASSUME ApiInvariant, [ApiNext]_allVars
             PROVE  [Governance!Next]_(Governance!vars)
  OBVIOUS
<1>1. state \in [Missions -> MissionStates \cup {Absent}]
  BY DEF ApiInvariant, ExecutionInvariant, TypeOK
<1>2. ASSUME UNCHANGED <<state, archived>> PROVE [Governance!Next]_(Governance!vars)
  BY <1>2 DEF Governance!vars
<1>3. ASSUME NEW m \in Missions, Create(m) PROVE [Governance!Next]_(Governance!vars)
  <2>1. state[m] = Absent /\ state' = [state EXCEPT ![m] = "draft"] /\ archived' = archived
    BY <1>3 DEF Create, Exists, Moves
  <2> QED
    BY <2>1, MoveImplements DEF MissionStates
<1>4. ASSUME NEW m \in Missions, NEW k \in Keys \cup {NoKey}, NEW v \in {"passed", "failed"},
             Validate(m, k, v)
      PROVE  [Governance!Next]_(Governance!vars)
  <2>1. \/ UNCHANGED <<state, archived>>
        \/ /\ state[m] = "draft"
           /\ state' = [state EXCEPT ![m] = "awaiting_approval"]
           /\ archived' = archived
    BY <1>1, <1>4, TransitionCases DEF Validate, Moves, AfterValidation
  <2> QED
    BY <2>1, <1>2, MoveImplements DEF MissionStates
<1>5. ASSUME NEW c \in reviews, NEW status \in Statuses, Reviewed(c, status)
      PROVE  [Governance!Next]_(Governance!vars)
  <2>1. c.mission \in Missions
    BY DEF ApiInvariant, ApiTypeOK, Reviews
  <2>2. \/ UNCHANGED <<state, archived>>
        \/ /\ state[c.mission] \in {"validated", "awaiting_approval"}
           /\ state' = [state EXCEPT ![c.mission] = "rejected"]
           /\ archived' = archived
        \/ /\ state[c.mission] = "awaiting_approval"
           /\ state' = [state EXCEPT ![c.mission] = "approved"]
           /\ archived' = archived
    BY <1>5, TransitionCases DEF Reviewed, Rejects, Approves, Moves, vars
  <2> QED
    BY <2>1, <2>2, <1>2, MoveImplements DEF MissionStates
<1>6. ASSUME NEW m \in Missions, NEW k \in Keys \cup {NoKey}, Execute(m, k)
      PROVE  [Governance!Next]_(Governance!vars)
  <2>1. state[m] = "approved" /\ state' = [state EXCEPT ![m] = "staging"] /\ archived' = archived
    BY <1>6, TransitionCases DEF Execute, Launch
  <2> QED
    BY <2>1, MoveImplements DEF MissionStates
<1>7. CASE FlightStep
  <2>1. CASE FlightMove
    <3>1. PICK m \in Missions, s \in MissionStates \ PreLaunch :
             /\ state[m] \notin PreLaunch
             /\ ~ IsTerminal(state[m])
             /\ state' = [state EXCEPT ![m] = s]
             /\ UNCHANGED archived
      BY <2>1 DEF FlightMove
    <3> QED
      BY <3>1, MoveImplements
  <2>2. CASE FlightArchives
    <3>1. PICK m \in Missions :
             /\ state[m] \notin PreLaunch
             /\ IsTerminal(state[m])
             /\ archived[m] = "nothing"
             /\ archived' = [archived EXCEPT ![m] = state[m]]
             /\ UNCHANGED state
      BY <2>2 DEF FlightArchives
    <3>2. state[m] \in Governance!Endings
      BY <3>1, TerminalCases DEF Governance!Endings, IsTerminal, PreLaunch
    <3>3. Governance!Archive(m)
      BY <1>1, <3>1, <3>2 DEF Governance!Archive
    <3> QED
      BY <3>3 DEF Governance!Next
  <2> QED
    BY <1>2, <1>7, <2>1, <2>2, FlightEffect DEF ApiInvariant
<1> QED
  BY <1>2, <1>3, <1>4, <1>5, <1>6, <1>7
     DEF ApiNext, RequestStep, ReviewStep, Approve, ReviewFailed, allVars, vars

\* Every behaviour of the API, the approvals, the executors and the operators is
\* one the contract allows, for any missions, requests and keys.
THEOREM ApiImplementsGovernance == ApiSpec => GovernanceSpec
<1> QED
  BY GovernanceInit, GovernanceStep, ApiInvariantHolds, PTL
     DEF ApiSpec, GovernanceSpec, Governance!Spec

=============================================================================
