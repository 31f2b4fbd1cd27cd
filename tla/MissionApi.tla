----------------------------- MODULE MissionApi -----------------------------
(***************************************************************************)
(* The whole life of a mission behind the HTTP API: creation, validation,  *)
(* the approval Chimera decides and the order to execute                   *)
(* (routes/missions.py), composed with MissionExecution, which takes over  *)
(* at Launch.                                                              *)
(*                                                                         *)
(* Of these handlers only approve_mission suspends: it waits for Chimera.  *)
(* What it read before the wait (the mission, the idempotency key) may be  *)
(* out of date when the answer comes, so it is modelled in two steps.      *)
(***************************************************************************)
EXTENDS MissionExecution

CONSTANTS
    Reviewers,   \* approve requests served at the same time
    Keys,        \* idempotency keys
    NoKey,       \* a request without the Idempotency-Key header
    Statuses     \* what Chimera may put in ChimeraApprovalResponse.status

ASSUME ApiAssumption == NoKey \notin Keys

VARIABLES
    verdict,    \* verdict[m]: MissionRecord.validation_result
    approval,   \* approval[m]: mission.approval.status
    links,      \* links[m]: MissionRecord.trace_links, as the set of the
                \* statuses of the Chimera answers they were stored for
    keys,       \* keys[m][k]: MissionRecord.idempotency_keys
    reviews     \* approve requests that wait for Chimera

apiVars == <<verdict, approval, links, keys, reviews>>

allVars == <<state, task, calls, finding, announced, archived, up,
             verdict, approval, links, keys, reviews>>

-----------------------------------------------------------------------------

\* The states of a mission that was approved, then or since.
Approved == MissionStates \ {"draft", "validated", "awaiting_approval", "rejected"}

\* What a key may hold: nothing, or the result of the request that used it.
Results == {"nothing", "validation", "approved", "rejected", "staging"}

Reviews == [req : Reviewers, mission : Missions, key : Keys \cup {NoKey}]

ApiTypeOK ==
    /\ TypeOK
    /\ verdict \in [Missions -> {"none", "passed", "failed"}]
    /\ approval \in [Missions -> {"draft", "approved"}]
    /\ links \in [Missions -> SUBSET Statuses]
    /\ keys \in [Missions -> [Keys -> Results]]
    /\ reviews \subseteq Reviews

ApiInit ==
    /\ InitFrom(Absent)
    /\ verdict = [m \in Missions |-> "none"]
    /\ approval = [m \in Missions |-> "draft"]
    /\ links = [m \in Missions |-> {}]
    /\ keys = [m \in Missions |-> [k \in Keys |-> "nothing"]]
    /\ reviews = {}

-----------------------------------------------------------------------------

Exists(m) == state[m] # Absent

Moves(m, s) ==
    /\ state' = [state EXCEPT ![m] = s]
    /\ UNCHANGED <<task, calls, finding, announced, archived, up>>

\* check_idempotency: a key that was used answers with what it holds, and the
\* handler changes nothing.
Fresh(m, k) == k \in Keys => keys[m][k] = "nothing"

\* record_idempotency: a key that is used again is overwritten.
Record(m, k, result) ==
    keys' = IF k \in Keys THEN [keys EXCEPT ![m][k] = result] ELSE keys

\* create_mission; a mission that exists is returned as it is.
Create(m) ==
    /\ up
    /\ ~ Exists(m)
    /\ Moves(m, "draft")
    /\ UNCHANGED apiVars

\* Both transitions of validate_mission, or none when the first is refused.
AfterValidation(s, v) ==
    IF v = "passed" /\ CanTransition(s, "validated") THEN "awaiting_approval" ELSE s

\* validate_mission: the result replaces the one before, in any state.
Validate(m, k, v) ==
    /\ up
    /\ Exists(m)
    /\ Fresh(m, k)
    /\ Moves(m, AfterValidation(state[m], v))
    /\ verdict' = [verdict EXCEPT ![m] = v]
    /\ Record(m, k, "validation")
    /\ UNCHANGED <<approval, links, reviews>>

\* approve_mission up to its call of Chimera.
Approve(q, m, k) ==
    /\ up
    /\ \A c \in reviews : c.req # q
    /\ Exists(m)
    /\ Fresh(m, k)
    /\ reviews' = reviews \cup {[req |-> q, mission |-> m, key |-> k]}
    /\ UNCHANGED <<vars, verdict, approval, links, keys>>

\* Mutant: the key is recorded before the transition is tried.
RecordsThenRejects(c) ==
    /\ Record(c.mission, c.key, "rejected")
    /\ IF CanTransition(state[c.mission], "rejected")
         THEN Moves(c.mission, "rejected")
         ELSE UNCHANGED vars
    /\ UNCHANGED approval

\* Chimera answered "rejected": awaiting_approval or validated -> rejected, or 409.
Rejects(c) ==
    IF CanTransition(state[c.mission], "rejected")
      THEN /\ Moves(c.mission, "rejected")
           /\ Record(c.mission, c.key, "rejected")
           /\ UNCHANGED approval
      ELSE UNCHANGED <<vars, approval, keys>>

\* Mutant: the approval is written before the transition is tried.
ApprovesThenMoves(c) ==
    /\ approval' = [approval EXCEPT ![c.mission] = "approved"]
    /\ IF CanTransition(state[c.mission], "approved")
         THEN Moves(c.mission, "approved") /\ Record(c.mission, c.key, "approved")
         ELSE UNCHANGED <<vars, keys>>

\* Chimera answered anything else: awaiting_approval -> approved, or 409.
Approves(c) ==
    IF CanTransition(state[c.mission], "approved")
      THEN /\ Moves(c.mission, "approved")
           /\ approval' = [approval EXCEPT ![c.mission] = "approved"]
           /\ Record(c.mission, c.key, "approved")
      ELSE UNCHANGED <<vars, approval, keys>>

\* Mutant: the link is stored on the way to the approval only.
LinkApproval(c, status) ==
    links' = IF status = "rejected" THEN links
                                    ELSE [links EXCEPT ![c.mission] = @ \cup {status}]

\* append_trace_link
Link(c, status) == links' = [links EXCEPT ![c.mission] = @ \cup {status}]

\* The answer of Chimera: the trace link is stored whatever follows.
Reviewed(c, status) ==
    /\ reviews' = reviews \ {c}
    /\ Link(c, status)
    /\ IF status = "rejected" THEN Rejects(c) ELSE Approves(c)
    /\ UNCHANGED verdict

\* request_approval raised (a timeout, an HTTP error): 500 and nothing stored.
ReviewFailed(c) ==
    /\ reviews' = reviews \ {c}
    /\ UNCHANGED <<vars, verdict, approval, links, keys>>

\* execute_mission.
Execute(m, k) ==
    /\ Fresh(m, k)
    /\ Launch(m)
    /\ Record(m, k, "staging")
    /\ UNCHANGED <<verdict, approval, links, reviews>>

RequestStep ==
    \E m \in Missions, k \in Keys \cup {NoKey} :
        \/ Create(m)
        \/ \E v \in {"passed", "failed"} : Validate(m, k, v)
        \/ \E q \in Reviewers : Approve(q, m, k)
        \/ Execute(m, k)

ReviewStep ==
    \E c \in reviews : ReviewFailed(c) \/ \E status \in Statuses : Reviewed(c, status)

ApiNext ==
    \/ RequestStep
    \/ ReviewStep
    \/ FlightStep /\ UNCHANGED apiVars

ApiSpec == ApiInit /\ [][ApiNext]_allVars

-----------------------------------------------------------------------------
(* Safety.                                                                 *)

\* The approval on the mission and the state in the store are written apart
\* (missions.py:181-194) and never disagree: a mission counts as approved
\* exactly from the approved state on, and one that Chimera rejected first is
\* not approved by a later answer.
ApprovalMatchesState ==
    \A m \in Missions : approval[m] = "approved" <=> state[m] \in Approved

\* No mission goes to the vehicle, and none is refused, without the steps that
\* lead there: it was validated, and an answer of Chimera of that kind is linked
\* to its trace (missions.py:88, 141, 148).
Provenance ==
    \A m \in Missions :
        /\ state[m] \notin {Absent, "draft"} => verdict[m] # "none"
        /\ approval[m] = "approved" => \E status \in links[m] : status # "rejected"
        /\ state[m] = "rejected" => "rejected" \in links[m]

\* A result kept under an idempotency key, which a retry is answered with, is
\* one the store bears out, however late the retry (missions.py:109, 176, 213, 260).
KeysTellTheTruth ==
    \A m \in Missions, k \in Keys :
        /\ keys[m][k] = "validation" => verdict[m] # "none"
        /\ keys[m][k] = "approved" => approval[m] = "approved"
        /\ keys[m][k] = "rejected" => state[m] = "rejected"
        /\ keys[m][k] = "staging" => task[m] # "none"

\* What a retry is answered with does not change: a result kept under a key stays,
\* although requests that share the key may be waiting for Chimera when it is
\* kept and record theirs later.  Only the result of a validation may give way to
\* the decision of such a request (missions.py:121-194).
AnswersAreStable ==
    [][\A m \in Missions, k \in Keys :
          \/ keys[m][k] = "nothing"
          \/ keys'[m][k] = keys[m][k]
          \/ keys[m][k] = "validation" /\ keys'[m][k] \in {"approved", "rejected"}]_allVars

-----------------------------------------------------------------------------
(* The contract a client sees: MissionGovernance.                          *)

Phase(s) ==
    CASE s = Absent -> "unknown"
      [] s \in {"draft", "validated", "awaiting_approval"} -> "planned"
      [] s \in {"approved", "expired"} -> "cleared"
      [] s = "rejected" -> "refused"
      [] OTHER -> "flown"

Governance == INSTANCE MissionGovernance WITH
    phase   <- [m \in Missions |-> Phase(state[m])],
    outcome <- [m \in Missions |-> IF IsTerminal(state[m]) THEN state[m] ELSE "open"],
    record  <- archived

\* Whatever the interleaving of requests, answers and executors, a mission is
\* planned, decided, flown and ended once, in this order.
GovernanceSpec == Governance!Spec

-----------------------------------------------------------------------------
(* What the documentation says and the code does not do.                   *)

\* missions.py:179, "Chimera approved": the mission is approved only where
\* Chimera said so.  Any status but "rejected", "pending" for one, passes.
ApprovedByChimera ==
    \A m \in Missions : approval[m] = "approved" => "approved" \in links[m]

=============================================================================
