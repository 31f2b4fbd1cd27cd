-------------------------- MODULE MissionGovernance -------------------------
(***************************************************************************)
(* What the service promises about a mission, whoever calls it and in      *)
(* whatever order: it is planned, cleared or refused by one decision,      *)
(* flown at most once and only if cleared, and brought to at most one      *)
(* outcome, which is the one its archive records.  How this comes about    *)
(* (validation, waiting for Chimera, executor tasks, operator commands) is *)
(* for the modules that implement this one.                                *)
(***************************************************************************)
CONSTANTS Missions

VARIABLES
    phase,    \* how far authority over the mission has gone
    outcome,  \* how the mission ended, "open" as long as it has not
    record    \* the outcome the archive shows, "nothing" before the export

vars == <<phase, outcome, record>>

Endings == {"completed", "failed", "aborted"}

Init ==
    /\ phase = [m \in Missions |-> "unknown"]
    /\ outcome = [m \in Missions |-> "open"]
    /\ record = [m \in Missions |-> "nothing"]

Plan(m) ==
    /\ phase[m] = "unknown"
    /\ phase' = [phase EXCEPT ![m] = "planned"]
    /\ UNCHANGED <<outcome, record>>

Clear(m) ==
    /\ phase[m] = "planned"
    /\ phase' = [phase EXCEPT ![m] = "cleared"]
    /\ UNCHANGED <<outcome, record>>

Refuse(m) ==
    /\ phase[m] = "planned"
    /\ phase' = [phase EXCEPT ![m] = "refused"]
    /\ outcome' = [outcome EXCEPT ![m] = "rejected"]
    /\ UNCHANGED record

Fly(m) ==
    /\ phase[m] = "cleared"
    /\ phase' = [phase EXCEPT ![m] = "flown"]
    /\ UNCHANGED <<outcome, record>>

End(m, e) ==
    /\ phase[m] = "flown"
    /\ outcome[m] = "open"
    /\ outcome' = [outcome EXCEPT ![m] = e]
    /\ UNCHANGED <<phase, record>>

Archive(m) ==
    /\ outcome[m] \in Endings
    /\ record[m] = "nothing"
    /\ record' = [record EXCEPT ![m] = outcome[m]]
    /\ UNCHANGED <<phase, outcome>>

Next ==
    \E m \in Missions :
        \/ Plan(m) \/ Clear(m) \/ Refuse(m) \/ Fly(m) \/ Archive(m)
        \/ \E e \in Endings : End(m, e)

Spec == Init /\ [][Next]_vars

=============================================================================
