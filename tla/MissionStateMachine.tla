------------------------ MODULE MissionStateMachine ------------------------
(***************************************************************************)
(* The mission life cycle of src/wyvern/state_machine.py: the states, the  *)
(* table of allowed transitions and the two predicates every other part of *)
(* the service asks of it.  The module declares no variable: the store and *)
(* the handlers that use the table are modelled in the modules that extend *)
(* this one.                                                               *)
(***************************************************************************)

MissionStates ==
    {"draft", "validated", "awaiting_approval", "approved", "rejected",
     "expired", "staging", "executing", "paused", "resuming", "rtl",
     "aborted", "completed", "failed", "manual_handover"}

\* _TRANSITIONS: the dictionary as the set of its <<from, to>> pairs.
Transitions ==
    ({"draft"} \X {"validated"})
    \cup ({"validated"} \X {"awaiting_approval", "rejected"})
    \cup ({"awaiting_approval"} \X {"approved", "rejected"})
    \cup ({"approved"} \X {"staging", "expired"})
    \cup ({"staging"} \X {"executing", "failed"})
    \cup ({"executing"} \X {"paused", "rtl", "aborted", "completed", "failed",
                            "manual_handover"})
    \cup ({"paused"} \X {"resuming", "rtl", "aborted", "manual_handover"})
    \cup ({"resuming"} \X {"executing"})
    \cup ({"rtl"} \X {"completed", "failed"})
    \cup ({"manual_handover"} \X {"paused"})

-----------------------------------------------------------------------------
(* Mutants of CanTransition: one wrong entry in the table.                 *)

ResumingMayAbort(from, to) == <<from, to>> \in Transitions \cup {<<"resuming", "aborted">>}
FailedMayRestage(from, to) == <<from, to>> \in Transitions \cup {<<"failed", "staging">>}
AbortedMayResume(from, to) == <<from, to>> \in Transitions \cup {<<"aborted", "resuming">>}

-----------------------------------------------------------------------------

CanTransition(from, to) == <<from, to>> \in Transitions

\* TERMINAL_STATES: the states with no transition out of them.
TerminalStates == {s \in MissionStates : \A t \in MissionStates : ~ CanTransition(s, t)}

IsTerminal(s) == s \in TerminalStates

=============================================================================
