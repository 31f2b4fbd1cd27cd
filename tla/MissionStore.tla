----------------------------- MODULE MissionStore ----------------------------
(***************************************************************************)
(* The in-memory store of store.py: one record per mission with its state  *)
(* and its timeline, the append-only history every replay and every        *)
(* archive is made from.  MissionApi and MissionExecution model who asks   *)
(* the store for which transition, and see the state only; here any caller *)
(* may ask for any transition at any time, and the timeline is kept.       *)
(***************************************************************************)
EXTENDS MissionStateMachine, Naturals, Sequences

CONSTANTS
    Missions,    \* mission ids
    MaxEntries   \* bound of the model: entries in one timeline

ASSUME StoreAssumption == MaxEntries \in Nat \ {0}

VARIABLES
    known,     \* the missions with a record
    state,     \* state[m]: MissionRecord.state
    timeline   \* timeline[m]: MissionRecord.timeline, the state entries of it

vars == <<known, state, timeline>>

\* prior_state of the entry create() makes.
NoState == "none"

Entries == [prior : MissionStates \cup {NoState}, next : MissionStates]

TypeOK ==
    /\ known \subseteq Missions
    /\ state \in [Missions -> MissionStates]
    /\ timeline \in [Missions -> Seq(Entries)]

Init ==
    /\ known = {}
    /\ state = [m \in Missions |-> "draft"]
    /\ timeline = [m \in Missions |-> <<>>]

-----------------------------------------------------------------------------

\* Mutant: the entry of a creation is written like that of a transition.
StartsFromAbsent == [prior |-> "absent", next |-> "draft"]

Creation == [prior |-> NoState, next |-> "draft"]

\* Mutant: an existing record is replaced.
UnknownOrNot(m) == TRUE

\* create_mission looks the id up first and returns the record it finds.
IsNew(m) == m \notin known

\* create
Create(m) ==
    /\ IsNew(m)
    /\ known' = known \cup {m}
    /\ state' = [state EXCEPT ![m] = "draft"]
    /\ timeline' = [timeline EXCEPT ![m] = <<Creation>>]

\* Mutant: the entry is made after the state is assigned.
EntryAfterwards(m, t) == [prior |-> t, next |-> t]

Entry(m, t) == [prior |-> state[m], next |-> t]

\* transition; one the table refuses raises and changes nothing.
Transition(m, t) ==
    /\ m \in known
    /\ Len(timeline[m]) < MaxEntries
    /\ CanTransition(state[m], t)
    /\ state' = [state EXCEPT ![m] = t]
    /\ timeline' = [timeline EXCEPT ![m] = Append(@, Entry(m, t))]
    /\ UNCHANGED known

Next ==
    \E m \in Missions : Create(m) \/ \E t \in MissionStates : Transition(m, t)

Spec == Init /\ [][Next]_vars

-----------------------------------------------------------------------------
(* Properties.                                                             *)

\* The timeline of a mission is the whole way it came, without a gap: it starts
\* with the creation, each entry leaves the state the entry before it led to,
\* along the table, and the last one led to the state the record is in
\* (store.py:45-57, 73-86).
IsHistory(line, s) ==
    /\ line # <<>>
    /\ line[1] = Creation
    /\ line[Len(line)].next = s
    /\ \A i \in 2 .. Len(line) :
          /\ line[i].prior = line[i - 1].next
          /\ CanTransition(line[i].prior, line[i].next)

TimelineIsHistory == \A m \in known : IsHistory(timeline[m], state[m])

\* Nothing that was recorded is ever rewritten or dropped, and the state does
\* not change without an entry (store.py:84-85).
HistoryIsKept ==
    [][\A m \in known :
          /\ Len(timeline'[m]) >= Len(timeline[m])
          /\ \A i \in 1 .. Len(timeline[m]) : timeline'[m][i] = timeline[m][i]
          /\ Len(timeline'[m]) = Len(timeline[m]) => state'[m] = state[m]]_vars

\* The states a mission reaches after it was staged.
Launched == {"staging", "executing", "paused", "resuming", "rtl", "aborted",
             "completed", "failed", "manual_handover"}

\* The first staging entry of a timeline, which SafetyGuard measures the mission
\* timeout from (safety_guard.py:63-68), is the only one, and it is there from
\* the launch on: no pause, resume, return or failure starts the clock again.
StagedOnce ==
    \A m \in known :
        /\ \A i, j \in 1 .. Len(timeline[m]) :
              timeline[m][i].next = "staging" /\ timeline[m][j].next = "staging" => i = j
        /\ state[m] \in Launched
              <=> \E i \in 1 .. Len(timeline[m]) : timeline[m][i].next = "staging"

\* The inductive invariant: see MissionStoreProofs.
StoreInvariant == TypeOK /\ TimelineIsHistory /\ StagedOnce

=============================================================================
