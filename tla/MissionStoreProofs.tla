-------------------------- MODULE MissionStoreProofs -------------------------
(***************************************************************************)
(* Timelines of any length, for any set of missions: what a timeline says  *)
(* is the history of its mission (MissionStore).                           *)
(***************************************************************************)
EXTENDS MissionStore, TLAPS

\* How the table moves between the two sides of the launch: staging is entered
\* from before it only, and nothing crosses it in another way or back
\* (state_machine.py:24-53).
LEMMA LaunchIsOneWay ==
    ASSUME NEW s \in MissionStates, NEW t \in MissionStates, CanTransition(s, t)
    PROVE  /\ t = "staging" => s \notin Launched
           /\ t # "staging" => (t \in Launched <=> s \in Launched)
  BY DEF CanTransition, Transitions, Launched, MissionStates

\* Creating a record starts a history.
LEMMA CreateInvariant ==
    ASSUME StoreInvariant, NEW m \in Missions, Create(m)
    PROVE  StoreInvariant'
  <1>1. TypeOK'
    <2>1. Creation \in Entries
      BY DEF Creation, Entries, NoState, MissionStates
    <2>2. <<Creation>> \in Seq(Entries)
      BY <2>1
    <2>3. "draft" \in MissionStates
      BY DEF MissionStates
    <2> QED
      BY <2>2, <2>3 DEF StoreInvariant, TypeOK, Create
  <1>2. IsHistory(timeline'[m], state'[m])
    BY DEF StoreInvariant, TypeOK, Create, IsHistory, Creation
  <1>3. ASSUME NEW n \in known, n # m
        PROVE  timeline'[n] = timeline[n] /\ state'[n] = state[n] /\ n \in Missions
    BY <1>3 DEF StoreInvariant, TypeOK, Create
  <1>4. known' = known \cup {m} /\ m \notin known
    BY DEF Create, IsNew
  <1>5. TimelineIsHistory'
    BY <1>2, <1>3, <1>4 DEF StoreInvariant, TimelineIsHistory
  <1>6. StagedOnce'
    <2>1. timeline'[m] = <<Creation>> /\ state'[m] = "draft"
      BY DEF StoreInvariant, TypeOK, Create
    <2>2. Len(timeline'[m]) = 1 /\ timeline'[m][1].next = "draft"
      BY <2>1 DEF Creation
    <2>3. \A i \in 1 .. Len(timeline'[m]) : timeline'[m][i].next = "draft"
      BY <2>2
    <2>4. state'[m] \notin Launched
      BY <2>1 DEF Launched
    <2> QED
      BY <1>3, <1>4, <2>3, <2>4 DEF StoreInvariant, StagedOnce
  <1> QED
    BY <1>1, <1>5, <1>6 DEF StoreInvariant

\* A transition extends the history of its mission by one entry.
LEMMA TransitionInvariant ==
    ASSUME StoreInvariant, NEW m \in Missions, NEW t \in MissionStates, Transition(m, t)
    PROVE  StoreInvariant'
  <1> DEFINE line == timeline[m]
             longer == Append(line, Entry(m, t))
  <1>1. /\ line \in Seq(Entries) /\ state[m] \in MissionStates
        /\ m \in known /\ known' = known /\ CanTransition(state[m], t)
        /\ timeline'[m] = longer /\ state'[m] = t
    BY DEF StoreInvariant, TypeOK, Transition
  <1>2. Entry(m, t) \in Entries
    BY <1>1 DEF Entry, Entries
  <1>3. ASSUME NEW n \in known, n # m
        PROVE  timeline'[n] = timeline[n] /\ state'[n] = state[n] /\ n \in Missions
    BY <1>3 DEF StoreInvariant, TypeOK, Transition
  <1>4. /\ Len(longer) = Len(line) + 1
        /\ longer[Len(line) + 1] = Entry(m, t)
        /\ \A i \in 1 .. Len(line) : longer[i] = line[i]
        /\ Len(line) \in Nat
    BY <1>1, <1>2
  <1>5. TypeOK'
    <2>1. longer \in Seq(Entries)
      BY <1>1, <1>2
    <2> QED
      BY <2>1 DEF StoreInvariant, TypeOK, Transition
  <1>6. IsHistory(line, state[m])
    BY <1>1 DEF StoreInvariant, TimelineIsHistory
  <1>7. IsHistory(longer, t)
    <2>1. Len(line) >= 1
      BY <1>1, <1>6 DEF IsHistory
    <2>2. longer # <<>> /\ longer[1] = Creation
      BY <1>4, <1>6, <2>1 DEF IsHistory
    <2>3. longer[Len(longer)].next = t
      BY <1>4 DEF Entry
    <2>4. ASSUME NEW i \in 2 .. Len(longer)
          PROVE  /\ longer[i].prior = longer[i - 1].next
                 /\ CanTransition(longer[i].prior, longer[i].next)
      <3>1. CASE i \in 2 .. Len(line)
        <4>1. i \in 1 .. Len(line) /\ i - 1 \in 1 .. Len(line)
          BY <1>4, <3>1
        <4>2. longer[i] = line[i] /\ longer[i - 1] = line[i - 1]
          BY <1>4, <4>1
        <4> QED
          BY <1>6, <3>1, <4>2 DEF IsHistory
      <3>2. CASE i = Len(line) + 1
        <4>1. longer[i] = Entry(m, t) /\ longer[i - 1] = line[Len(line)]
          BY <1>4, <2>1, <3>2
        <4>2. line[Len(line)].next = state[m]
          BY <1>6 DEF IsHistory
        <4> QED
          BY <1>1, <4>1, <4>2 DEF Entry
      <3> QED
        BY <1>4, <3>1, <3>2
    <2> QED
      BY <2>2, <2>3, <2>4 DEF IsHistory
  <1>8. TimelineIsHistory'
    BY <1>1, <1>3, <1>7 DEF StoreInvariant, TimelineIsHistory
  <1>9. StagedOnce'
    <2>1. /\ \A i, j \in 1 .. Len(line) :
                line[i].next = "staging" /\ line[j].next = "staging" => i = j
          /\ state[m] \in Launched <=> \E i \in 1 .. Len(line) : line[i].next = "staging"
      BY <1>1 DEF StoreInvariant, StagedOnce
    <2>2. longer[Len(longer)].next = t
      BY <1>4 DEF Entry
    <2>3. /\ t = "staging" => state[m] \notin Launched
          /\ t # "staging" => (t \in Launched <=> state[m] \in Launched)
      BY <1>1, LaunchIsOneWay
    <2>4. \A i \in 1 .. Len(longer) : i \in 1 .. Len(line) \/ i = Len(longer)
      BY <1>4
    <2>5. ASSUME NEW i \in 1 .. Len(longer), NEW j \in 1 .. Len(longer),
                 longer[i].next = "staging", longer[j].next = "staging"
          PROVE  i = j
      BY <1>4, <2>1, <2>2, <2>3, <2>4, <2>5
    <2>6. t \in Launched <=> \E i \in 1 .. Len(longer) : longer[i].next = "staging"
      <3>1. CASE t = "staging"
        <4>1. Len(longer) \in 1 .. Len(longer)
          BY <1>4
        <4> QED
          BY <2>2, <3>1, <4>1 DEF Launched
      <3>2. CASE t # "staging"
        <4>1. (\E i \in 1 .. Len(longer) : longer[i].next = "staging")
                 <=> \E i \in 1 .. Len(line) : line[i].next = "staging"
          BY <1>4, <2>2, <2>4, <3>2
        <4> QED
          BY <2>1, <2>3, <3>2, <4>1
      <3> QED
        BY <3>1, <3>2
    <2>7. /\ \A i, j \in 1 .. Len(timeline'[m]) :
                timeline'[m][i].next = "staging" /\ timeline'[m][j].next = "staging" => i = j
          /\ state'[m] \in Launched
                <=> \E i \in 1 .. Len(timeline'[m]) : timeline'[m][i].next = "staging"
      BY <1>1, <2>5, <2>6
    <2>8. ASSUME NEW n \in known, n # m
          PROVE  /\ \A i, j \in 1 .. Len(timeline'[n]) :
                       timeline'[n][i].next = "staging" /\ timeline'[n][j].next = "staging" => i = j
                 /\ state'[n] \in Launched
                       <=> \E i \in 1 .. Len(timeline'[n]) : timeline'[n][i].next = "staging"
      BY <1>3, <2>8 DEF StoreInvariant, StagedOnce
    <2> QED
      BY <1>1, <2>7, <2>8 DEF StagedOnce
  <1> QED
    BY <1>5, <1>8, <1>9 DEF StoreInvariant

\* The invariant of the store holds in every state of it.
THEOREM StoreInvariantHolds == Spec => []StoreInvariant
  <1>1. Init => StoreInvariant
    <2>1. "draft" \in MissionStates
      BY DEF MissionStates
    <2> QED
      BY <2>1 DEF Init, StoreInvariant, TypeOK, TimelineIsHistory, StagedOnce
  <1>2. StoreInvariant /\ [Next]_vars => StoreInvariant'
    <2> SUFFICES ASSUME StoreInvariant, [Next]_vars PROVE StoreInvariant'
      OBVIOUS
    <2>1. ASSUME NEW m \in Missions, Create(m) PROVE StoreInvariant'
      BY <2>1, CreateInvariant
    <2>2. ASSUME NEW m \in Missions, NEW t \in MissionStates, Transition(m, t)
          PROVE  StoreInvariant'
      BY <2>2, TransitionInvariant
    <2>3. CASE UNCHANGED vars
      BY <2>3 DEF vars, StoreInvariant, TypeOK, TimelineIsHistory, StagedOnce
    <2> QED
      BY <2>1, <2>2, <2>3 DEF Next
  <1> QED
    BY <1>1, <1>2, PTL DEF Spec

\* Type correctness of records and timelines, of any length.
THEOREM StoreTypeCorrect == Spec => []TypeOK
  <1>1. StoreInvariant => TypeOK
    BY DEF StoreInvariant
  <1> QED
    BY <1>1, StoreInvariantHolds, PTL

\* A timeline is a gapless path through the table from the creation of its
\* mission to the state the mission is in (store.py:45-57, 73-86).
THEOREM TimelinesAreHistories == Spec => []TimelineIsHistory
  <1>1. StoreInvariant => TimelineIsHistory
    BY DEF StoreInvariant
  <1> QED
    BY <1>1, StoreInvariantHolds, PTL

\* A mission is staged once in its life, so that the entry SafetyGuard measures
\* its timeout from is the right one (safety_guard.py:63-68).
THEOREM MissionsAreStagedOnce == Spec => []StagedOnce
  <1>1. StoreInvariant => StagedOnce
    BY DEF StoreInvariant
  <1> QED
    BY <1>1, StoreInvariantHolds, PTL

\* Entries are only ever appended, one for each change of state (store.py:84-85).
THEOREM HistoriesAreKept == Spec => HistoryIsKept
  <1> DEFINE Kept ==
        \A m \in known :
          /\ Len(timeline'[m]) >= Len(timeline[m])
          /\ \A i \in 1 .. Len(timeline[m]) : timeline'[m][i] = timeline[m][i]
          /\ Len(timeline'[m]) = Len(timeline[m]) => state'[m] = state[m]
  <1>1. StoreInvariant /\ [Next]_vars => [Kept]_vars
    <2> SUFFICES ASSUME StoreInvariant, Next PROVE Kept
      BY DEF vars
    <2> TAKE n \in known
    <2>1. timeline[n] \in Seq(Entries) /\ n \in Missions
      BY DEF StoreInvariant, TypeOK
    <2>2. ASSUME NEW m \in Missions, Create(m)
          PROVE  timeline'[n] = timeline[n] /\ state'[n] = state[n]
      BY <2>1, <2>2 DEF Create, IsNew, StoreInvariant, TypeOK
    <2>3. ASSUME NEW m \in Missions, NEW t \in MissionStates, Transition(m, t)
          PROVE  \/ timeline'[n] = timeline[n] /\ state'[n] = state[n]
                 \/ timeline'[n] = Append(timeline[n], Entry(n, t))
      BY <2>1, <2>3 DEF Transition, StoreInvariant, TypeOK
    <2>4. ASSUME NEW e, timeline'[n] = Append(timeline[n], e)
          PROVE  /\ Len(timeline'[n]) = Len(timeline[n]) + 1
                 /\ \A i \in 1 .. Len(timeline[n]) : timeline'[n][i] = timeline[n][i]
      BY <2>1, <2>4
    <2>5. Len(timeline[n]) \in Nat
      BY <2>1
    <2> QED
      BY <2>2, <2>3, <2>4, <2>5 DEF Next
  <1> QED
    BY <1>1, StoreInvariantHolds, PTL DEF Spec, HistoryIsKept

=============================================================================
