------------------------- MODULE ArchiveExportProofs -------------------------
(***************************************************************************)
(* What an archive directory can be trusted for, whatever the number of    *)
(* restarts and of validations (ArchiveExport).                            *)
(***************************************************************************)
EXTENDS ArchiveExport, TLAPS

\* What the assumption says of each bound.
LEMMA Bounds == /\ MaxLives \in Nat /\ 1 \in 1 .. MaxLives
                /\ MaxResults \in Nat /\ 1 \in 1 .. MaxResults
BY ArchiveAssumption

\* The two stand-ins for contents are no contents, and a manifest that is
\* missing or torn is none.
LEMMA StandIns ==
    /\ Missing \notin Contents
    /\ Torn \notin Contents
    /\ Missing \notin [Parts -> Contents]
    /\ Torn \notin [Parts -> Contents]
<1>1. Missing.life = 0 /\ Torn.life = 0
  BY DEF Missing, Torn
<1>2. \A c \in Contents : c.life # 0
  BY DEF Contents
<1>3. DOMAIN Missing = {"life", "result"} /\ DOMAIN Torn = {"life", "result"}
  BY DEF Missing, Torn
<1>4. \A f \in [Parts -> Contents] : "mission" \in DOMAIN f
  BY DEF Parts
<1> QED
  BY <1>1, <1>2, <1>3, <1>4

\* What the record says about a part is a content, of its life.
LEMMA ContentIsContent ==
    ASSUME TypeOK, NEW p \in Parts
    PROVE  Content(p) \in Contents /\ Content(p).life = life
BY ArchiveAssumption DEF TypeOK, Content, Contents

LEMMA StepInvariant == ArchiveInvariant /\ [Next]_vars => ArchiveInvariant'
<1> SUFFICES ASSUME ArchiveInvariant, [Next]_vars PROVE ArchiveInvariant'
  OBVIOUS
<1> USE DEF ArchiveInvariant
<1>1. CASE Begin
  <2>1. TypeOK'
    BY <1>1 DEF Begin, TypeOK, NoParts, Points, Parts
  <2>2. Progress'
    BY <1>1 DEF Begin, TypeOK, Progress, Written, Later, NoParts, Parts
  <2>3. OneLife' /\ Ends'
    BY <1>1 DEF Begin, OneLife, Ends
  <2> QED
    BY <2>1, <2>2, <2>3
<1>2. CASE WritePart
  <2>1. Exported(point) \in Contents /\ Exported(point).life = life /\ point \in Parts
    BY <1>2, ContentIsContent DEF WritePart, Exported
  <2>2. TypeOK'
    BY <1>2, <2>1 DEF WritePart, TypeOK, After, Points, Parts
  <2>3. Progress'
    <3> SUFFICES ASSUME NEW p \in Parts
                 PROVE  /\ Written(p)' => /\ files'[p] \in Contents /\ files'[p].life = life'
                                          /\ disk'[p] = files'[p]
                        /\ point' = "mission" => files'[p] = Missing
      BY DEF Progress
    <3>1. p = point \/ Written(p)' => p = point \/ Written(p)
      BY <1>2, <2>1 DEF WritePart, Written, Later, After, Parts
    <3>2. point' # "mission"
      BY <1>2, <2>1 DEF WritePart, After, Parts
    <3>3. CASE p = point
      BY <1>2, <2>1, <3>2, <3>3 DEF WritePart, TypeOK
    <3>4. CASE p # point
      BY <1>2, <2>1, <3>1, <3>2, <3>4 DEF WritePart, TypeOK, Progress
    <3> QED
      BY <3>3, <3>4
  <2>4. OneLife' /\ Ends'
    BY <1>2, <2>1 DEF WritePart, OneLife, Ends, After, Parts
  <2> QED
    BY <2>2, <2>3, <2>4
<1>3. CASE WriteManifest
  <2>1. \A p \in Parts : files[p] \in Contents /\ files[p].life = life
    BY <1>3 DEF WriteManifest, Progress, Written, Later, Parts
  <2>2. manifest' = files /\ files \in [Parts -> Contents]
    BY <1>3, <2>1 DEF WriteManifest, ManifestOf, TypeOK
  <2>3. TypeOK'
    BY <1>3, <2>2 DEF WriteManifest, TypeOK, Points
  <2>4. Progress'
    BY <1>3 DEF WriteManifest, Progress, Written, Later, Parts
  <2>5. OneLife' /\ Ends'
    BY <1>3, <2>1, <2>2 DEF WriteManifest, OneLife, Ends
  <2> QED
    BY <2>3, <2>4, <2>5
<1>4. CASE Publish
  <2>1. TypeOK' /\ Progress'
    BY <1>4 DEF Publish, TypeOK, Progress, Written, Later, Points, Parts
  <2>2. OneLife' /\ Ends'
    BY <1>4 DEF Publish, OneLife, Ends
  <2> QED
    BY <2>1, <2>2
<1>5. CASE WriteFails
  <2>1. point' = "failed" /\ UNCHANGED <<life, result, files, ref>>
    BY <1>5 DEF WriteFails
  <2>2. TypeOK'
    BY <1>5 DEF WriteFails, MayTear, TypeOK, Points
  <2>3. Progress'
    BY <2>1 DEF Progress, Written, Later, Parts
  <2>4. OneLife'
    BY <1>5, StandIns DEF WriteFails, MayTear, OneLife, Parts
  <2>5. Ends'
    BY <1>5 DEF WriteFails, Ends, Parts
  <2> QED
    BY <2>2, <2>3, <2>4, <2>5
<1>6. CASE Revalidate
  <2>1. TypeOK'
    BY <1>6, Bounds DEF Revalidate, TypeOK
  <2>2. Progress' /\ OneLife' /\ Ends'
    BY <1>6 DEF Revalidate, Progress, Written, Later, OneLife, Ends
  <2> QED
    BY <2>1, <2>2
<1>7. CASE Restart
  <2>1. /\ point' = "idle" /\ life' = life + 1 /\ ref' = FALSE
        /\ life \in Nat /\ life + 1 \in 1 .. MaxLives
    BY <1>7, Bounds DEF Restart, TypeOK
  <2>2. TypeOK'
    <3>1. result' \in 1 .. MaxResults /\ life' \in 1 .. MaxLives
      BY <1>7, <2>1, Bounds DEF Restart
    <3>2. /\ point' \in Points /\ ref' \in BOOLEAN
          /\ files' \in [Parts -> Contents \cup {Missing}]
      BY <1>7, <2>1 DEF Restart, Points, NoParts
    <3>3. /\ disk' \in [Parts -> Contents \cup {Missing, Torn}]
          /\ manifest' \in [Parts -> Contents] \cup {Missing, Torn}
      BY <1>7 DEF Restart, MayTear, TypeOK
    <3> QED
      BY <3>1, <3>2, <3>3 DEF TypeOK
  <2>3. Progress'
    BY <2>1 DEF Progress, Written, Later, Parts
  <2>4. OneLife'
    <3> SUFFICES ASSUME manifest' \in [Parts -> Contents]
                 PROVE  /\ \A p, q \in Parts : manifest'[p].life = manifest'[q].life
                        /\ manifest'["mission"].life < life'
      BY DEF OneLife
    <3>1. manifest' = manifest
      BY <1>7, StandIns DEF Restart, MayTear
    <3>2. \A p, q \in Parts : manifest[p].life = manifest[q].life
      BY <3>1 DEF OneLife
    <3>3. CASE point \notin {"written", "done"}
      <4>1. manifest["mission"].life < life
        BY <3>1, <3>3 DEF OneLife
      <4>2. manifest["mission"].life \in Nat
        BY <3>1 DEF Parts, Contents
      <4> QED
        BY <2>1, <3>1, <3>2, <4>1, <4>2
    <3>4. CASE point \in {"written", "done"}
      <4>1. manifest["mission"].life = life
        BY <3>4 DEF Ends, Progress, Written, Later, Parts
      <4> QED
        BY <2>1, <3>1, <3>2, <4>1
    <3> QED
      BY <3>3, <3>4
  <2>5. Ends'
    BY <2>1 DEF Ends
  <2> QED
    BY <2>2, <2>3, <2>4, <2>5
<1>8. CASE UNCHANGED vars
  BY <1>8 DEF vars, TypeOK, Progress, Written, Later, OneLife, Ends
<1> QED
  BY <1>1, <1>2, <1>3, <1>4, <1>5, <1>6, <1>7, <1>8 DEF Next

THEOREM ArchiveInvariantHolds == Spec => []ArchiveInvariant
<1>1. Init => ArchiveInvariant
  <2> SUFFICES ASSUME Init PROVE ArchiveInvariant
    OBVIOUS
  <2>1. TypeOK
    BY Bounds DEF Init, TypeOK, NoParts, Points
  <2>2. Progress /\ OneLife /\ Ends
    BY StandIns DEF Init, Progress, Written, Later, OneLife, Ends
  <2> QED
    BY <2>1, <2>2 DEF ArchiveInvariant
<1> QED
  BY <1>1, StepInvariant, PTL DEF Spec

\* Type correctness of the directory and of the export's progress.
THEOREM ArchiveTypeCorrect == Spec => []TypeOK
<1>1. ArchiveInvariant => TypeOK
  BY DEF ArchiveInvariant
<1> QED
  BY <1>1, ArchiveInvariantHolds, PTL

\* An archive_ref leads to a whole archive of the mission it is handed out for
\* (archive_exporter.py:28-100, executor.py:57-58).
THEOREM PublishedArchivesAreWhole == Spec => []PublishedIsWhole
<1>1. ArchiveInvariant => PublishedIsWhole
  <2> SUFFICES ASSUME ArchiveInvariant, ref PROVE PublishedIsWhole
    BY DEF PublishedIsWhole
  <2>1. manifest = files /\ point = "done"
    BY DEF ArchiveInvariant, Ends
  <2>2. \A p \in Parts : /\ files[p] \in Contents /\ files[p].life = life
                         /\ disk[p] = files[p]
    BY <2>1 DEF ArchiveInvariant, Progress, Written, Later, Parts
  <2>3. manifest \in [Parts -> Contents]
    BY <2>1, <2>2 DEF ArchiveInvariant, TypeOK
  <2> QED
    BY <2>1, <2>2, <2>3 DEF PublishedIsWhole, Matches
<1> QED
  BY <1>1, ArchiveInvariantHolds, PTL

\* A manifest that matches every file vouches for one life
\* (archive_exporter.py:94-97).
THEOREM ManifestsVouch == Spec => []ManifestVouches
<1>1. ArchiveInvariant => ManifestVouches
  BY DEF ArchiveInvariant, OneLife, ManifestVouches, Matches
<1> QED
  BY <1>1, ArchiveInvariantHolds, PTL

\* From its first file to its manifest, an export leaves no manifest that
\* matches (archive_exporter.py:30-97).
THEOREM HalfwayIsNotVouchedFor == Spec => []NotVouchedForHalfway
<1>1. ArchiveInvariant => NotVouchedForHalfway
  <2> SUFFICES ASSUME ArchiveInvariant, point \in Parts \cup {"manifest"},
                      files # NoParts, Matches
               PROVE  FALSE
    BY DEF NotVouchedForHalfway
  <2>1. point # "mission"
    BY DEF ArchiveInvariant, Progress, TypeOK, NoParts
  <2>2. Written("mission")
    BY <2>1 DEF Written, Later, Parts
  <2>3. disk["mission"].life = life
    BY <2>2 DEF ArchiveInvariant, Progress, Parts
  <2>4. manifest["mission"].life < life /\ disk["mission"] = manifest["mission"]
    BY DEF ArchiveInvariant, OneLife, Matches, Parts
  <2>5. life \in Nat
    BY DEF ArchiveInvariant, TypeOK
  <2> QED
    BY <2>3, <2>4, <2>5
<1> QED
  BY <1>1, ArchiveInvariantHolds, PTL

=============================================================================
