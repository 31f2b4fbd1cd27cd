---------------------------- MODULE ArchiveExport ----------------------------
(***************************************************************************)
(* The export of one mission to its archive directory                      *)
(* (services/archive_exporter.py).  MissionExecution takes the export for  *)
(* one step; here it is what it is: a thread that reads the record and     *)
(* overwrites the files of the directory one by one, manifest last, while  *)
(* the event loop goes on and may validate the mission again, and while    *)
(* the disk may fill up or the process die at any write.  The store is in  *)
(* memory only: after a restart the mission can be created and flown again *)
(* under its id, and is exported over what the directory holds.            *)
(*                                                                         *)
(* Of a terminal record nothing but validation_result can still change     *)
(* (MissionApi), and incidents.jsonl is never written: no code appends an  *)
(* incident.                                                               *)
(***************************************************************************)
EXTENDS Naturals

CONSTANTS
    MaxLives,    \* bound of the model: times the service is started
    MaxResults   \* bound of the model: validations of one mission in one life

ASSUME ArchiveAssumption == {MaxLives, MaxResults} \subseteq Nat \ {0}

VARIABLES
    life,      \* the process the record lives in, numbered
    result,    \* the number of the record's validation_result
    point,     \* the file _export_sync writes next, or how the export stands
    files,     \* the dictionary `files` of the hashes, as what was hashed
    disk,      \* the files in the directory
    manifest,  \* manifest.json
    ref        \* MissionRecord.archive_ref is set

vars == <<life, result, point, files, disk, manifest, ref>>

-----------------------------------------------------------------------------

\* mission.json, timeline.jsonl, telemetry.jsonl, validation.json and
\* replay_artifact.json.
Parts == {"mission", "timeline", "telemetry", "validation", "artifact"}

Points == Parts \cup {"idle", "manifest", "written", "failed", "done"}

Missing == [life |-> 0, result |-> 0]    \* no such file, no such entry
Torn    == [life |-> 0, result |-> 1]    \* a file cut off in the middle

\* What is on disk for a part is known by the record it was made from.  Only
\* two of the parts depend on the validation result: validation.json is it, and
\* the artifact holds its hash.  Two lives differ at least in mission.json (the
\* time of the approval) and in the timestamps of the timeline; other parts may
\* come out with the same bytes, and then it does no harm to tell them apart.
Contents == [life : Nat \ {0}, result : Nat]

Whole(d) == \A p \in Parts : d[p] \in Contents

NoParts == [p \in Parts |-> Missing]

\* manifest.json, when it is there in one piece, has an entry for each part.
TypeOK ==
    /\ life \in 1 .. MaxLives
    /\ result \in 1 .. MaxResults
    /\ point \in Points
    /\ files \in [Parts -> Contents \cup {Missing}]
    /\ disk \in [Parts -> Contents \cup {Missing, Torn}]
    /\ manifest \in [Parts -> Contents] \cup {Missing, Torn}
    /\ ref \in BOOLEAN

Init ==
    /\ life = 1
    /\ result = 1
    /\ point = "idle"
    /\ files = NoParts
    /\ disk = NoParts
    /\ manifest = Missing
    /\ ref = FALSE

-----------------------------------------------------------------------------

\* Mutant: the manifest is written before the artifact.
ManifestFirst(p) ==
    [mission |-> "timeline", timeline |-> "telemetry", telemetry |-> "validation",
     validation |-> "manifest", artifact |-> "written"][p]

\* The order of _export_sync.
After(p) ==
    [mission |-> "timeline", timeline |-> "telemetry", telemetry |-> "validation",
     validation |-> "artifact", artifact |-> "manifest"][p]

\* What the record says about part p now.
Content(p) == [life |-> life, result |-> IF p \in {"validation", "artifact"} THEN result ELSE 0]

\* Mutant: a file that is there already is taken for exported.
UnlessThere(p) == IF disk[p] = Missing THEN Content(p) ELSE disk[p]

\* What is written, and hashed, for p.
Exported(p) == Content(p)

\* The executor's task calls export for its terminal mission: once in a life,
\* NoSecondExecutor of MissionExecution.
Begin ==
    /\ point = "idle"
    /\ point' = "mission"
    /\ files' = NoParts
    /\ UNCHANGED <<life, result, disk, manifest, ref>>

\* write_bytes of a part, and its hash.
WritePart ==
    /\ point \in Parts
    /\ disk' = [disk EXCEPT ![point] = Exported(point)]
    /\ files' = [files EXCEPT ![point] = Exported(point)]
    /\ point' = After(point)
    /\ UNCHANGED <<life, result, manifest, ref>>

\* Mutant: the manifest of an earlier export is kept.
ManifestUnlessThere == IF manifest = Missing THEN files ELSE manifest

ManifestOf == files

WriteManifest ==
    /\ point = "manifest"
    /\ manifest' = ManifestOf
    /\ point' = "written"
    /\ UNCHANGED <<life, result, files, disk, ref>>

\* Back in the loop: set_archive_ref and mission.archived.
Publish ==
    /\ point = "written"
    /\ point' = "done"
    /\ ref' = TRUE
    /\ UNCHANGED <<life, result, files, disk, manifest>>

\* The file that is being written may be left cut off.
MayTear ==
    \/ UNCHANGED <<disk, manifest>>
    \/ point \in Parts /\ disk' = [disk EXCEPT ![point] = Torn] /\ UNCHANGED manifest
    \/ point = "manifest" /\ manifest' = Torn /\ UNCHANGED disk

\* A write raised: the export is given up.
WriteFails ==
    /\ point \in Parts \cup {"manifest"}
    /\ MayTear
    /\ point' = "failed"
    /\ UNCHANGED <<life, result, files, ref>>

\* validate_mission on the terminal mission: store.set_validation.
Revalidate ==
    /\ result < MaxResults
    /\ result' = result + 1
    /\ UNCHANGED <<life, point, files, disk, manifest, ref>>

\* The process dies and is started again; the record is a new one.
Restart ==
    /\ life < MaxLives
    /\ MayTear
    /\ life' = life + 1
    /\ result' = 1
    /\ point' = "idle"
    /\ files' = NoParts
    /\ ref' = FALSE

Next ==
    \/ Begin
    \/ WritePart
    \/ WriteManifest
    \/ Publish
    \/ WriteFails
    \/ Revalidate
    \/ Restart

Spec == Init /\ [][Next]_vars

-----------------------------------------------------------------------------
(* Properties.                                                             *)

Matches == manifest \in [Parts -> Contents] /\ \A p \in Parts : disk[p] = manifest[p]

\* An archive_ref, which the timeline route hands out, leads to a whole archive
\* of this very mission: every file is there, none is left from an earlier life
\* of the mission id, and the manifest matches them all (archive_exporter.py:28-100,
\* executor.py:57-58).
PublishedIsWhole == ref => Matches /\ \A p \in Parts : disk[p].life = life

\* Whatever crash or full disk interrupted an export, and however often, a
\* directory that mixes the files of two lives is told by its manifest: if that
\* matches every file, they are of one life (archive_exporter.py:94-97).
ManifestVouches == Matches => \A p, q \in Parts : disk[p].life = disk[q].life

\* The order of the writes matters: from the first file of a re-export until
\* its manifest is written, the old manifest does not vouch for the directory
\* (archive_exporter.py:30-97).
NotVouchedForHalfway ==
    point \in Parts \cup {"manifest"} /\ files # NoParts => ~ Matches

\* The inductive invariant: see ArchiveExportProofs.  What this export has
\* written so far is on disk as it is in `files`, and what a manifest says is of
\* one life, an earlier one until this export has written it.
Later == {"manifest", "written", "done"}

Written(p) ==
    \/ point \in Later
    \/ p = "mission" /\ point \in {"timeline", "telemetry", "validation", "artifact"}
    \/ p = "timeline" /\ point \in {"telemetry", "validation", "artifact"}
    \/ p = "telemetry" /\ point \in {"validation", "artifact"}
    \/ p = "validation" /\ point = "artifact"

Progress ==
    \A p \in Parts :
        /\ Written(p) => files[p] \in Contents /\ files[p].life = life /\ disk[p] = files[p]
        /\ point = "mission" => files[p] = Missing

OneLife ==
    manifest \in [Parts -> Contents] =>
        /\ \A p, q \in Parts : manifest[p].life = manifest[q].life
        /\ point \notin {"written", "done"} => manifest["mission"].life < life

Ends ==
    /\ point \in {"written", "done"} => manifest = files
    /\ ref <=> point = "done"

ArchiveInvariant == TypeOK /\ Progress /\ OneLife /\ Ends

=============================================================================
