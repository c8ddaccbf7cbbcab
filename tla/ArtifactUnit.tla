---------------------------- MODULE ArtifactUnit ----------------------------
(* One unit of work over artifacts and the database, as                       *)
(* ArtifactUnitOfWork (marvis/artifacts/transactional.py) does it: everything *)
(* new is staged, the old files are set aside and the new ones put in place,  *)
(* the database transaction commits, and the files set aside are deleted; a   *)
(* failure on the way undoes the items.  Every step of it may be the last one *)
(* before a crash.                                                            *)
EXTENDS Naturals

CONSTANTS
    Units,          \* units of work; the content a unit writes carries its name
    Files,          \* final paths of files below datasets_dir or tasks_dir
    Directories,    \* final paths of directories there, handoffs apart
    Plugins,        \* directories of plugins
    Handoffs,       \* material directories of validation handoffs
    Original,       \* content from before all units
    Absent,         \* nothing is there
    Torn,           \* part of a directory: its deletion was cut
    CrashLimit      \* bound: crashes of the process

Content == Units \cup {Original, Absent, Torn}
Paths == Files \cup Directories \cup Plugins \cup Handoffs

ASSUME ArtifactAssumption ==
    /\ Original \notin Units /\ Absent \notin Units /\ Torn \notin Units
    /\ Original # Absent /\ Original # Torn /\ Absent # Torn
    /\ Files \cap (Directories \cup Plugins \cup Handoffs) = {}
    /\ Directories \cap (Plugins \cup Handoffs) = {} /\ Plugins \cap Handoffs = {}
    /\ CrashLimit \in Nat

VARIABLES
    disk,       \* what is at a final path
    backup,     \* what a unit set aside from it: the .<name>.<token>.bak sibling
    stage,      \* staged entries of a unit
    row,        \* what the database records of a path
    author,     \* the unit that recorded it
    phase, items, removes,
    bare,       \* units whose caller has no rollback of its own
    placed,     \* items promoted, activated or removed
    settled,    \* items committed or rolled back
    busy,       \* the item in the middle of its step, or {}
    server,     \* up, down, or starting: recovering before it serves
    crashes

fileVars == <<disk, backup, stage>>
dbVars == <<row, author>>
unitVars == <<phase, items, removes, bare, placed, settled, busy>>
vars == <<fileVars, dbVars, unitVars, server, crashes>>

Live(u) == phase[u] \in {"promoting", "committing", "rolling", "breaking"}
Held(p) == \E u \in Units : Live(u) /\ p \in items[u]

(* A unit replaces or removes files and directories of one task, or it        *)
(* installs one plugin, or makes one handoff.  A report, an upload or an      *)
(* installation calls rollback when anything raises; a handoff does not, nor  *)
(* does a scan, which replaces and removes the directories of its task.       *)
Guarded == (SUBSET (Files \cup Directories) \ {{}}) \cup {{p} : p \in Plugins}
Unguarded == {Directories} \cup {{p} : p \in Handoffs}

(* stage_file, stage_directory, remove_path and the writing of the staged     *)
(* content.  A path has one writer at a time: the lease of the task, a        *)
(* plugin's name, or a file name of its own.                                  *)
Begin(u, P, R, B) ==
    /\ P \in IF B = {} THEN Guarded ELSE Unguarded
    /\ server = "up" /\ phase[u] = "idle"
    /\ \A p \in P : ~Held(p)
    /\ phase' = [phase EXCEPT ![u] = "promoting"]
    /\ items' = [items EXCEPT ![u] = P]
    /\ removes' = [removes EXCEPT ![u] = R]
    /\ bare' = bare \cup B
    /\ stage' = [stage EXCEPT ![u] = P \ R]
    /\ UNCHANGED <<disk, backup, dbVars, placed, settled, busy, server, crashes>>

Still(u, p) == phase[u] = "promoting" /\ p \in items[u] \ placed[u]

(* StagedArtifact.promote, StagedDirectory.activate: first the old one goes.  *)
SetAside(u, p) ==
    /\ Still(u, p) /\ p \notin removes[u] /\ busy[u] = {}
    /\ p \in stage[u] /\ disk[p] # Absent
    /\ backup' = [backup EXCEPT ![u][p] = disk[p]]
    /\ disk' = [disk EXCEPT ![p] = Absent]
    /\ busy' = [busy EXCEPT ![u] = {p}]
    /\ UNCHANGED <<stage, dbVars, phase, items, removes, bare, placed, settled, server, crashes>>

Place(u, p) ==
    /\ Still(u, p) /\ p \notin removes[u] /\ busy[u] \subseteq {p}
    /\ p \in stage[u] /\ disk[p] = Absent
    /\ disk' = [disk EXCEPT ![p] = u]
    /\ stage' = [stage EXCEPT ![u] = @ \ {p}]
    /\ placed' = [placed EXCEPT ![u] = @ \cup {p}]
    /\ busy' = [busy EXCEPT ![u] = {}]
    /\ UNCHANGED <<backup, dbVars, phase, items, removes, bare, settled, server, crashes>>

(* RemovedPath.remove.                                                        *)
Remove(u, p) ==
    /\ Still(u, p) /\ p \in removes[u] /\ busy[u] = {}
    /\ backup' = [backup EXCEPT ![u][p] = disk[p]]
    /\ disk' = [disk EXCEPT ![p] = Absent]
    /\ placed' = [placed EXCEPT ![u] = @ \cup {p}]
    /\ UNCHANGED <<stage, dbVars, phase, items, removes, bare, settled, busy, server, crashes>>

(* promote_all is outside the try of finalize: its errors, like those of the  *)
(* writing before, are undone by the callers that roll back themselves.  The  *)
(* others leave what there is, and what they set aside, to the next startup.  *)
AfterError(u, ph) == IF u \in bare THEN "left" ELSE ph

(* Mutation: a promotion that fails leaves the old one aside.                 *)
PromoteFailsLeavingAside(u) ==
    /\ phase[u] = "promoting" /\ placed[u] # items[u]
    /\ phase' = [phase EXCEPT ![u] = AfterError(u, "rolling")]
    /\ busy' = [busy EXCEPT ![u] = {}]
    /\ UNCHANGED <<fileVars, dbVars, items, removes, bare, placed, settled, server, crashes>>

(* The promotion of an item raises; what it set aside comes back.             *)
PromoteFails(u) ==
    /\ phase[u] = "promoting" /\ placed[u] # items[u]
    /\ disk' = [p \in Paths |-> IF p \in busy[u] THEN backup[u][p] ELSE disk[p]]
    /\ backup' = [backup EXCEPT ![u] = [p \in Paths |-> IF p \in busy[u] THEN Absent ELSE @[p]]]
    /\ phase' = [phase EXCEPT ![u] = AfterError(u, "rolling")]
    /\ busy' = [busy EXCEPT ![u] = {}]
    /\ UNCHANGED <<stage, dbVars, items, removes, bare, placed, settled, server, crashes>>

(* Mutation: the row is committed before every file is in place.              *)
RecordFirst(u) ==
    /\ phase[u] = "promoting"
    /\ row' = [p \in Paths |-> IF p \in removes[u] THEN Absent
                               ELSE IF p \in items[u] THEN u ELSE row[p]]
    /\ author' = [p \in Paths |-> IF p \in items[u] THEN u ELSE author[p]]
    /\ phase' = [phase EXCEPT ![u] = "committing"]
    /\ UNCHANGED <<fileVars, items, removes, bare, placed, settled, busy, server, crashes>>

(* The database transaction of finalize_with_connection commits, or fails.    *)
Record(u) ==
    /\ phase[u] = "promoting" /\ placed[u] = items[u]
    /\ row' = [p \in Paths |-> IF p \in removes[u] THEN Absent
                               ELSE IF p \in items[u] THEN u ELSE row[p]]
    /\ author' = [p \in Paths |-> IF p \in items[u] THEN u ELSE author[p]]
    /\ phase' = [phase EXCEPT ![u] = "committing"]
    /\ UNCHANGED <<fileVars, items, removes, bare, placed, settled, busy, server, crashes>>

RecordFails(u) ==
    /\ phase[u] = "promoting" /\ placed[u] = items[u]
    /\ phase' = [phase EXCEPT ![u] = "rolling"]
    /\ UNCHANGED <<fileVars, dbVars, items, removes, bare, placed, settled, busy, server, crashes>>

(* commit: what was set aside is deleted; a directory is not gone at once.    *)
Tear(u, p) ==
    /\ phase[u] = "committing" /\ p \in items[u] \ (settled[u] \cup Files) /\ busy[u] = {}
    /\ backup[u][p] # Absent
    /\ backup' = [backup EXCEPT ![u][p] = Torn]
    /\ busy' = [busy EXCEPT ![u] = {p}]
    /\ UNCHANGED <<disk, stage, dbVars, phase, items, removes, bare, placed, settled, server, crashes>>

(* Mutation: what was set aside is deleted before the database commits.       *)
CommitEarly(u, p) ==
    /\ phase[u] \in {"promoting", "committing"} /\ placed[u] = items[u]
    /\ p \in items[u] \ settled[u]
    /\ IF p \in Files \/ backup[u][p] = Absent THEN busy[u] = {} ELSE busy[u] = {p}
    /\ backup' = [backup EXCEPT ![u][p] = Absent]
    /\ settled' = [settled EXCEPT ![u] = @ \cup {p}]
    /\ busy' = [busy EXCEPT ![u] = {}]
    /\ UNCHANGED <<disk, stage, dbVars, phase, items, removes, bare, placed, server, crashes>>

Commit(u, p) ==
    /\ phase[u] = "committing" /\ p \in items[u] \ settled[u]
    /\ IF p \in Files \/ backup[u][p] = Absent THEN busy[u] = {} ELSE busy[u] = {p}
    /\ backup' = [backup EXCEPT ![u][p] = Absent]
    /\ settled' = [settled EXCEPT ![u] = @ \cup {p}]
    /\ busy' = [busy EXCEPT ![u] = {}]
    /\ UNCHANGED <<disk, stage, dbVars, phase, items, removes, bare, placed, server, crashes>>

(* The deletion raises: a caller that rolls back undoes the items that were   *)
(* not committed yet, although the database has its row.                      *)
CommitFails(u) ==
    /\ phase[u] = "committing"
    /\ \E p \in items[u] \ settled[u] : backup[u][p] # Absent
    /\ phase' = [phase EXCEPT ![u] = AfterError(u, "breaking")]
    /\ busy' = [busy EXCEPT ![u] = {}]
    /\ UNCHANGED <<fileVars, dbVars, items, removes, bare, placed, settled, server, crashes>>

(* rollback of an item: the new one is deleted, the old one comes back.       *)
Rolling(u) == phase[u] \in {"rolling", "breaking"}
Replaced(u, p) == p \in placed[u] \ removes[u]
HasBackup(u, p) == p \in placed[u] /\ backup[u][p] # Absent

Discard(u, p) ==
    /\ Rolling(u) /\ p \in items[u] \ settled[u] /\ busy[u] = {}
    /\ Replaced(u, p)
    /\ disk' = [disk EXCEPT ![p] = Absent]
    /\ busy' = [busy EXCEPT ![u] = {p}]
    /\ UNCHANGED <<backup, stage, dbVars, phase, items, removes, bare, placed, settled, server, crashes>>

(* Mutation: what was staged and never put in place is left there.            *)
UndoLeavingStage(u, p) ==
    /\ Rolling(u) /\ p \in items[u] \ settled[u]
    /\ IF Replaced(u, p) THEN busy[u] = {p} ELSE busy[u] = {}
    /\ disk' = [disk EXCEPT ![p] = IF HasBackup(u, p) THEN backup[u][p] ELSE @]
    /\ backup' = [backup EXCEPT ![u][p] = IF HasBackup(u, p) THEN Absent ELSE @]
    /\ settled' = [settled EXCEPT ![u] = @ \cup {p}]
    /\ busy' = [busy EXCEPT ![u] = {}]
    /\ UNCHANGED <<stage, dbVars, phase, items, removes, bare, placed, server, crashes>>

(* An item is undone: what its promotion set aside comes back, and what is    *)
(* still staged is deleted.                                                   *)
Undo(u, p) ==
    /\ Rolling(u) /\ p \in items[u] \ settled[u]
    /\ IF Replaced(u, p) THEN busy[u] = {p} ELSE busy[u] = {}
    /\ disk' = [disk EXCEPT ![p] = IF HasBackup(u, p) THEN backup[u][p] ELSE @]
    /\ backup' = [backup EXCEPT ![u][p] = IF HasBackup(u, p) THEN Absent ELSE @]
    /\ stage' = [stage EXCEPT ![u] = @ \ {p}]
    /\ settled' = [settled EXCEPT ![u] = @ \cup {p}]
    /\ busy' = [busy EXCEPT ![u] = {}]
    /\ UNCHANGED <<dbVars, phase, items, removes, bare, placed, server, crashes>>

(* The unit is closed, and finalize returns or raises.                        *)
Outcome(ph) ==
    CASE ph = "committing" -> "done" [] ph = "rolling" -> "failed" [] ph = "breaking" -> "broken"

Finish(u) ==
    /\ phase[u] \in {"committing", "rolling", "breaking"}
    /\ settled[u] = items[u]
    /\ phase' = [phase EXCEPT ![u] = Outcome(@)]
    /\ UNCHANGED <<fileVars, dbVars, items, removes, bare, placed, settled, busy, server, crashes>>

UnitNext ==
    \E u \in Units :
        \/ \E P \in Guarded \cup Unguarded, B \in SUBSET {u} :
            \E R \in SUBSET (P \cap (Files \cup Directories)) : Begin(u, P, R, B)
        \/ \E p \in Paths : \/ SetAside(u, p) \/ Place(u, p) \/ Remove(u, p)
                            \/ Tear(u, p) \/ Commit(u, p)
                            \/ Discard(u, p) \/ Undo(u, p)
        \/ PromoteFails(u) \/ Record(u) \/ RecordFails(u) \/ CommitFails(u) \/ Finish(u)
=============================================================================
