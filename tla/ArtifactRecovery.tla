-------------------------- MODULE ArtifactRecovery --------------------------
(* A workspace in which units of work run, crash, and are reconciled at the   *)
(* next startup (marvis/artifacts/recovery.py): staged entries are removed,   *)
(* and a backup is restored or dropped, for a plugin by its checksum, for a   *)
(* handoff by the tasks that name its directory, for anything else always.    *)
EXTENDS ArtifactUnit

Init ==
    /\ disk \in [Paths -> {Original, Absent}]
    /\ \A p \in Handoffs : disk[p] = Absent
    /\ row = disk
    /\ author = [p \in Paths |-> Original]
    /\ backup = [u \in Units |-> [p \in Paths |-> Absent]]
    /\ stage = [u \in Units |-> {}]
    /\ phase = [u \in Units |-> "idle"]
    /\ bare = {} /\ items = [u \in Units |-> {}] /\ removes = [u \in Units |-> {}]
    /\ placed = [u \in Units |-> {}] /\ settled = [u \in Units |-> {}]
    /\ busy = [u \in Units |-> {}]
    /\ server = "up" /\ crashes = 0

(* The process dies, while it works or while it recovers.                     *)
Crash ==
    /\ server # "down" /\ crashes < CrashLimit
    /\ server' = "down" /\ crashes' = crashes + 1
    /\ phase' = [u \in Units |-> IF phase[u] = "breaking" THEN "broken"
                                 ELSE IF Live(u) THEN "crashed" ELSE phase[u]]
    /\ busy' = [u \in Units |-> {}]
    /\ UNCHANGED <<fileVars, dbVars, items, removes, bare, placed, settled>>

(* reconcile_workspace_artifacts: _remove_staging_dirs comes first.           *)
Startup ==
    /\ server = "down"
    /\ server' = "starting"
    /\ stage' = [u \in Units |-> {}]
    /\ UNCHANGED <<disk, backup, dbVars, unitVars, crashes>>

(* A validation task names this directory as its source.                      *)
Named(p) == author[p] # Original

(* Mutation: the checksum is not compared.                                    *)
ConfirmedByPresence(p) ==
    disk[p] # Absent /\ (p \in Plugins \/ (p \in Handoffs /\ Named(p)))

(* What the database knows of the final path is what is there.                *)
Confirmed(p) ==
    \/ p \in Plugins /\ disk[p] # Absent /\ disk[p] = row[p]
    \/ p \in Handoffs /\ disk[p] # Absent /\ Named(p)

DropBackup(u, p) ==
    /\ server = "starting" /\ backup[u][p] # Absent /\ Confirmed(p)
    /\ backup' = [backup EXCEPT ![u][p] = Absent]
    /\ UNCHANGED <<disk, stage, dbVars, unitVars, server, crashes>>

(* _restore_backup, _restore_generic_backup: two steps, and a crash between   *)
(* them leaves the backup to the next startup.                                *)
ClearFinal(u, p) ==
    /\ server = "starting" /\ backup[u][p] # Absent /\ ~Confirmed(p)
    /\ disk[p] # Absent
    /\ disk' = [disk EXCEPT ![p] = Absent]
    /\ UNCHANGED <<backup, stage, dbVars, unitVars, server, crashes>>

RestoreBackup(u, p) ==
    /\ server = "starting" /\ backup[u][p] # Absent
    /\ disk[p] = Absent
    /\ disk' = [disk EXCEPT ![p] = backup[u][p]]
    /\ backup' = [backup EXCEPT ![u][p] = Absent]
    /\ UNCHANGED <<stage, dbVars, unitVars, server, crashes>>

(* _remove_uncommitted_handoff_dirs, after the backups of handoffs.           *)
Unpaired(p) == \A u \in Units : backup[u][p] = Absent

RemoveOrphan(p) ==
    /\ server = "starting" /\ p \in Handoffs /\ Unpaired(p)
    /\ disk[p] # Absent /\ ~Named(p)
    /\ disk' = [disk EXCEPT ![p] = Absent]
    /\ UNCHANGED <<backup, stage, dbVars, unitVars, server, crashes>>

Serve ==
    /\ server = "starting"
    /\ \A p \in Paths : Unpaired(p)
    /\ \A p \in Handoffs : disk[p] # Absent => Named(p)
    /\ server' = "up"
    /\ UNCHANGED <<fileVars, dbVars, unitVars, crashes>>

StartupNext ==
    \/ Startup \/ Serve
    \/ \E p \in Paths :
        \/ RemoveOrphan(p)
        \/ \E u \in Units : DropBackup(u, p) \/ ClearFinal(u, p) \/ RestoreBackup(u, p)

Next == UnitNext \/ StartupNext \/ Crash

Spec == Init /\ [][Next]_vars

-----------------------------------------------------------------------------
AtRest(p) == server = "up" /\ ~Held(p)
Returned(p) == author[p] = Original \/ phase[author[p]] = "done"

TypeOK ==
    /\ disk \in [Paths -> Content] /\ row \in [Paths -> Content]
    /\ author \in [Paths -> Units \cup {Original}]
    /\ backup \in [Units -> [Paths -> Content]]
    /\ stage \in [Units -> SUBSET Paths]
    /\ phase \in [Units -> {"idle", "promoting", "committing", "rolling", "breaking",
                           "done", "failed", "broken", "left", "crashed"}]
    /\ bare \subseteq Units
    /\ items \in [Units -> SUBSET Paths] /\ removes \in [Units -> SUBSET Paths]
    /\ placed \in [Units -> SUBSET Paths] /\ settled \in [Units -> SUBSET Paths]
    /\ busy \in [Units -> SUBSET Paths]
    /\ server \in {"up", "down", "starting"} /\ crashes \in 0..CrashLimit

(* Where a unit stands: its sets agree with its phase, a path has one live    *)
(* writer, and what was handed to a unit stays its business.                  *)
Unrecorded(u) == phase[u] \in {"promoting", "rolling"}
UnitOK(u) ==
    /\ Live(u) => server = "up"
    /\ removes[u] \cup placed[u] \cup settled[u] \cup busy[u] \cup stage[u] \subseteq items[u]
    /\ removes[u] \cap (Plugins \cup Handoffs) = {}
    /\ \A p, q \in busy[u] : p = q
    /\ ~Live(u) => busy[u] = {}
    /\ phase[u] = "idle" => items[u] = {}
    /\ phase[u] = "promoting" =>
        /\ settled[u] = {} /\ busy[u] \cap (placed[u] \cup removes[u]) = {}
        /\ stage[u] = items[u] \ (removes[u] \cup placed[u])
    /\ phase[u] = "rolling" =>
        /\ stage[u] \cap (placed[u] \cup settled[u]) = {}
        /\ busy[u] \subseteq placed[u] \ (removes[u] \cup settled[u])
    /\ phase[u] = "breaking" => busy[u] \subseteq placed[u] \ (removes[u] \cup settled[u])
    /\ phase[u] = "committing" => busy[u] \cap settled[u] = {}
    /\ phase[u] \in {"committing", "breaking"} => placed[u] = items[u] /\ stage[u] = {}
    /\ phase[u] \in {"committing", "done"} => \A p \in items[u] :
        author[p] = u => row[p] = IF p \in removes[u] THEN Absent ELSE u
    /\ phase[u] \in {"done", "failed", "broken"} => stage[u] = {}
    /\ phase[u] \in {"breaking", "broken"} => u \notin bare
    /\ phase[u] = "idle" => u \notin bare
    /\ phase[u] = "left" => u \in bare
    /\ u \in bare => items[u] \cap Plugins = {}
    /\ items[u] \cap Handoffs # {} =>
        u \in bare /\ items[u] \subseteq Handoffs /\ \A p, q \in items[u] : p = q
    /\ \A v \in Units : u # v /\ Live(u) /\ Live(v) => items[u] \cap items[v] = {}

(* What a unit put in place is there until the unit undoes it; it is recorded *)
(* until the unit returns.                                                    *)
ItemsOK(u) ==
    /\ Unrecorded(u) => \A p \in (placed[u] \cup busy[u]) \ settled[u] :
        disk[p] = IF p \in removes[u] \cup busy[u] THEN Absent ELSE u
    /\ phase[u] \in {"committing", "breaking"} => \A p \in items[u] : author[p] = u
    /\ phase[u] = "committing" => \A p \in items[u] :
        disk[p] = IF p \in removes[u] THEN Absent ELSE u

(* A path of a unit that was left to the next startup by its caller.          *)
Abandoned(p) == \E u \in Units : phase[u] = "left" /\ p \in items[u]

(* Only a live unit, one a crash cut short, or an abandoned one still has     *)
(* something aside, and a path has one backup unless it was abandoned.        *)
BackupOK ==
    \A u \in Units, p \in Paths : backup[u][p] # Absent =>
        /\ p \in items[u]
        /\ \/ Live(u) /\ p \in (placed[u] \cup busy[u]) \ settled[u]
           \/ phase[u] \in {"crashed", "broken"} /\ server # "up"
           \/ phase[u] = "left"
        /\ p \notin Handoffs /\ ~Abandoned(p) => \A v \in Units : backup[v][p] # Absent => u = v

(* What a unit wrote before it recorded anything is where it put it.          *)
TraceOK ==
    \A u \in Units, p \in Paths :
        /\ disk[p] = u => p \in items[u]
        /\ \A v \in Units : backup[v][p] = u => p \in items[u]
        /\ row[p] = u => author[p] = u
        /\ author[p] = u => p \in items[u] /\ ~Unrecorded(u) /\ phase[u] \notin {"idle", "failed"}
        /\ Unrecorded(u) /\ disk[p] = u =>
            p \in placed[u] \ (removes[u] \cup settled[u] \cup busy[u])
        /\ Unrecorded(u) \/ phase[u] = "failed" => \A v \in Units : backup[v][p] # u
        /\ phase[u] = "failed" => disk[p] # u

(* The content a path returns to is aside, or else it is in place; a path     *)
(* with nothing to return to may show what was never recorded.                *)
Standing(c, p) ==
    IF row[p] # Absent THEN c = row[p]
    ELSE c = Absent \/ (c \in Units /\ (Unrecorded(c) \/ phase[c] = "crashed"))
KeptOK ==
    \A p \in Paths \ Handoffs : Returned(p) /\ ~Abandoned(p) =>
        IF \E u \in Units : backup[u][p] # Absent
        THEN \A u \in Units : backup[u][p] # Absent => Standing(backup[u][p], p)
        ELSE Standing(disk[p], p)

(* A registered plugin is in place or aside; a handoff with a task is never   *)
(* lost, and one without a task is a live unit's or waits for its removal.    *)
PluginOK ==
    \A p \in Plugins : Named(p) /\ phase[author[p]] \notin {"breaking", "broken"} =>
        /\ row[p] \in Units
        /\ disk[p] = row[p] \/ \E u \in Units : backup[u][p] = row[p]
HandoffOK ==
    \A p \in Handoffs :
        /\ Named(p) /\ disk[p] = Absent => \E u \in Units :
            backup[u][p] # Absent /\ (server = "up" => Live(u))
        /\ ~Named(p) /\ disk[p] # Absent /\ server = "up" => Held(p)
        /\ \A u \in Units :
            /\ backup[u][p] # Absent => Named(p)
            /\ Named(p) /\ Unrecorded(u) /\ p \in (placed[u] \cup busy[u]) \ settled[u] =>
                backup[u][p] # Absent
            /\ ~Named(p) /\ Unrecorded(u) /\ p \in (items[u] \ placed[u]) \cup settled[u] => disk[p] = Absent

ArtifactInv ==
    /\ TypeOK /\ BackupOK /\ TraceOK /\ KeptOK /\ PluginOK /\ HandoffOK
    /\ \A u \in Units : UnitOK(u) /\ ItemsOK(u)

(* What a unit recorded before it returned to its caller is what is found at  *)
(* its path, through every later failure, crash and recovery of other units,  *)
(* until the next unit records something there; unless a unit was abandoned   *)
(* there: what it set aside then comes back at the next startup, whatever was *)
(* recorded since.                                                            *)
ReportedIsKept ==
    \A p \in Paths \ Handoffs : AtRest(p) /\ Returned(p) /\ ~Abandoned(p) =>
        IF row[p] # Absent THEN disk[p] = row[p]
        ELSE disk[p] = Absent \/ (disk[p] \in Units /\ phase[disk[p]] = "crashed")

(* The plugin at rest is the registered one also after a crash at any step of *)
(* its installation, and a handoff directory exists if and only if a task     *)
(* names it.                                                                  *)
DatabaseDecides ==
    /\ \A p \in Plugins : AtRest(p) /\ Named(p) /\ phase[author[p]] # "broken" => disk[p] = row[p]
    /\ \A p \in Handoffs : AtRest(p) => (disk[p] # Absent <=> Named(p))

(* A unit whose failure was reported to its caller left nothing behind.       *)
FailureLeavesNoTrace ==
    \A u \in Units : phase[u] = "failed" =>
        /\ stage[u] = {}
        /\ \A p \in Paths : disk[p] # u /\ backup[u][p] = Absent
        /\ \A v \in Units, p \in Paths : backup[v][p] # u

(* What stands at a path: what a unit set aside comes back when the process   *)
(* stops now, otherwise what is in place remains.                             *)
Aside(p) == {backup[u][p] : u \in Units} \ {Absent}
Found(p) == IF Aside(p) = {} THEN {disk[p]} ELSE Aside(p)

(* CommitFails undid items of a unit the database had recorded.               *)
Undone(p) == author[p] # Original /\ phase[author[p]] \in {"breaking", "broken"}

(* What stands gives way to what the database records, at once or never: a    *)
(* crash between the commit and the deletion of the backups brings the old    *)
(* content back (recovery.py:233), cut short if it was a directory being      *)
(* deleted, and nothing else; only where nothing was recorded may a unit's    *)
(* content stand before it is.                                                *)
CaughtUp(p) == Found(p)' = {row'[p]}
Cut(p) == Found(p)' = {Torn} /\ p \notin Files /\ phase[author[p]] = "committing"
FirstContent(p) ==
    /\ row[p] = Absent /\ Found(p) = {Absent}
    /\ \E u \in Units : phase[u] = "promoting" /\ p \in items[u] /\ Found(p)' = {u}
FoundKept(p) == Found(p)' = Found(p) \/ CaughtUp(p) \/ Cut(p) \/ FirstContent(p)
AllFoundKept ==
    \A p \in Paths \ Handoffs : ~Abandoned(p)' /\ ~Undone(p)' => FoundKept(p)
OldOrRecorded == [][AllFoundKept]_vars

(* What makes it provable: where something is recorded, something stands, and *)
(* it is not what a unit has yet to record.                                   *)
SoundOK ==
    \A p \in Paths \ Handoffs : ~Abandoned(p) /\ ~Undone(p) /\ row[p] # Absent =>
        \A c \in Found(p) : c # Absent /\ (c \in Units => ~Unrecorded(c))
=============================================================================
