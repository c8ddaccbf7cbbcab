---------------------------- MODULE HoldoutCustody ----------------------------
(* Which rows may be kept for a blind evaluation: the intake of a sealed      *)
(* cohort (marvis/modeling_holdout/service.py) against the ordinary readers   *)
(* of the platform, who have to put on record what they are going to read     *)
(* (marvis/modeling_holdout/guards.py, marvis/data/registry.py,               *)
(* marvis/routers/data.py).  A file is the sequence of its sheets; its        *)
(* content never changes and all tables have the same columns.                *)
EXTENDS Naturals, Sequences

CONSTANTS
    Sheets, Rows,
    RowsOf,         \* the rows of a sheet, however it is encoded
    Legible,        \* sheets whose rows the identity decoder can tell apart
    Books,          \* the workbooks, of two sheets and more
    Tasks, Labels,  \* modeling tasks; data_identity of a contract
    Readers,        \* threads and workers that read ordinary files
    NoFile, NoLabel

Tables == {<<s>> : s \in Sheets}
Files == Tables \cup Books

ASSUME CustodyFiles ==
    /\ RowsOf \in [Sheets -> SUBSET Rows] /\ Legible \subseteq Sheets
    /\ \A b \in Books : b \in Seq(Sheets) /\ Len(b) >= 2
    /\ NoFile \notin Files /\ NoLabel \notin Labels

VARIABLES
    exposed,        \* blind_oot_exposures: files
    unverified,     \* blind_oot_unverified_sources
    exposedRows,    \* blind_oot_exposed_members
    cohort,         \* blind_oot_cohorts: the sealed file of a task, or NoFile
    label,          \* and its data_identity
    used,           \* tasks that have datasets, plans or jobs
    reader, file,   \* what a reader is doing, and with which file
    seen,           \* (world) rows that were read from tables, when admitted
    datasets        \* (world) rows of the sheets that became datasets

recordVars == <<exposed, unverified, exposedRows>>
cohortVars == <<cohort, label, used>>
readerVars == <<reader, file>>
readVars == <<seen, datasets>>
custodyVars == <<recordVars, cohortVars, readerVars, readVars>>

CustodyTypeOK ==
    /\ exposed \subseteq Files /\ unverified \subseteq Files
    /\ exposedRows \subseteq Rows
    /\ cohort \in [Tasks -> Tables \cup {NoFile}]
    /\ label \in [Tasks -> Labels \cup {NoLabel}]
    /\ used \subseteq Tasks
    /\ reader \in [Readers -> {"idle", "looked", "admitted", "staged", "checked"}]
    /\ file \in [Readers -> Files \cup {NoFile}]
    /\ seen \subseteq Rows /\ datasets \subseteq Rows

CustodyInit ==
    /\ exposed = {} /\ unverified = {} /\ exposedRows = {}
    /\ cohort = [t \in Tasks |-> NoFile] /\ label = [t \in Tasks |-> NoLabel]
    /\ used = {}
    /\ reader = [p \in Readers |-> "idle"] /\ file = [p \in Readers |-> NoFile]
    /\ seen = {} /\ datasets = {}

Content(f) == UNION {RowsOf[f[k]] : k \in 1..Len(f)}
Sealed == {cohort[t] : t \in Tasks} \ {NoFile}
SealedRows == UNION {Content(f) : f \in Sealed}

(* identity_source reads the first sheet of a workbook.                       *)
Members(f) == IF f[1] \in Legible THEN RowsOf[f[1]] ELSE {}

-----------------------------------------------------------------------------
(* The custodian.                                                             *)

(* Mutation: the file counts, not its rows.                                   *)
NewByHash(f) == f \notin exposed /\ f \notin Sealed

(* _was_exposed, assert_no_unverified_exposure and _members_reserved.         *)
NeverSeen(f) ==
    /\ f \notin exposed /\ f \notin Sealed
    /\ unverified = {}
    /\ Members(f) \cap (exposedRows \cup SealedRows) = {}

(* intake: one transaction, before any development in the task.               *)
Intake(t, f, l) ==
    /\ cohort[t] = NoFile /\ t \notin used
    /\ f[1] \in Legible /\ NeverSeen(f)
    /\ \A u \in Tasks : label[u] # l
    /\ cohort' = [cohort EXCEPT ![t] = f]
    /\ label' = [label EXCEPT ![t] = l]
    /\ UNCHANGED <<used, recordVars, readerVars, readVars>>

StartDevelopment(t) ==
    /\ t \notin used
    /\ used' = used \cup {t}
    /\ UNCHANGED <<cohort, label, recordVars, readerVars, readVars>>

-----------------------------------------------------------------------------
(* What record_exposure does on a connection.                                 *)

(* Mutation: only the file itself is compared with the cohorts.               *)
ClearByHash(f) == f \notin Sealed

(* assert_hash_public, assert_reserved_projections and _members_reserved.     *)
Clear(f) ==
    /\ f \notin Sealed
    /\ \/ f \in exposed \/ Sealed = {}
       \/ f[1] \in Legible /\ Members(f) \cap SealedRows = {}

(* Mutation: rows that cannot be told apart are not remembered.               *)
ExposeForgetful(F) ==
    /\ exposed' = exposed \cup F
    /\ exposedRows' = exposedRows \cup UNION {Members(f) : f \in F}
    /\ UNCHANGED unverified
Expose(F) ==
    /\ exposed' = exposed \cup F
    /\ exposedRows' = exposedRows \cup UNION {Members(f) : f \in F}
    /\ unverified' = unverified \cup {f \in F : f[1] \notin Legible}

-----------------------------------------------------------------------------
(* A reader that reserves first: scans, previews, the backend, registration.  *)
GoTo(p, place, f) ==
    /\ reader' = [reader EXCEPT ![p] = place]
    /\ file' = [file EXCEPT ![p] = f]

(* Outside a transaction: refused, known already, or to be recorded.          *)
Look(p, f) ==
    /\ reader[p] = "idle" /\ f \notin Sealed
    /\ GoTo(p, IF f \in exposed THEN "admitted" ELSE "looked", f)
    /\ UNCHANGED <<recordVars, cohortVars, readVars>>

(* BEGIN IMMEDIATE, and everything is compared again.                         *)
Admit(p) ==
    /\ reader[p] = "looked" /\ Clear(file[p])
    /\ IF file[p] \in exposed THEN UNCHANGED recordVars ELSE Expose({file[p]})
    /\ GoTo(p, "admitted", file[p])
    /\ UNCHANGED <<cohortVars, readVars>>

TurnAway(p) ==
    /\ reader[p] = "looked" /\ ~Clear(file[p])
    /\ GoTo(p, "idle", NoFile)
    /\ UNCHANGED <<recordVars, cohortVars, readVars>>

ReadTable(p) ==
    /\ reader[p] = "admitted" /\ file[p] \in Tables
    /\ seen' = seen \cup Content(file[p])
    /\ GoTo(p, "idle", NoFile)
    /\ UNCHANGED <<recordVars, cohortVars, datasets>>

-----------------------------------------------------------------------------
(* Workbooks.  Their rows are decoded here, on record or not; the properties  *)
(* follow those that become datasets.                                         *)
Parse(p, b) ==
    /\ GoTo(p, "staged", b)
    /\ UNCHANGED <<recordVars, cohortVars, readVars>>

(* The upload route: every sheet becomes a staged table, nothing is asked.    *)
UploadBook(p, b) == reader[p] = "idle" /\ Parse(p, b)

(* The ingest tool: the workbook has been admitted.                           *)
IngestBook(p) == reader[p] = "admitted" /\ file[p] \in Books /\ Parse(p, file[p])

(* register_existing_on_connection, sheet by sheet on one connection, which   *)
(* opens its transaction with its first INSERT: the first sheet is compared   *)
(* before that.                                                               *)
Sheet(b, k) == <<b[k]>>
CheckFirstSheet(p) ==
    /\ reader[p] = "staged" /\ Clear(Sheet(file[p], 1))
    /\ GoTo(p, "checked", file[p])
    /\ UNCHANGED <<recordVars, cohortVars, readVars>>

(* Then its reservation, the other sheets with theirs, and the datasets; of   *)
(* the first sheet only the hash is compared again.                           *)
RegisterBook(p, t) ==
    /\ reader[p] = "checked"
    /\ Sheet(file[p], 1) \notin Sealed
    /\ \A k \in 2..Len(file[p]) : Clear(Sheet(file[p], k))
    /\ Expose({Sheet(file[p], k) : k \in 1..Len(file[p])})
    /\ datasets' = datasets \cup Content(file[p])
    /\ used' = used \cup {t}
    /\ GoTo(p, "idle", NoFile)
    /\ UNCHANGED <<cohort, label, seen>>

(* A sheet is refused or something fails, and the transaction is undone; or   *)
(* the reader stops before.                                                   *)
GiveUp(p) ==
    /\ reader[p] # "idle"
    /\ GoTo(p, "idle", NoFile)
    /\ UNCHANGED <<recordVars, cohortVars, readVars>>

-----------------------------------------------------------------------------
CustodyNext ==
    \/ \E t \in Tasks, f \in Tables, l \in Labels : Intake(t, f, l)
    \/ \E t \in Tasks : StartDevelopment(t)
    \/ \E p \in Readers :
          \/ \E f \in Files : Look(p, f)
          \/ Admit(p) \/ TurnAway(p) \/ ReadTable(p) \/ IngestBook(p)
          \/ CheckFirstSheet(p) \/ GiveUp(p)
          \/ \E b \in Books : UploadBook(p, b)
          \/ \E t \in Tasks : RegisterBook(p, t)

CustodySpec == CustodyInit /\ [][CustodyNext]_custodyVars

-----------------------------------------------------------------------------
(* Rows that the tables know to be read, or cannot tell.                      *)
OnRecord == exposedRows \cup UNION {Content(f) : f \in unverified}

(* The tables agree with each other and with what was read: what is recorded  *)
(* about a file covers its rows, tables and datasets that were read are on    *)
(* record, and of the sealed rows only those that became a dataset are.       *)
CustodyInv ==
    /\ CustodyTypeOK
    /\ \A t \in Tasks : /\ cohort[t] = NoFile <=> label[t] = NoLabel
                        /\ cohort[t] # NoFile => cohort[t][1] \in Legible
    /\ \A p \in Readers : /\ reader[p] = "idle" <=> file[p] = NoFile
                          /\ reader[p] \in {"staged", "checked"} => file[p] \in Books
                          /\ reader[p] = "admitted" => file[p] \in exposed
    /\ \A f \in exposed : IF f[1] \in Legible THEN RowsOf[f[1]] \subseteq exposedRows
                                               ELSE f \in unverified
    /\ seen \cup datasets \subseteq OnRecord
    /\ SealedRows \cap OnRecord \subseteq datasets

(* A sealed row has never been read from an ordinary table, whatever the      *)
(* order in which readers look, reserve and read and the custodian seals, and *)
(* however the row is encoded -- but for rows that a workbook turned into a   *)
(* dataset.                                                                   *)
SealedNeverRead == SealedRows \cap seen \subseteq datasets

(* Row for row, a cohort has one budget: no other task, data identity or      *)
(* encoding of the same rows opens a second one (already reserved).           *)
OneBudgetPerRow ==
    \A t, u \in Tasks :
        t # u /\ cohort[t] # NoFile /\ cohort[u] # NoFile
            => Content(cohort[t]) \cap Content(cohort[u]) = {}

-----------------------------------------------------------------------------
(* The comment in record_exposure: reservations share the SQLite write lock   *)
(* with sealing.  No dataset then holds a sealed row.                         *)
NoDatasetOfSealedRows == SealedRows \cap datasets = {}
=============================================================================
