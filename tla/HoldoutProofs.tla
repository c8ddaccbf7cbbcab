---------------------------- MODULE HoldoutProofs ----------------------------
(* The holdout seal for any files, tasks, readers, calls and models: what was *)
(* read is not sealed, what is sealed is read once, and one answer comes of   *)
(* it.                                                                        *)
EXTENDS HoldoutCustody, HoldoutEvaluation, TLAPS

(* A table has the rows of its only sheet.                                    *)
LEMMA TableContent ==
    ASSUME NEW s
    PROVE  Content(<<s>>) = RowsOf[s] /\ <<s>>[1] = s /\ Len(<<s>>) = 1
BY DEF Content

(* A workbook has the rows of its sheets, each of which becomes a table.      *)
LEMMA BookContent ==
    ASSUME NEW b \in Books
    PROVE  /\ \A k \in 1..Len(b) : /\ Sheet(b, k) \in Tables
                                   /\ Sheet(b, k)[1] = b[k]
                                   /\ Content(Sheet(b, k)) = RowsOf[b[k]]
           /\ Content(b) = UNION {RowsOf[b[k]] : k \in 1..Len(b)}
           /\ b[1] \in Sheets /\ 1 \in 1..Len(b)
           /\ Members(b) \subseteq Content(b)
<1>1. b \in Seq(Sheets) /\ Len(b) >= 2 /\ Len(b) \in Nat
    BY CustodyFiles
<1>2. \A k \in 1..Len(b) : b[k] \in Sheets
    BY <1>1
<1> QED BY <1>1, <1>2, TableContent DEF Sheet, Tables, Content, Members

(* The rows of every file are rows.                                           *)
LEMMA ContentTyped ==
    ASSUME NEW f \in Files
    PROVE  Content(f) \subseteq Rows /\ f[1] \in Sheets /\ RowsOf[f[1]] \subseteq Content(f)
<1>1. CASE f \in Books
    <2>1. f \in Seq(Sheets) /\ Len(f) >= 2 /\ Len(f) \in Nat
        BY <1>1, CustodyFiles
    <2>2. \A k \in 1..Len(f) : f[k] \in Sheets /\ RowsOf[f[k]] \subseteq Rows
        BY <2>1, CustodyFiles
    <2> QED BY <2>1, <2>2 DEF Content
<1>2. CASE f \in Tables
    BY <1>2, TableContent, CustodyFiles DEF Tables
<1> QED BY <1>1, <1>2 DEF Files

LEMMA CustodyInvInit == CustodyInit => CustodyInv /\ OneBudgetPerRow
BY CustodyFiles DEF CustodyInit, CustodyInv, CustodyTypeOK, OneBudgetPerRow, OnRecord, SealedRows, Sealed

(* Intake finds none of the rows on record and none of them sealed.           *)
LEMMA IntakeKeeps ==
    ASSUME CustodyInv, OneBudgetPerRow, NEW t \in Tasks, NEW f \in Tables, NEW l \in Labels,
           Intake(t, f, l)
    PROVE  CustodyInv' /\ OneBudgetPerRow'
<1> USE DEF Intake
<1>1. PICK s \in Sheets : f = <<s>>
    BY DEF Tables
<1>2. Content(f) = RowsOf[s] /\ Members(f) = Content(f) /\ f # NoFile /\ l # NoLabel /\ f \in Files
    BY <1>1, TableContent, CustodyFiles DEF Members, Files
<1>3. UNCHANGED <<exposed, unverified, exposedRows, reader, file, seen, datasets, used>>
    BY DEF recordVars, readerVars, readVars
<1>4. cohort \in [Tasks -> Tables \cup {NoFile}] /\ label \in [Tasks -> Labels \cup {NoLabel}]
    BY DEF CustodyInv, CustodyTypeOK
<1>5. CustodyTypeOK'
    BY <1>3 DEF CustodyInv, CustodyTypeOK
<1>6. SealedRows' = SealedRows \cup Content(f)
    BY <1>2, <1>4 DEF SealedRows, Sealed
<1>7. OnRecord' = OnRecord /\ OnRecord = exposedRows
    BY <1>3 DEF OnRecord, NeverSeen
<1>8. Content(f) \cap (OnRecord \cup SealedRows) = {}
    BY <1>2, <1>7 DEF NeverSeen
<1>9. CustodyInv'
    BY <1>2, <1>3, <1>4, <1>5, <1>6, <1>7, <1>8 DEF CustodyInv
<1>10. ASSUME NEW u \in Tasks, cohort[u] # NoFile
       PROVE  Content(cohort[u]) \subseteq SealedRows
    BY <1>10 DEF SealedRows, Sealed
<1>11. OneBudgetPerRow'
    BY <1>2, <1>4, <1>8, <1>10 DEF OneBudgetPerRow
<1> QED BY <1>9, <1>11

(* A reservation of clear files puts no sealed row on record.                 *)
LEMMA ExposeKeeps ==
    ASSUME CustodyInv, NEW F \in SUBSET Files, Expose(F),
           UNCHANGED <<cohort, label>>, datasets \subseteq datasets',
           \A f \in F : Clear(f) \/ Content(f) \subseteq datasets'
    PROVE  /\ exposed' \subseteq Files /\ unverified' \subseteq Files /\ exposedRows' \subseteq Rows
           /\ \A f \in exposed' : IF f[1] \in Legible THEN RowsOf[f[1]] \subseteq exposedRows'
                                                      ELSE f \in unverified'
           /\ OnRecord \subseteq OnRecord'
           /\ SealedRows' \cap OnRecord' \subseteq datasets'
           /\ \A f \in F : f \in Tables => Content(f) \subseteq OnRecord'
<1> USE DEF Expose
<1>1. \A f \in F : Members(f) = IF f[1] \in Legible THEN RowsOf[f[1]] ELSE {}
    BY DEF Members
<1>2. \A f \in F : RowsOf[f[1]] \subseteq Content(f) /\ Content(f) \subseteq Rows
    BY ContentTyped
<1>3. \A f \in exposed' : IF f[1] \in Legible THEN RowsOf[f[1]] \subseteq exposedRows'
                                              ELSE f \in unverified'
    BY <1>1 DEF CustodyInv
<1>4. OnRecord \subseteq OnRecord'
    BY DEF OnRecord
<1>5. SealedRows' = SealedRows
    BY DEF SealedRows, Sealed
<1>6. SealedRows \cap OnRecord \subseteq datasets'
    BY DEF CustodyInv
<1>7. ASSUME NEW f \in F, NEW r \in SealedRows,
             \/ r \in Members(f)
             \/ f[1] \notin Legible /\ r \in Content(f)
      PROVE  r \in datasets'
    <2>1. Members(f) \subseteq Content(f)
        BY <1>1, <1>2
    <2>2. CASE Content(f) \subseteq datasets'
        BY <1>7, <2>1, <2>2
    <2>3. CASE Clear(f) /\ f \in exposed
        <3>1. IF f[1] \in Legible THEN RowsOf[f[1]] \subseteq OnRecord ELSE Content(f) \subseteq OnRecord
            BY <2>3 DEF CustodyInv, OnRecord
        <3> QED BY <1>1, <1>6, <1>7, <3>1
    <2>4. CASE Sealed = {}
        BY <2>4 DEF SealedRows
    <2>5. CASE f[1] \in Legible /\ Members(f) \cap SealedRows = {}
        BY <1>7, <2>5
    <2> QED BY <2>2, <2>3, <2>4, <2>5 DEF Clear
<1>8. SealedRows' \cap OnRecord' \subseteq datasets'
    <2> SUFFICES ASSUME NEW r \in SealedRows, r \in OnRecord' PROVE r \in datasets'
        BY <1>5
    <2> QED BY <1>6, <1>7 DEF OnRecord
<1>9. \A f \in F : f \in Tables => Content(f) \subseteq OnRecord'
    BY <1>1, TableContent DEF OnRecord, Tables
<1>10. exposed' \subseteq Files /\ unverified' \subseteq Files /\ exposedRows' \subseteq Rows
    BY <1>1, <1>2 DEF CustodyInv, CustodyTypeOK
<1> QED BY <1>3, <1>4, <1>8, <1>9, <1>10
(* The reservations of a reader keep the records.                             *)
LEMMA AdmitKeeps ==
    ASSUME CustodyInv, NEW p \in Readers, Admit(p)
    PROVE  CustodyInv'
<1> USE DEF Admit, GoTo
<1>1. reader[p] = "looked" /\ file[p] \in Files /\ NoFile \notin Files
    BY CustodyFiles DEF CustodyInv, CustodyTypeOK
<1>2. UNCHANGED <<cohort, label, used, seen, datasets>> /\ SealedRows' = SealedRows
    BY DEF cohortVars, readVars, SealedRows, Sealed
<1>3. CASE file[p] \in exposed
    <2>1. UNCHANGED <<exposed, unverified, exposedRows>>
        BY <1>3 DEF recordVars
    <2>2. CustodyTypeOK'
        BY <1>1, <1>2, <2>1 DEF CustodyInv, CustodyTypeOK
    <2>3. OnRecord' = OnRecord
        BY <2>1 DEF OnRecord
    <2> QED BY <1>1, <1>2, <1>3, <2>1, <2>2, <2>3 DEF CustodyInv, CustodyTypeOK
<1>4. CASE file[p] \notin exposed
    <2>1. Expose({file[p]})
        BY <1>4
    <2>2. /\ exposed' \subseteq Files /\ unverified' \subseteq Files /\ exposedRows' \subseteq Rows
          /\ \A f \in exposed' : IF f[1] \in Legible THEN RowsOf[f[1]] \subseteq exposedRows'
                                                     ELSE f \in unverified'
          /\ OnRecord \subseteq OnRecord'
          /\ SealedRows' \cap OnRecord' \subseteq datasets'
        BY <1>1, <1>2, <2>1, ExposeKeeps
    <2>3. CustodyTypeOK'
        BY <1>1, <1>2, <2>2 DEF CustodyInv, CustodyTypeOK
    <2>4. file[p] \in exposed' /\ exposed \subseteq exposed'
        BY <2>1 DEF Expose
    <2> QED BY <1>1, <1>2, <2>2, <2>3, <2>4 DEF CustodyInv, CustodyTypeOK
<1> QED BY <1>3, <1>4

LEMMA RegisterKeeps ==
    ASSUME CustodyInv, NEW p \in Readers, NEW t \in Tasks, RegisterBook(p, t)
    PROVE  CustodyInv'
<1> USE DEF RegisterBook, GoTo
<1> DEFINE F == {Sheet(file[p], k) : k \in 1..Len(file[p])}
<1>1. file[p] \in Books
    BY DEF CustodyInv
<1>2. F \in SUBSET Files /\ F \in SUBSET Tables
    BY <1>1, BookContent DEF Files
<1>3. Content(file[p]) = UNION {Content(f) : f \in F}
    BY <1>1, BookContent
<1>4. UNCHANGED <<cohort, label, seen>> /\ SealedRows' = SealedRows
    BY DEF SealedRows, Sealed
<1>5. /\ exposed' \subseteq Files /\ unverified' \subseteq Files /\ exposedRows' \subseteq Rows
      /\ \A f \in exposed' : IF f[1] \in Legible THEN RowsOf[f[1]] \subseteq exposedRows'
                                                 ELSE f \in unverified'
      /\ OnRecord \subseteq OnRecord'
      /\ SealedRows' \cap OnRecord' \subseteq datasets'
      /\ \A f \in F : f \in Tables => Content(f) \subseteq OnRecord'
    <2>1. \A f \in F : Content(f) \subseteq datasets'
        BY <1>3
    <2> QED BY <1>2, <1>4, <2>1, ExposeKeeps
<1>6. Content(file[p]) \subseteq OnRecord' /\ Content(file[p]) \subseteq Rows
    BY <1>1, <1>2, <1>3, <1>5, ContentTyped DEF Files
<1>7. CustodyTypeOK'
    BY <1>4, <1>5, <1>6 DEF CustodyInv, CustodyTypeOK
<1>8. exposed \subseteq exposed'
    BY DEF Expose
<1> QED BY <1>4, <1>5, <1>6, <1>7, <1>8 DEF CustodyInv, CustodyTypeOK

(* Everything else a reader does; what it reads it has admitted.              *)
LEMMA ReaderKeeps ==
    ASSUME CustodyInv, NEW p \in Readers,
           \/ \E f \in Files : Look(p, f)
           \/ TurnAway(p) \/ ReadTable(p) \/ IngestBook(p) \/ CheckFirstSheet(p) \/ GiveUp(p)
           \/ \E b \in Books : UploadBook(p, b)
    PROVE  CustodyInv'
<1> USE CustodyFiles DEF GoTo
<1>1. reader \in [Readers -> {"idle", "looked", "admitted", "staged", "checked"}] /\ file \in [Readers -> Files \cup {NoFile}]
    BY DEF CustodyInv, CustodyTypeOK
<1>2. UNCHANGED <<exposed, unverified, exposedRows, cohort, label, used, datasets>>
    BY DEF Look, TurnAway, ReadTable, IngestBook, CheckFirstSheet, GiveUp, UploadBook, Parse, recordVars, cohortVars, readVars
<1>3. SealedRows' = SealedRows /\ OnRecord' = OnRecord
    BY <1>2 DEF SealedRows, Sealed, OnRecord
<1>4. /\ seen' \subseteq OnRecord /\ seen' \subseteq Rows
    <2>1. CASE ReadTable(p)
        <3>1. file[p] \in exposed /\ file[p] \in Tables
            BY <2>1 DEF ReadTable, CustodyInv
        <3>2. PICK s \in Sheets : file[p] = <<s>>
            BY <3>1 DEF Tables
        <3>3. Content(file[p]) \subseteq OnRecord
            BY <3>1, <3>2, TableContent DEF CustodyInv, OnRecord
        <3> QED BY <2>1, <3>1, <3>3, ContentTyped DEF ReadTable, CustodyInv, CustodyTypeOK, Files
    <2>2. CASE UNCHANGED seen
        BY <2>2 DEF CustodyInv, CustodyTypeOK
    <2> QED BY <2>1, <2>2 DEF Look, TurnAway, CheckFirstSheet, GiveUp, IngestBook, UploadBook, Parse, readVars
<1>5. /\ reader' \in [Readers -> {"idle", "looked", "admitted", "staged", "checked"}]
      /\ file' \in [Readers -> Files \cup {NoFile}]
      /\ \A q \in Readers : /\ (reader[q] = "idle" <=> file[q] = NoFile)'
                            /\ (reader[q] \in {"staged", "checked"} => file[q] \in Books)'
                            /\ (reader[q] = "admitted" => file[q] \in exposed)'
    <2>1. \A q \in Readers : /\ reader[q] = "idle" <=> file[q] = NoFile
                             /\ reader[q] \in {"staged", "checked"} => file[q] \in Books
                             /\ reader[q] = "admitted" => file[q] \in exposed
        BY DEF CustodyInv
    <2>2. CASE \E f \in Files : Look(p, f)
        BY <1>1, <1>2, <2>1, <2>2 DEF Look
    <2>3. CASE TurnAway(p) \/ GiveUp(p) \/ ReadTable(p)
        BY <1>1, <1>2, <2>1, <2>3 DEF TurnAway, GiveUp, ReadTable
    <2>4. CASE CheckFirstSheet(p)
        BY <1>1, <1>2, <2>1, <2>4 DEF CheckFirstSheet
    <2>5. CASE IngestBook(p) \/ \E b \in Books : UploadBook(p, b)
        BY <1>1, <1>2, <2>1, <2>5 DEF IngestBook, UploadBook, Parse, Files
    <2> QED BY <2>2, <2>3, <2>4, <2>5
<1>6. CustodyTypeOK'
    BY <1>2, <1>4, <1>5 DEF CustodyInv, CustodyTypeOK
<1> QED BY <1>2, <1>3, <1>4, <1>5, <1>6 DEF CustodyInv

LEMMA CustodyInvStep ==
    CustodyInv /\ OneBudgetPerRow /\ [CustodyNext]_custodyVars => CustodyInv' /\ OneBudgetPerRow'
<1> SUFFICES ASSUME CustodyInv, OneBudgetPerRow, [CustodyNext]_custodyVars
             PROVE  CustodyInv' /\ OneBudgetPerRow'
    OBVIOUS
<1>1. ASSUME NEW t \in Tasks, NEW f \in Tables, NEW l \in Labels, Intake(t, f, l)
      PROVE  CustodyInv' /\ OneBudgetPerRow'
    BY <1>1, IntakeKeeps
<1>2. ASSUME NEW t \in Tasks, StartDevelopment(t)
      PROVE  CustodyInv' /\ OneBudgetPerRow'
    BY <1>2 DEF StartDevelopment, CustodyInv, CustodyTypeOK, OneBudgetPerRow, OnRecord, SealedRows, Sealed, recordVars, readerVars, readVars
<1>3. ASSUME UNCHANGED cohort, CustodyInv' PROVE CustodyInv' /\ OneBudgetPerRow'
    BY <1>3 DEF OneBudgetPerRow
<1>4. ASSUME NEW p \in Readers, Admit(p) PROVE CustodyInv' /\ OneBudgetPerRow'
    BY <1>3, <1>4, AdmitKeeps DEF Admit, cohortVars
<1>5. ASSUME NEW p \in Readers, NEW t \in Tasks, RegisterBook(p, t)
      PROVE  CustodyInv' /\ OneBudgetPerRow'
    BY <1>3, <1>5, RegisterKeeps DEF RegisterBook
<1>6. ASSUME NEW p \in Readers,
             \/ \E f \in Files : Look(p, f)
             \/ TurnAway(p) \/ ReadTable(p) \/ IngestBook(p) \/ CheckFirstSheet(p) \/ GiveUp(p)
             \/ \E b \in Books : UploadBook(p, b)
      PROVE  CustodyInv' /\ OneBudgetPerRow'
    <2>1. UNCHANGED cohort
        BY <1>6 DEF Look, TurnAway, ReadTable, IngestBook, CheckFirstSheet, GiveUp, UploadBook, Parse, cohortVars
    <2> QED BY <1>3, <1>6, <2>1, ReaderKeeps
<1>7. CASE UNCHANGED custodyVars
    BY <1>7 DEF custodyVars, recordVars, cohortVars, readerVars, readVars, CustodyInv, CustodyTypeOK, OneBudgetPerRow, OnRecord, SealedRows, Sealed
<1> QED BY <1>1, <1>2, <1>4, <1>5, <1>6, <1>7 DEF CustodyNext

(* The tables of the seal, its readers and what was read agree.               *)
THEOREM CustodyInvariant == CustodySpec => []CustodyInv
BY CustodyInvInit, CustodyInvStep, PTL DEF CustodySpec

(* Row for row, no second cohort is sealed: two tasks, data identities or     *)
(* encodings never have a row in common.                                      *)
THEOREM OneBudgetPerRowHolds == CustodySpec => []OneBudgetPerRow
BY CustodyInvInit, CustodyInvStep, PTL DEF CustodySpec

(* However readers and the custodian interleave, a table with a sealed row is *)
(* not read, unless a workbook has made a dataset of the row.                 *)
THEOREM SealedNeverReadHolds == CustodySpec => []SealedNeverRead
<1>1. CustodyInv => SealedNeverRead
    BY DEF CustodyInv, SealedNeverRead
<1> QED BY <1>1, CustodyInvariant, PTL
-----------------------------------------------------------------------------
(* The evaluation.                                                            *)
LEMMA EvaluationInvInit == Init => EvaluationInv
BY EvaluationBounds, NotAResult DEF Init, EvaluationInv, TypeOK, RowOK, ResultOK, MarkedOK, Established, AtWork, Over, People, Recoveries

(* The people and the recoveries leave the row, the calls and the result.     *)
LEMMA PeopleKeep ==
    ASSUME EvaluationInv, PeopleNext
    PROVE  EvaluationInv'
<1> USE EvaluationBounds, NotAResult DEF EvaluationInv, RowOK, ResultOK, MarkedOK
<1>1. CASE \E p \in People : LoseRole(p) \/ RegainRole(p)
    BY <1>1 DEF LoseRole, RegainRole, TypeOK, Established, rowVars, recoveryVars, callVars, worldVars
<1>2. ASSUME NEW m \in Models, Freeze(m)
      PROVE  EvaluationInv'
    <2>1. state = "none" /\ owner = Nobody /\ reads = {} /\ result = NoResult
        BY <1>2 DEF Freeze, TypeOK
    <2>2. \A c \in Calls : pc[c] \notin {"marked", "scored", "built", "published"}
        BY <2>1
    <2>3. TypeOK'
        BY <1>2 DEF Freeze, TypeOK, rowVars, recoveryVars, callVars, worldVars
    <2> QED BY <1>2, <2>1, <2>2, <2>3 DEF Freeze, Established, rowVars, recoveryVars, callVars, worldVars
<1>3. ASSUME NEW f \in Facts, RecordFact(f)
      PROVE  EvaluationInv'
    <2>1. TypeOK' /\ clock' = clock + 1 /\ clock \in Nat /\ readAt \in Nat /\ recordedAt \in [Facts -> Nat]
        BY <1>3 DEF RecordFact, TypeOK, rowVars, recoveryVars, callVars, worldVars
    <2>2. readAt # 0 => Established' = Established
        BY <1>3, <2>1 DEF RecordFact, Established, rowVars
    <2>3. readAt' <= clock' /\ \A g \in Facts : recordedAt'[g] <= clock'
        BY <1>3, <2>1 DEF RecordFact, rowVars
    <2> QED BY <1>3, <2>1, <2>2, <2>3 DEF RecordFact, rowVars, recoveryVars, callVars, worldVars
<1>4. ASSUME NEW what \in {"resume_before_read", "publish_result"}, Recover(what)
      PROVE  EvaluationInv'
    <2>1. granted + 1 \in Recoveries /\ granted' \in 0..MaxRecoveries
        BY <1>4 DEF Recover, TypeOK, Recoveries
    <2>2. TypeOK'
        BY <1>4, <2>1 DEF Recover, TypeOK, peopleVars, rowVars, callVars, worldVars
    <2> QED BY <1>4, <2>2 DEF Recover, Established, peopleVars, rowVars, callVars, worldVars
<1>5. CASE \E r \in Recoveries : RecoveryLapses(r)
    BY <1>5 DEF RecoveryLapses, TypeOK, Established, peopleVars, rowVars, callVars, worldVars
<1> QED BY <1>1, <1>2, <1>3, <1>4, <1>5 DEF PeopleNext

(* The transaction a call begins with: the budget is free, or a recovery      *)
(* hands over one whose rows were not read, or a result that is there.        *)
LEMMA BeginKeeps ==
    ASSUME EvaluationInv, NEW c \in Calls, Begin(c)
    PROVE  EvaluationInv'
<1> USE EvaluationBounds, NotAResult DEF EvaluationInv, RowOK, ResultOK, MarkedOK, Begins, Go
<1>1. CASE Answer(c)
    <2>1. TypeOK' /\ told' = told
        BY <1>1 DEF Answer, TypeOK, Over, peopleVars, rowVars, recoveryVars
    <2> QED BY <1>1, <2>1 DEF Answer, Established, TypeOK, peopleVars, rowVars, recoveryVars
<1>2. CASE Reserve(c)
    <2>1. TypeOK'
        BY <1>2 DEF Reserve, TypeOK, AtWork, peopleVars, recoveryVars, worldVars
    <2>2. readAt = 0 /\ reads = {} /\ result = NoResult
        BY <1>2 DEF Reserve, TypeOK
    <2> QED BY <1>2, <2>1, <2>2 DEF Reserve, Established, TypeOK, peopleVars, recoveryVars, worldVars
<1>3. ASSUME NEW r \in Recoveries, Resume(c, r)
      PROVE  EvaluationInv'
    <2>1. TypeOK'
        BY <1>3 DEF Resume, TypeOK, AtWork, peopleVars, worldVars
    <2>2. readAt = 0 /\ reads = {} /\ result = NoResult
        BY <1>3 DEF Resume, TypeOK
    <2>3. state \in {"prepared", "uncertain"}
        BY <1>3, <2>2 DEF Resume, Open
    <2> QED BY <1>3, <2>1, <2>2, <2>3 DEF Resume, Established, TypeOK, peopleVars, worldVars
<1>4. ASSUME NEW r \in Recoveries, PublishRecovered(c, r)
      PROVE  EvaluationInv'
    <2>1. TypeOK'
        BY <1>4 DEF PublishRecovered, TypeOK, Over, peopleVars
    <2>2. readAt # 0 /\ owner # Nobody /\ told = {}
        BY <1>4 DEF PublishRecovered, TypeOK, Open
    <2> QED BY <1>4, <2>1, <2>2 DEF PublishRecovered, Established, TypeOK, Open, peopleVars
<1>5. CASE Refuse(c)
    <2>1. TypeOK'
        BY <1>5 DEF Refuse, TypeOK, Over, peopleVars, rowVars, recoveryVars, worldVars
    <2> QED BY <1>5, <2>1 DEF Refuse, Established, TypeOK, peopleVars, rowVars, recoveryVars, worldVars
<1> QED BY <1>1, <1>2, <1>3, <1>4, <1>5 DEF Begin

(* What a call does after that, and its death.                                *)
LEMMA StepKeeps ==
    ASSUME EvaluationInv, NEW c \in Calls, Step(c) \/ Die(c)
    PROVE  EvaluationInv'
<1> USE EvaluationBounds, NotAResult DEF EvaluationInv, RowOK, ResultOK, MarkedOK, Go
<1>1. CASE MarkReadStarted(c)
    <2>1. TypeOK' /\ clock \in Nat /\ recordedAt \in [Facts -> Nat]
        BY <1>1 DEF MarkReadStarted, MayRead, TypeOK, AtWork, recoveryVars
    <2>2. reads = {} /\ result = NoResult /\ state' = "reading" /\ readAt' = clock + 1
        BY <1>1 DEF MarkReadStarted, MayRead, TypeOK
    <2>3. \A f \in Facts : recordedAt[f] <= readAt'
        BY <2>1, <2>2
    <2>4. known' = Established'
        BY <1>1, <2>2, <2>3 DEF MarkReadStarted, Established
    <2>5. RowOK'
        BY <1>1, <2>1, <2>2, <2>3, <2>4 DEF MarkReadStarted, MayRead, recoveryVars
    <2>6. ResultOK' /\ \A d \in Calls : MarkedOK(d)'
        BY <1>1, <2>1, <2>2 DEF MarkReadStarted, MayRead, TypeOK, recoveryVars
    <2> QED BY <2>1, <2>5, <2>6
<1>2. CASE ScoreSealed(c)
    <2>1. TypeOK' /\ reads = {} /\ owner = c /\ readAt # 0 /\ result = NoResult
        BY <1>2 DEF ScoreSealed, TypeOK, AtWork, peopleVars, rowVars, recoveryVars
    <2>2. reads' = {c}
        BY <1>2, <2>1 DEF ScoreSealed
    <2> QED BY <1>2, <2>1, <2>2 DEF ScoreSealed, Established, TypeOK, peopleVars, rowVars, recoveryVars
<1>3. CASE BuildResult(c)
    <2>1. frozen \in Models /\ Established \subseteq Facts /\ known = Established
        BY <1>3 DEF BuildResult, TypeOK, Established
    <2>2. [by |-> c, model |-> frozen, facts |-> Established] \in Results
        BY <2>1 DEF Results
    <2>3. TypeOK'
        BY <1>3, <2>2 DEF BuildResult, TypeOK, AtWork, peopleVars, rowVars, recoveryVars, worldVars
    <2> QED BY <1>3, <2>1, <2>3 DEF BuildResult, Established, TypeOK, peopleVars, rowVars, recoveryVars, worldVars
<1>4. CASE Publish(c)
    <2>1. /\ body[c] = [by |-> c, model |-> frozen, facts |-> known] /\ owner = c /\ c \in reads
          /\ \A d \in Calls : pc[d] \in {"marked", "scored", "built", "published"} => d = c
        BY <1>4 DEF Publish
    <2>2. reads = {owner} /\ result = NoResult
        BY <1>4, <2>1 DEF Publish
    <2>3. TypeOK'
        BY <1>4 DEF Publish, TypeOK, AtWork, peopleVars, rowVars, recoveryVars, worldVars
    <2>4. body[c] # NoResult /\ state # "committed" /\ state # "none"
        BY <1>4, <2>1, <2>2 DEF TypeOK, Results
    <2> QED BY <1>4, <2>1, <2>2, <2>3, <2>4 DEF Publish, Established, TypeOK, peopleVars, rowVars, recoveryVars, worldVars
<1>5. CASE CommitResult(c)
    <2>1. TypeOK' /\ told = {} /\ result = body[c] /\ body[c] \in Results /\ readAt # 0 /\ owner = c
        BY <1>5 DEF CommitResult, TypeOK, Over, Results, peopleVars, recoveryVars
    <2> QED BY <1>5, <2>1 DEF CommitResult, Established, TypeOK, peopleVars, recoveryVars
<1>6. CASE Fail(c) \/ Die(c)
    <2>1. TypeOK'
        BY <1>6 DEF Fail, Die, TypeOK, Over, peopleVars, rowVars, recoveryVars, worldVars
    <2> QED BY <1>6, <2>1 DEF Fail, Die, Established, TypeOK, AtWork, peopleVars, rowVars, recoveryVars, worldVars
<1>7. CASE MarkUncertain(c)
    <2>1. TypeOK'
        BY <1>7 DEF MarkUncertain, TypeOK, Over, peopleVars, recoveryVars, worldVars
    <2>2. owner = c => owner # Nobody
        OBVIOUS
    <2> QED BY <1>7, <2>1, <2>2 DEF MarkUncertain, Established, TypeOK, peopleVars, recoveryVars, worldVars
<1> QED BY <1>1, <1>2, <1>3, <1>4, <1>5, <1>6, <1>7 DEF Step

LEMMA EvaluationInvStep == EvaluationInv /\ [Next]_vars => EvaluationInv'
<1> SUFFICES ASSUME EvaluationInv, [Next]_vars PROVE EvaluationInv'
    OBVIOUS
<1>1. CASE UNCHANGED vars
    BY <1>1 DEF vars, peopleVars, rowVars, recoveryVars, callVars, worldVars, EvaluationInv, TypeOK, RowOK, ResultOK, MarkedOK, Established
<1> QED BY <1>1, PeopleKeep, BeginKeeps, StepKeeps DEF Next

(* Row, calls, result file and answers agree.                                 *)
THEOREM EvaluationInvariant == Spec => []EvaluationInv
BY EvaluationInvInit, EvaluationInvStep, PTL DEF Spec

(* The sealed rows are opened once, by the owner whose mark is on record.     *)
THEOREM OneReadHolds == Spec => []OneRead
<1>1. EvaluationInv => OneRead
    BY DEF EvaluationInv, RowOK, OneRead
<1> QED BY <1>1, EvaluationInvariant, PTL

(* Everybody is told the one result, of the one read and the frozen model.    *)
THEOREM OneAnswerHolds == Spec => []OneAnswer
<1>1. EvaluationInv => OneAnswer
    BY DEF EvaluationInv, ResultOK, OneAnswer
<1> QED BY <1>1, EvaluationInvariant, PTL

(* A conclusion rests on what was on record before the rows were read.        *)
THEOREM FactsPrecedeReadHolds == Spec => []FactsPrecedeRead
<1>1. EvaluationInv => FactsPrecedeRead
    BY DEF EvaluationInv, ResultOK, FactsPrecedeRead
<1> QED BY <1>1, EvaluationInvariant, PTL

(* A signed result is committed or may still be published.                    *)
THEOREM ResultRecoverableHolds == Spec => []ResultRecoverable
<1>1. EvaluationInv => ResultRecoverable
    <2> SUFFICES ASSUME EvaluationInv, result # NoResult
                 PROVE  result.by = owner /\ (Open \/ committed = result)
        BY DEF ResultRecoverable
    <2>1. reads = {owner} /\ result.by = owner /\ reads \subseteq Calls
        BY DEF EvaluationInv, ResultOK, TypeOK
    <2>2. state # "none"
        BY <2>1, EvaluationBounds DEF EvaluationInv, RowOK
    <2> QED BY <2>1, <2>2 DEF EvaluationInv, ResultOK, Open
<1> QED BY <1>1, EvaluationInvariant, PTL
(* The mark spends the budget, the scoring looks, a commit or a recovered     *)
(* publication settles; every other step is none of the promise's.            *)
THEOREM EvaluationRefines == Spec => ImplementsOneReadBudget
<1>1. Init => Budget!Init
    BY DEF Init, Budget!Init
<1>2. EvaluationInv /\ [Next]_vars => [Budget!Next]_Budget!vars
    <2> SUFFICES ASSUME EvaluationInv, [Next]_vars PROVE [Budget!Next]_Budget!vars
        OBVIOUS
    <2> USE DEF Budget!vars
    <2>1. CASE UNCHANGED <<readAt, reads, committed, told>>
        BY <2>1
    <2>2. CASE PeopleNext \/ UNCHANGED vars
        BY <2>1, <2>2 DEF PeopleNext, LoseRole, RegainRole, Freeze, RecordFact, Recover, RecoveryLapses, vars, rowVars, worldVars
    <2>3. ASSUME NEW c \in Calls, Begin(c)
          PROVE  [Budget!Next]_Budget!vars
        <3>1. CASE Reserve(c) \/ Refuse(c) \/ \E r \in Recoveries : Resume(c, r)
            BY <2>1, <3>1 DEF Reserve, Refuse, Resume, rowVars, worldVars
        <3>2. CASE Answer(c)
            <4>1. told' = told
                BY <3>2 DEF Answer, EvaluationInv, ResultOK
            <4> QED BY <2>1, <3>2, <4>1 DEF Answer, rowVars
        <3>3. ASSUME NEW r \in Recoveries, PublishRecovered(c, r)
              PROVE  Budget!Settle
            <4>1. /\ reads = {owner} /\ committed = NoResult /\ told = {}
                  /\ result \in Results /\ committed' = result /\ told' = {result}
                BY <3>3 DEF PublishRecovered, Open, EvaluationInv, ResultOK, TypeOK
            <4> QED BY <3>3, <4>1 DEF PublishRecovered, Budget!Settle
        <3> QED BY <2>3, <3>1, <3>2, <3>3 DEF Begin, Budget!Next
    <2>4. ASSUME NEW c \in Calls, Step(c) \/ Die(c)
          PROVE  [Budget!Next]_Budget!vars
        <3>1. CASE MarkReadStarted(c)
            <4>1. readAt = 0 /\ readAt' # 0
                BY <3>1 DEF MarkReadStarted, MayRead, EvaluationInv, TypeOK
            <4> QED BY <3>1, <4>1 DEF MarkReadStarted, Budget!Next, Budget!Spend
        <3>2. CASE ScoreSealed(c)
            <4>1. readAt # 0 /\ reads = {} /\ reads' = {c}
                BY <3>2 DEF ScoreSealed, EvaluationInv, MarkedOK
            <4> QED BY <3>2, <4>1 DEF ScoreSealed, Budget!Next, Budget!Look, rowVars
        <3>3. CASE CommitResult(c)
            <4>1. reads = {owner} /\ committed = NoResult /\ told = {}
                BY <3>3 DEF CommitResult, EvaluationInv, RowOK, ResultOK, MarkedOK
            <4>2. body[c] = [by |-> c, model |-> frozen, facts |-> known] /\ frozen \in Models /\ known \subseteq Facts
                BY <3>3 DEF CommitResult, EvaluationInv, RowOK, MarkedOK, TypeOK
            <4>3. body[c] \in Results
                BY <4>2 DEF Results
            <4> QED BY <3>3, <4>1, <4>3 DEF CommitResult, Budget!Next, Budget!Settle
        <3>4. CASE BuildResult(c) \/ Publish(c) \/ Fail(c) \/ MarkUncertain(c) \/ Die(c)
            BY <2>1, <3>4 DEF BuildResult, Publish, Fail, MarkUncertain, Die, rowVars, worldVars
        <3> QED BY <2>4, <3>1, <3>2, <3>3, <3>4 DEF Step
    <2> QED BY <2>2, <2>3, <2>4 DEF Next
<1> QED BY <1>1, <1>2, EvaluationInvariant, PTL DEF Spec, ImplementsOneReadBudget, Budget!Spec
=============================================================================
