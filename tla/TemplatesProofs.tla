--------------------------- MODULE TemplatesProofs ----------------------------
(***************************************************************************)
(* What reports pin and what unflagged rows of the dashboard show, for any *)
(* number of tabs, templates, reports, edits and saves and any bounds.     *)
(***************************************************************************)
EXTENDS Templates, SchemasProofs

(* Every revision is kept for good, and gives its fields ids of their own. *)
PublishedInv ==
    /\ DOMAIN published = Templates
    /\ \A t \in Templates :
          /\ \E S : published[t] \in Seq(S)
          /\ \A n \in DOMAIN published[t] : UniqueFieldIds(published[t][n])

(* A schema is that of a revision of a template.                           *)
IsRevision(t, n, schema) ==
    t \in Templates /\ n \in DOMAIN published[t] /\ schema = published[t][n]

(* What a report's fields are given is given to fields of its own schema.  *)
ReportInv ==
    /\ DOMAIN report = Reports
    /\ \A r \in Reports :
          /\ report[r] = [stage |-> report[r].stage, template |-> report[r].template,
                          revision |-> report[r].revision, snapshot |-> report[r].snapshot,
                          values |-> report[r].values]
          /\ report[r].stage # "absent" =>
                IsRevision(report[r].template, report[r].revision, report[r].snapshot)
          /\ \A id \in DOMAIN report[r].values :
                \E field \in FieldsOf(report[r].snapshot) :
                    field.id = id /\ field.birth = report[r].values[id]

(* The columns are those of the revision named above them.                 *)
ViewInv ==
    /\ view = [stage |-> view.stage, template |-> view.template, revision |-> view.revision,
               columns |-> view.columns, rows |-> view.rows]
    /\ view.stage # "none" => IsRevision(view.template, view.revision, view.columns)

IInv == PublishedInv /\ ReportInv /\ ViewInv /\ FreshRowsMatchColumns

-----------------------------------------------------------------------------
(* In a schema whose fields have ids of their own, an id names one field.  *)
LEMMA IdNamesField ==
  ASSUME NEW schema, UniqueFieldIds(schema),
         NEW x \in FieldsOf(schema), NEW y \in FieldsOf(schema), x.id = y.id
  PROVE  x = y
  BY DEF UniqueFieldIds, FieldsOf

LEMMA InitHolds == Init => IInv
  <1> SUFFICES ASSUME Init PROVE IInv
    OBVIOUS
  <1>1. PublishedInv
    <2> SUFFICES ASSUME NEW t \in Templates
                 PROVE  /\ \E S : published[t] \in Seq(S)
                        /\ \A n \in DOMAIN published[t] : UniqueFieldIds(published[t][n])
      BY DEF Init, PublishedInv
    <2>1. UniqueFieldIds(Seed)
      BY SeedAssumption DEF Validate
    <2>2. published[t] = <<Seed>> \/ published[t] = << >>
      BY DEF Init
    <2>3. CASE published[t] = <<Seed>>
      <3>1. <<Seed>> \in Seq({Seed}) /\ \A n \in DOMAIN <<Seed>> : <<Seed>>[n] = Seed
        OBVIOUS
      <3> QED
        BY <2>1, <2>3, <3>1
    <2>4. CASE published[t] = << >>
      <3>1. << >> \in Seq({Seed}) /\ DOMAIN << >> = {}
        BY EmptySeq
      <3> QED
        BY <2>4, <3>1
    <2> QED
      BY <2>2, <2>3, <2>4
  <1>2. ReportInv
    BY DEF Init, ReportInv, NoReport
  <1>3. ViewInv
    BY DEF Init, ViewInv, NoView
  <1>4. FreshRowsMatchColumns
    BY DEF Init, FreshRowsMatchColumns, NoView
  <1> QED
    BY <1>1, <1>2, <1>3, <1>4 DEF IInv

-----------------------------------------------------------------------------
(* What users of the builder do touches neither revisions nor reports.     *)
LEMMA TabSteps ==
  ASSUME NEW b \in Builders, Open(b) \/ Edit(b) \/ Save(b)
  PROVE  UNCHANGED <<published, report, view>>
  <1>1. CASE Open(b)
    BY <1>1 DEF Open, OpenNew, Loaded, Reload, Leave, OpenFromList, Visit, Mount, Load
  <1>2. CASE Edit(b)
    BY <1>2 DEF Edit, EditSections, EditFields, EditOptions, DropPalette, DropField, DropSection,
                ChangeName, dispatch
  <1>3. CASE Save(b)
    BY <1>3 DEF Save
  <1> QED
    BY <1>1, <1>2, <1>3

(* A new revision leaves the ones there are where they are.                *)
LEMMA UpdateKeepsRevisions ==
  ASSUME PublishedInv, NEW t \in Templates, NEW schema, UniqueFieldIds(schema),
         published' = Update(t, schema)
  PROVE  /\ PublishedInv'
         /\ \A z, n, s : IsRevision(z, n, s) => IsRevision(z, n, s)'
  <1>1. PICK S : published[t] \in Seq(S)
    BY DEF PublishedInv
  <1> DEFINE all == S \cup {schema}
             new == Append(published[t], schema)
  <1>2. published[t] \in Seq(all)
    BY <1>1, SeqMonotonic
  <1>3. /\ new \in Seq(all)
        /\ Len(new) = Len(published[t]) + 1
        /\ \A n \in 1 .. Len(published[t]) : new[n] = published[t][n]
        /\ new[Len(new)] = schema
    BY <1>2, AppendProperties
  <1>4. /\ Len(published[t]) \in Nat /\ DOMAIN published[t] = 1 .. Len(published[t])
        /\ DOMAIN new = 1 .. Len(new)
    BY <1>2, <1>3, LenProperties
  <1> HIDE DEF new
  <1>5. /\ DOMAIN published' = Templates
        /\ published'[t] = new
        /\ \A z \in Templates \ {t} : published'[z] = published[z]
    BY DEF Update, PublishedInv, new
  <1>6. \A n \in DOMAIN new : UniqueFieldIds(new[n])
    <2> SUFFICES ASSUME NEW n \in DOMAIN new PROVE UniqueFieldIds(new[n])
      OBVIOUS
    <2>1. CASE n = Len(new)
      BY <2>1, <1>3
    <2>2. CASE n # Len(new)
      <3>1. n \in DOMAIN published[t] /\ new[n] = published[t][n]
        BY <2>2, <1>3, <1>4
      <3> QED
        BY <3>1 DEF PublishedInv
    <2> QED
      BY <2>1, <2>2
  <1>7. PublishedInv'
    <2> SUFFICES ASSUME NEW z \in Templates
                 PROVE  /\ \E X : published'[z] \in Seq(X)
                        /\ \A n \in DOMAIN published'[z] : UniqueFieldIds(published'[z][n])
      BY <1>5 DEF PublishedInv, UniqueFieldIds, Places, FieldAt
    <2>1. CASE z = t
      BY <2>1, <1>3, <1>5, <1>6
    <2>2. CASE z # t
      BY <2>2, <1>5 DEF PublishedInv
    <2> QED
      BY <2>1, <2>2
  <1>8. \A n \in DOMAIN published[t] : n \in DOMAIN new /\ new[n] = published[t][n]
    BY <1>3, <1>4
  <1>9. ASSUME NEW z, NEW n, NEW s, IsRevision(z, n, s)
        PROVE  IsRevision(z, n, s)'
    <2>1. z \in Templates /\ n \in DOMAIN published[z] /\ s = published[z][n]
      BY <1>9 DEF IsRevision
    <2>2. n \in DOMAIN published'[z] /\ s = published'[z][n]
      BY <2>1, <1>5, <1>8
    <2> QED
      BY <2>1, <2>2 DEF IsRevision
  <1> QED
    BY <1>7, <1>9

(* The last revision is one, and the schema stored is its.                 *)
LEMMA CurrentIsRevision ==
  ASSUME PublishedInv, NEW t \in Stored
  PROVE  IsRevision(t, Revision(t), Current(t))
  <1>1. t \in Templates /\ published[t] # << >>
    BY DEF Stored
  <1>2. PICK S : published[t] \in Seq(S)
    BY <1>1 DEF PublishedInv
  <1>3. /\ Len(published[t]) \in Nat /\ DOMAIN published[t] = 1 .. Len(published[t])
        /\ Len(published[t]) # 0
    BY <1>1, <1>2, LenProperties, EmptySeq
  <1>4. Len(published[t]) \in DOMAIN published[t]
    BY <1>3
  <1> QED
    BY <1>1, <1>4 DEF IsRevision, Revision, Current, Last

(* What the server stores is valid, so its fields have ids of their own.   *)
LEMMA ServeKeeps ==
  ASSUME IInv, NEW i, Serve(i)
  PROVE  IInv'
  <1> USE DEF IInv
  <1>1. CASE Store(i)
    <2>1. PICK t \in Templates : published' = Update(t, saves[i].schema)
      BY <1>1 DEF Store
    <2>2. UniqueFieldIds(saves[i].schema)
      BY <1>1 DEF Store, Validate
    <2>3. /\ PublishedInv'
          /\ \A z, n, s : IsRevision(z, n, s) => IsRevision(z, n, s)'
      BY <2>1, <2>2, UpdateKeepsRevisions
    <2>4. report' = report /\ view' = view
      BY <1>1 DEF Store
    <2>5. ReportInv'
      <3>1. ASSUME NEW r \in Reports, report[r].stage # "absent"
            PROVE  IsRevision(report[r].template, report[r].revision, report[r].snapshot)'
        BY <3>1, <2>3, <2>4 DEF ReportInv
      <3> QED
        BY <3>1, <2>4 DEF ReportInv
    <2>6. ViewInv'
      <3>1. ASSUME view.stage # "none"
            PROVE  IsRevision(view.template, view.revision, view.columns)'
        BY <3>1, <2>3, <2>4 DEF ViewInv
      <3> QED
        BY <3>1, <2>4 DEF ViewInv
    <2>7. FreshRowsMatchColumns'
      BY <2>4 DEF FreshRowsMatchColumns
    <2> QED
      BY <2>3, <2>5, <2>6, <2>7
  <1>2. CASE Fail(i)
    BY <1>2 DEF Fail, PublishedInv, ReportInv, ViewInv, FreshRowsMatchColumns, IsRevision
  <1> QED
    BY <1>1, <1>2 DEF Serve

(* A report is created with a revision as read, and given values of it.    *)
LEMMA ReportKeeps ==
  ASSUME IInv, NEW r \in Reports, Report(r)
  PROVE  IInv'
  <1> USE DEF IInv
  <1>1. published' = published /\ view' = view
    BY DEF Report, LoadTemplate, InsertReport, FillReport
  <1>2. PublishedInv' /\ ViewInv' /\ FreshRowsMatchColumns'
    BY <1>1 DEF PublishedInv, ViewInv, FreshRowsMatchColumns, IsRevision
  <1>3. ReportInv'
    <2>1. CASE \E t \in Templates : LoadTemplate(r, t)
      <3>1. PICK t \in Templates : LoadTemplate(r, t)
        BY <2>1
      <3>2. IsRevision(t, Revision(t), Current(t))
        BY <3>1, CurrentIsRevision DEF LoadTemplate
      <3>3. report' = [report EXCEPT ![r] =
                          [stage |-> "loaded", template |-> t, revision |-> Revision(t),
                           snapshot |-> Current(t), values |-> << >>]]
        BY <3>1 DEF LoadTemplate
      <3> HIDE DEF IInv
      <3>4. /\ DOMAIN report' = Reports
            /\ \A q \in Reports \ {r} : report'[q] = report[q]
            /\ report'[r] = [stage |-> "loaded", template |-> t, revision |-> Revision(t),
                             snapshot |-> Current(t), values |-> << >>]
        BY <3>3 DEF ReportInv, IInv
      <3>5. DOMAIN report'[r].values = {}
        BY <3>4, EmptySeq
      <3>6. IsRevision(report[r].template, report[r].revision, report[r].snapshot)'
        BY <3>2, <3>4, <1>1 DEF IsRevision
      <3> QED
        BY <3>4, <3>5, <3>6, <1>1 DEF ReportInv, IsRevision, IInv
    <2>2. CASE InsertReport(r)
      BY <2>2, <1>1 DEF InsertReport, ReportInv, IsRevision
    <2>3. CASE \E ids \in SUBSET collectFieldIds(report[r].snapshot) : FillReport(r, ids)
      <3>1. PICK ids : FillReport(r, ids)
        BY <2>3
      <3> DEFINE given == [id \in ids |->
                    (CHOOSE field \in FieldsOf(report[r].snapshot) : field.id = id).birth]
      <3>2. report' = [report EXCEPT ![r].values = given]
        BY <3>1 DEF FillReport
      <3>3. \A id \in ids : \E field \in FieldsOf(report[r].snapshot) :
                field.id = id /\ field.birth = given[id]
        BY <3>1 DEF FillReport, collectFieldIds
      <3>4. DOMAIN given = ids /\ report[r].stage = "draft"
        BY <3>1 DEF FillReport
      <3> HIDE DEF given, IInv
      <3>5. /\ DOMAIN report' = Reports
            /\ \A q \in Reports \ {r} : report'[q] = report[q]
            /\ report'[r] = [stage |-> report[r].stage, template |-> report[r].template,
                             revision |-> report[r].revision, snapshot |-> report[r].snapshot,
                             values |-> given]
        BY <3>2 DEF ReportInv, IInv
      <3> QED
        BY <3>3, <3>4, <3>5, <1>1 DEF ReportInv, IsRevision, IInv
    <2> QED
      BY <2>1, <2>2, <2>3 DEF Report
  <1> QED
    BY <1>2, <1>3

(* A row not flagged was filled with the very schema the columns are of.   *)
LEMMA RowsKeep ==
  ASSUME IInv, LoadRows
  PROVE  FreshRowsMatchColumns'
  <1> DEFINE Row(r) == [report |-> r, stale |-> StaleRevision(r),
                        cells |-> buildRow(view.columns, report[r].values)]
  <1>1. /\ view.stage = "columns"
        /\ view'.columns = view.columns
        /\ view'.rows = {Row(r) : r \in {q \in Reports :
                            report[q].stage = "draft" /\ report[q].template = view.template}}
    BY DEF LoadRows, IInv, ViewInv
  <1> SUFFICES ASSUME NEW r \in Reports,
                      report[r].stage = "draft", report[r].template = view.template,
                      ~StaleRevision(r),
                      NEW column \in FieldsOf(view.columns)
               PROVE  buildRow(view.columns, report[r].values)[column.id] \subseteq {column.birth}
    BY <1>1 DEF FreshRowsMatchColumns
  <1>2. /\ IsRevision(view.template, view.revision, view.columns)
        /\ IsRevision(report[r].template, report[r].revision, report[r].snapshot)
        /\ report[r].revision = view.revision
    BY <1>1 DEF IInv, ViewInv, ReportInv, StaleRevision
  <1>3. report[r].snapshot = view.columns /\ UniqueFieldIds(view.columns)
    BY <1>2 DEF IsRevision, IInv, PublishedInv
  <1>4. buildRow(view.columns, report[r].values)[column.id] = renderCell(column.id, report[r].values)
    BY DEF buildRow, collectFieldIds
  <1>5. CASE column.id \in DOMAIN report[r].values
    <2>1. PICK field \in FieldsOf(view.columns) :
              field.id = column.id /\ field.birth = report[r].values[column.id]
      BY <1>5, <1>3 DEF IInv, ReportInv
    <2>2. field = column
      BY <2>1, <1>3, IdNamesField
    <2> QED
      BY <2>1, <2>2, <1>4, <1>5 DEF renderCell
  <1>6. CASE column.id \notin DOMAIN report[r].values
    BY <1>4, <1>6 DEF renderCell
  <1> QED
    BY <1>5, <1>6

(* The dashboard reads a revision's columns, then rows to go with them.    *)
LEMMA ViewKeeps ==
  ASSUME IInv, LoadRows \/ \E t \in Templates : LoadColumns(t)
  PROVE  IInv'
  <1>1. published' = published /\ report' = report
    BY DEF LoadRows, LoadColumns
  <1>2. PublishedInv' /\ ReportInv'
    BY <1>1 DEF IInv, PublishedInv, ReportInv, IsRevision
  <1>3. CASE LoadRows
    <2>1. ViewInv'
      BY <1>3, <1>1 DEF LoadRows, IInv, ViewInv, IsRevision
    <2> QED
      BY <1>2, <1>3, <2>1, RowsKeep DEF IInv
  <1>4. CASE \E t \in Templates : LoadColumns(t)
    <2>1. PICK t \in Templates : LoadColumns(t)
      BY <1>4
    <2>2. IsRevision(t, Revision(t), Current(t))
      BY <2>1, CurrentIsRevision DEF LoadColumns, IInv
    <2>3. view' = [stage |-> "columns", template |-> t, revision |-> Revision(t),
                   columns |-> Current(t), rows |-> {}]
      BY <2>1 DEF LoadColumns
    <2>4. ViewInv'
      BY <2>2, <2>3, <1>1 DEF ViewInv, IsRevision
    <2>5. FreshRowsMatchColumns'
      BY <2>3 DEF FreshRowsMatchColumns
    <2> QED
      BY <1>2, <2>4, <2>5 DEF IInv
  <1> QED
    BY <1>3, <1>4

LEMMA StepKeeps == IInv /\ [Next]_vars => IInv'
  <1> SUFFICES ASSUME IInv, [Next]_vars PROVE IInv'
    OBVIOUS
  <1>1. ASSUME UNCHANGED <<published, report, view>> PROVE IInv'
    BY <1>1 DEF IInv, PublishedInv, ReportInv, ViewInv, FreshRowsMatchColumns, IsRevision
  <1>2. CASE \E b \in Builders : Open(b) \/ Edit(b) \/ Save(b)
    BY <1>2, <1>1, TabSteps
  <1>3. CASE \E i \in 1 .. MaxSaves : Serve(i)
    BY <1>3, ServeKeeps
  <1>4. CASE \E i \in 1 .. MaxSaves : Hear(i)
    BY <1>4, <1>1 DEF Hear, Saved, NotSaved
  <1>5. CASE \E r \in Reports : Report(r)
    BY <1>5, ReportKeeps
  <1>6. CASE LoadRows \/ \E t \in Templates : LoadColumns(t)
    BY <1>6, ViewKeeps
  <1>7. CASE UNCHANGED vars
    BY <1>7, <1>1 DEF vars
  <1> QED
    BY <1>2, <1>3, <1>4, <1>5, <1>6, <1>7 DEF Next

LEMMA InvariantHolds == Spec => []IInv
  BY InitHolds, StepKeeps, PTL DEF Spec

-----------------------------------------------------------------------------
(* A report's snapshot is the schema its template had at the revision the  *)
(* report names, whatever any number of editors save before, while or after*)
(* it is created (reports/store.go, Create; templates/store.go, Update).   *)
THEOREM SnapshotsArePinned == Spec => []SnapshotIsPinned
  <1>1. IInv => SnapshotIsPinned
    BY DEF IInv, ReportInv, IsRevision, SnapshotIsPinned
  <1> QED
    BY <1>1, InvariantHolds, PTL

(* A row of the dashboard that is not flagged stale shows in each column   *)
(* what was given for that field, although another editor may save between *)
(* the two queries (dashboard/handler.go, buildView).                      *)
THEOREM FreshRowsMatch == Spec => []FreshRowsMatchColumns
  <1>1. IInv => FreshRowsMatchColumns
    BY DEF IInv
  <1> QED
    BY <1>1, InvariantHolds, PTL

-----------------------------------------------------------------------------
(* Schemas wherever they are: in a template's revisions, in an editor and  *)
(* its history entry, on their way to the server and pinned by a report.   *)
StoredSound ==
    \A t \in Templates : \A n \in DOMAIN published[t] : Sound(published[t][n], acts)
TabSound ==
    \A b \in Builders :
        /\ Sound(tab[b].schema, acts) /\ Sound(tab[b].nav, acts)
        /\ tab[b].page = "builder" => tab[b].mount \in 1 .. MaxActs
        /\ tab[b].page = "loading" => tab[b].url # None
        /\ tab[b].url # None => tab[b].url \in Stored
SaveSound == \A i \in DOMAIN saves : Sound(saves[i].schema, acts)
ReportSound == \A r \in Reports : Sound(report[r].snapshot, acts)

ReportTyped ==
    \A r \in Reports :
        /\ report[r].stage \in {"absent", "loaded", "draft"}
        /\ report[r].template \in Templates \cup {None}
        /\ report[r].revision \in Nat
        /\ DOMAIN report[r].values \subseteq collectFieldIds(report[r].snapshot)
ViewTyped ==
    /\ view.columns \in TemplateSchema
    /\ view.rows \subseteq [report : Reports, stale : BOOLEAN,
                            cells : [collectFieldIds(view.columns) -> SUBSET (0 .. MaxActs)]]

SoundInv ==
    /\ StoredSound /\ TabSound /\ SaveSound /\ ReportSound
    /\ tab \in [Builders -> Tab] /\ saves \in Seq(SaveRequest)
    /\ ReportTyped /\ ViewTyped
    /\ acts \in 0 .. MaxActs /\ views \in 0 .. MaxViews

Whole == IInv /\ SoundInv

LEMMA WholeIsTyped == Whole => TypeOK
  <1> SUFFICES ASSUME Whole PROVE TypeOK
    OBVIOUS
  <1>1. \A t \in Templates : \A n \in DOMAIN published[t] : published[t][n] \in TemplateSchema
    BY DEF Whole, SoundInv, StoredSound, Sound
  <1>2. \A r \in Reports : report[r].snapshot \in TemplateSchema
    BY DEF Whole, SoundInv, ReportSound, Sound
  <1> QED
    BY <1>1, <1>2 DEF Whole, SoundInv, ReportTyped, ViewTyped, TypeOK

LEMMA SeedIsSound == Sound(Seed, 0)
  <1>1. UniqueFieldIds(Seed) /\ \A field \in FieldsOf(Seed) : ValidateOptions(field)
    BY SeedAssumption DEF Validate
  <1>2. ASSUME NEW p \in Places(Seed)
        PROVE  /\ FieldAt(Seed, p).type = "select" => FieldAt(Seed, p).options # << >>
               /\ FieldAt(Seed, p).birth <= 0
    <2>1. FieldAt(Seed, p) \in FieldsOf(Seed)
      BY DEF FieldsOf
    <2>2. FieldAt(Seed, p).type = "select" => Len(FieldAt(Seed, p).options) \in 1 .. MaxOptions
      BY <1>1, <2>1 DEF ValidateOptions
    <2>3. FieldAt(Seed, p).birth = 0
      BY <2>1, SeedAssumption
    <2>4. Len(<< >>) = 0
      BY EmptySeq
    <2>5. 0 \notin 1 .. MaxOptions
      BY BoundsAssumption
    <2> QED
      BY <2>2, <2>3, <2>4, <2>5
  <1> QED
    BY <1>1, <1>2, SeedAssumption DEF Sound

LEMMA AwayIsTab == Away \in Tab /\ \A n \in Nat : Sound(Away.schema, n) /\ Sound(Away.nav, n)
  <1>1. \A n \in Nat : Sound(NoSchema, n)
    BY InitialIsSound DEF NoSchema
  <1>2. NoSchema \in TemplateSchema
    BY <1>1 DEF Sound
  <1> HIDE DEF NoSchema
  <1> QED
    BY <1>1, <1>2, TemplatesAssumption DEF Away, Tab, Pages

LEMMA InitIsWhole == Init => Whole
  <1> SUFFICES ASSUME Init PROVE Whole
    OBVIOUS
  <1>1. IInv
    BY InitHolds
  <1>2. acts = 0 /\ views = 0 /\ acts \in 0 .. MaxActs /\ views \in 0 .. MaxViews
    BY TemplatesAssumption DEF Init
  <1>3. StoredSound
    <2> SUFFICES ASSUME NEW t \in Templates, NEW n \in DOMAIN published[t]
                 PROVE  Sound(published[t][n], acts)
      BY DEF StoredSound
    <2>1. published[t] = <<Seed>> \/ published[t] = << >>
      BY DEF Init
    <2>2. DOMAIN << >> = {}
      BY EmptySeq
    <2>3. published[t] = <<Seed>>
      BY <2>1, <2>2
    <2>4. published[t][n] = Seed
      BY <2>3
    <2> QED
      BY <1>2, <2>4, SeedIsSound
  <1>4. tab \in [Builders -> Tab] /\ TabSound
    BY <1>2, AwayIsTab DEF Init, TabSound, Away
  <1>5. saves \in Seq(SaveRequest) /\ SaveSound
    <2>1. << >> \in Seq(SaveRequest) /\ DOMAIN << >> = {}
      BY EmptySeq
    <2> QED
      BY <2>1 DEF Init, SaveSound
  <1>6. Sound(NoSchema, 0)
    BY InitialIsSound DEF NoSchema
  <1>7. ReportSound /\ ReportTyped
    <2>1. DOMAIN << >> = {}
      BY EmptySeq
    <2> HIDE DEF NoSchema
    <2> QED
      BY <1>2, <1>6, <2>1 DEF Init, ReportSound, ReportTyped, NoReport
  <1>8. ViewTyped
    BY <1>6 DEF Init, ViewTyped, NoView, Sound
  <1> QED
    BY <1>1, <1>2, <1>3, <1>4, <1>5, <1>7, <1>8 DEF Whole, SoundInv

(* What is sound stays so while the users go on.                           *)
LEMMA SoundLater ==
  ASSUME SoundInv, NEW n \in 0 .. MaxActs, acts <= n
  PROVE  /\ \A t \in Templates : \A k \in DOMAIN published[t] : Sound(published[t][k], n)
         /\ \A b \in Builders : Sound(tab[b].schema, n) /\ Sound(tab[b].nav, n)
         /\ \A i \in DOMAIN saves : Sound(saves[i].schema, n)
         /\ \A r \in Reports : Sound(report[r].snapshot, n)
  <1>1. acts \in Nat /\ n \in Nat
    BY DEF SoundInv
  <1>2. \A schema : Sound(schema, acts) => Sound(schema, n)
    BY <1>1, SoundLasts
  <1> QED
    BY <1>2 DEF SoundInv, StoredSound, TabSound, SaveSound, ReportSound

LEMMA CurrentIsSound ==
  ASSUME IInv, SoundInv, NEW t \in Stored
  PROVE  t \in Templates /\ Sound(Current(t), acts) /\ Revision(t) \in Nat
  <1>1. IsRevision(t, Revision(t), Current(t))
    BY CurrentIsRevision DEF IInv
  <1>2. t \in Templates /\ Revision(t) \in DOMAIN published[t] /\ Current(t) = published[t][Revision(t)]
    BY <1>1 DEF IsRevision
  <1>3. PICK S : published[t] \in Seq(S)
    BY <1>2 DEF IInv, PublishedInv
  <1>4. Revision(t) \in Nat
    BY <1>3, LenProperties DEF Revision
  <1> QED
    BY <1>2, <1>4 DEF SoundInv, StoredSound

(* One tab changes, and what it may send is sound.                         *)
LEMMA TabStep ==
  ASSUME SoundInv, NEW b \in Builders, NEW new \in Tab, tab' = [tab EXCEPT ![b] = new],
         acts' \in 0 .. MaxActs, acts <= acts',
         Sound(new.schema, acts'), Sound(new.nav, acts'),
         new.page = "builder" => new.mount \in 1 .. MaxActs,
         new.page = "loading" => new.url # None, new.url # None => new.url \in Stored,
         saves' \in Seq(SaveRequest), SaveSound',
         UNCHANGED <<published, report, view, views>>
  PROVE  SoundInv'
  <1>1. /\ \A t \in Templates : \A k \in DOMAIN published[t] : Sound(published[t][k], acts')
        /\ \A c \in Builders : Sound(tab[c].schema, acts') /\ Sound(tab[c].nav, acts')
        /\ \A r \in Reports : Sound(report[r].snapshot, acts')
    BY SoundLater
  <1>2. tab' \in [Builders -> Tab]
    BY DEF SoundInv
  <1>3. tab'[b] = new /\ \A c \in Builders \ {b} : tab'[c] = tab[c]
    BY DEF SoundInv
  <1>4. Stored' = Stored
    BY DEF Stored
  <1>5. TabSound'
    <2> SUFFICES ASSUME NEW c \in Builders
                 PROVE  /\ Sound(tab'[c].schema, acts') /\ Sound(tab'[c].nav, acts')
                        /\ tab'[c].page = "builder" => tab'[c].mount \in 1 .. MaxActs
                        /\ tab'[c].page = "loading" => tab'[c].url # None
                        /\ tab'[c].url # None => tab'[c].url \in Stored'
      BY DEF TabSound
    <2>1. CASE c = b
      BY <1>3, <1>4, <2>1
    <2>2. CASE c # b
      BY <1>1, <1>3, <1>4, <2>2 DEF SoundInv, TabSound
    <2> QED
      BY <2>1, <2>2
  <1>6. StoredSound' /\ ReportSound'
    BY <1>1 DEF StoredSound, ReportSound
  <1>7. ReportTyped' /\ ViewTyped' /\ views' \in 0 .. MaxViews
    BY DEF SoundInv, ReportTyped, ViewTyped
  <1> QED
    BY <1>2, <1>5, <1>6, <1>7 DEF SoundInv

(* The requests under way are the ones there were.                         *)
LEMMA SavesWait ==
  ASSUME SoundInv, saves' = saves, acts' \in 0 .. MaxActs, acts <= acts'
  PROVE  saves' \in Seq(SaveRequest) /\ SaveSound'
  <1>1. \A i \in DOMAIN saves : Sound(saves[i].schema, acts')
    BY SoundLater
  <1> QED
    BY <1>1 DEF SoundInv, SaveSound

(* An editor is opened on a sound schema.                                  *)
LEMMA MountKeeps ==
  ASSUME SoundInv, NEW b \in Builders, NEW url \in Stored \cup {None}, NEW nav,
         NEW template \in Templates \cup {None}, NEW schema,
         Sound(nav, acts), Sound(schema, acts), Mount(b, url, nav, template, schema)
  PROVE  SoundInv'
  <1> DEFINE new == [Away EXCEPT !.page = "builder", !.url = url, !.nav = nav,
                        !.mount = acts + 1, !.template = template, !.schema = schema,
                        !.named = template # None]
  <1>1. /\ acts' = acts + 1 /\ acts \in Nat /\ acts' \in 1 .. MaxActs
        /\ tab' = [tab EXCEPT ![b] = new]
        /\ UNCHANGED <<published, saves, report, view, views>>
    BY TemplatesAssumption DEF Mount, SoundInv
  <1>2. Sound(nav, acts') /\ Sound(schema, acts')
    BY <1>1, SoundLasts
  <1>3. /\ new \in Tab /\ new.nav = nav /\ new.schema = schema /\ new.page = "builder"
        /\ new.mount = acts' /\ new.url = url
    <2>1. nav \in TemplateSchema /\ schema \in TemplateSchema
      BY DEF Sound
    <2>2. acts + 1 \in 0 .. MaxActs
      BY <1>1
    <2>3. url \in Templates \cup {None}
      BY DEF Stored
    <2> QED
      BY <1>1, <2>1, <2>2, <2>3, AwayIsTab DEF Tab, Pages
  <1> HIDE DEF new
  <1>4. acts <= acts' /\ acts' \in 0 .. MaxActs
    BY <1>1
  <1>5. saves' \in Seq(SaveRequest) /\ SaveSound'
    BY <1>1, <1>4, SavesWait
  <1>6. /\ Sound(new.nav, acts') /\ Sound(new.schema, acts')
        /\ new.page = "builder" => new.mount \in 1 .. MaxActs
        /\ new.page = "loading" => new.url # None
        /\ new.url # None => new.url \in Stored
    BY <1>1, <1>2, <1>3
  <1> QED
    BY <1>1, <1>3, <1>4, <1>5, <1>6, TabStep

LEMMA LoadKeeps ==
  ASSUME SoundInv, NEW b \in Builders, NEW t \in Stored, Load(b, t)
  PROVE  SoundInv'
  <1> DEFINE new == [Away EXCEPT !.page = "loading", !.url = t]
  <1>1. /\ acts' = acts /\ acts \in Nat /\ acts \in 0 .. MaxActs
        /\ tab' = [tab EXCEPT ![b] = new]
        /\ UNCHANGED <<published, saves, report, view, views>>
    BY DEF Load, SoundInv
  <1>2. /\ new \in Tab /\ Sound(new.nav, acts') /\ Sound(new.schema, acts')
        /\ new.page = "loading" /\ new.url = t
    <2>1. t \in Templates
      BY DEF Stored
    <2>2. new \in Tab
      BY <2>1, AwayIsTab DEF Tab, Pages
    <2>3. new.nav = Away.nav /\ new.schema = Away.schema /\ new.page = "loading" /\ new.url = t
      BY DEF Away
    <2> QED
      BY <1>1, <2>2, <2>3, AwayIsTab
  <1> HIDE DEF new
  <1>3. acts <= acts' /\ acts' \in 0 .. MaxActs
    BY <1>1
  <1>4. saves' \in Seq(SaveRequest) /\ SaveSound'
    BY <1>1, <1>3, SavesWait
  <1>5. t # None
    BY TemplatesAssumption DEF Stored
  <1>6. /\ new.page = "builder" => new.mount \in 1 .. MaxActs
        /\ new.page = "loading" => new.url # None
        /\ new.url # None => new.url \in Stored
    BY <1>2, <1>5
  <1> QED
    BY <1>1, <1>2, <1>3, <1>4, <1>6, TabStep

LEMMA OpenKeeps ==
  ASSUME Whole, NEW b \in Builders, Open(b)
  PROVE  SoundInv'
  <1> USE DEF Whole
  <1>1. acts \in Nat
    BY DEF SoundInv
  <1>2. Sound(NoSchema, acts) /\ Sound(InitialSchema, acts)
    BY <1>1, InitialIsSound DEF NoSchema
  <1>3. CASE OpenNew(b)
    BY <1>2, <1>3, MountKeeps DEF OpenNew
  <1>4. CASE Loaded(b)
    <2> DEFINE t == tab[b].url
    <2>1. t \in Stored
      BY <1>4 DEF Loaded, SoundInv, TabSound
    <2>2. t \in Templates /\ Sound(Current(t), acts)
      BY <2>1, CurrentIsSound
    <2>3. Mount(b, t, NoSchema, t, Current(t))
      BY <1>4 DEF Loaded
    <2>4. t \in Templates \cup {None} /\ t \in Stored \cup {None} /\ SoundInv
      BY <2>1, <2>2
    <2> HIDE DEF t
    <2> QED
      BY <1>2, <2>2, <2>3, <2>4, MountKeeps
  <1>5. CASE Reload(b)
    <2> DEFINE t == tab[b].url
    <2>1. /\ t \in Templates \cup {None} /\ Sound(tab[b].nav, acts)
          /\ t # None => t \in Stored
      BY DEF SoundInv, TabSound, Tab
    <2>2. CASE t = None
      <3>1. Mount(b, None, NoSchema, None, InitialSchema)
        BY <1>5, <2>2 DEF Reload
      <3> QED
        BY <1>2, <3>1, MountKeeps
    <2>3. CASE t # None /\ tab[b].nav = NoSchema
      <3>1. Load(b, t)
        BY <1>5, <2>3 DEF Reload
      <3> QED
        BY <2>1, <2>3, <3>1, LoadKeeps
    <2>4. CASE t # None /\ tab[b].nav # NoSchema
      <3>1. Mount(b, t, tab[b].nav, t, tab[b].nav)
        BY <1>5, <2>4 DEF Reload
      <3> QED
        BY <2>1, <3>1, MountKeeps
    <2> QED
      BY <2>2, <2>3, <2>4
  <1>6. CASE Leave(b)
    <2>1. /\ tab' = [tab EXCEPT ![b] = Away] /\ acts' = acts /\ acts \in 0 .. MaxActs
          /\ UNCHANGED <<published, saves, report, view, views>>
      BY <1>6 DEF Leave, SoundInv
    <2>2. Sound(Away.schema, acts') /\ Sound(Away.nav, acts') /\ Away \in Tab
      BY <1>1, <2>1, AwayIsTab
    <2>3. Away.page = "away" /\ Away.url = None
      BY DEF Away
    <2>4. acts <= acts' /\ acts' \in 0 .. MaxActs
      BY <1>1, <2>1
    <2>5. saves' \in Seq(SaveRequest) /\ SaveSound'
      BY <2>1, <2>4, SavesWait
    <2> QED
      BY <2>1, <2>2, <2>3, <2>4, <2>5, TabStep
  <1>7. ASSUME NEW t \in Templates, OpenFromList(b, t) PROVE SoundInv'
    <2>1. t \in Stored /\ Mount(b, t, Current(t), t, Current(t))
      BY <1>7 DEF OpenFromList
    <2>2. Sound(Current(t), acts)
      BY <2>1, CurrentIsSound
    <2> QED
      BY <2>1, <2>2, MountKeeps
  <1>8. ASSUME NEW t \in Templates, Visit(b, t) PROVE SoundInv'
    BY <1>8, LoadKeeps DEF Visit
  <1> QED
    BY <1>3, <1>4, <1>5, <1>6, <1>7, <1>8 DEF Open

(* An edit gives a sound schema.                                           *)
LEMMA DispatchKeeps ==
  ASSUME SoundInv, NEW b \in Builders, NEW schema, dispatch(b, schema),
         acts + 1 \in 0 .. MaxActs => Sound(schema, acts + 1)
  PROVE  SoundInv'
  <1> DEFINE new == [tab[b] EXCEPT !.schema = schema, !.dirty = TRUE,
                        !.status = IF @ = "saved" THEN "idle" ELSE @]
  <1>1. /\ acts' = acts + 1 /\ acts \in Nat /\ acts' \in 1 .. MaxActs
        /\ tab' = [tab EXCEPT ![b] = new]
        /\ UNCHANGED <<published, saves, report, view, views>>
        /\ tab[b] \in Tab
    <2>1. tab \in [Builders -> Tab] /\ tab[b] \in Tab
      BY DEF SoundInv
    <2>2. acts' = acts + 1 /\ acts \in Nat /\ acts' \in 1 .. MaxActs
      BY TemplatesAssumption DEF dispatch, SoundInv
    <2>3. tab' = [tab EXCEPT ![b] = new]
      BY <2>1 DEF dispatch
    <2> QED
      BY <2>1, <2>2, <2>3 DEF dispatch
  <1>2. Sound(schema, acts') /\ schema \in TemplateSchema
    BY <1>1 DEF Sound
  <1>3. /\ new \in Tab /\ new.nav = tab[b].nav /\ new.schema = schema
        /\ new.page = tab[b].page /\ new.mount = tab[b].mount /\ new.url = tab[b].url
    BY <1>1, <1>2 DEF Tab
  <1> HIDE DEF new
  <1>4. acts <= acts' /\ acts' \in 0 .. MaxActs
    BY <1>1
  <1>5. saves' \in Seq(SaveRequest) /\ SaveSound'
    BY <1>1, <1>4, SavesWait
  <1>6. Sound(tab[b].nav, acts')
    BY <1>4, SoundLater
  <1>7. /\ Sound(new.nav, acts') /\ Sound(new.schema, acts')
        /\ new.page = "builder" => new.mount \in 1 .. MaxActs
        /\ new.page = "loading" => new.url # None
        /\ new.url # None => new.url \in Stored
    BY <1>2, <1>3, <1>6 DEF SoundInv, TabSound
  <1> QED
    BY <1>1, <1>3, <1>4, <1>5, <1>7, TabStep

LEMMA ChangeNameKeeps ==
  ASSUME SoundInv, NEW b \in Builders, NEW named \in BOOLEAN, ChangeName(b, named)
  PROVE  SoundInv'
  <1> DEFINE new == [tab[b] EXCEPT !.named = named, !.dirty = TRUE,
                        !.status = IF @ = "saved" THEN "idle" ELSE @]
  <1>1. /\ acts' = acts + 1 /\ acts \in Nat /\ acts' \in 1 .. MaxActs
        /\ tab' = [tab EXCEPT ![b] = new]
        /\ UNCHANGED <<published, saves, report, view, views>>
        /\ tab[b] \in Tab
    <2>1. tab \in [Builders -> Tab] /\ tab[b] \in Tab
      BY DEF SoundInv
    <2>2. acts' = acts + 1 /\ acts \in Nat /\ acts' \in 1 .. MaxActs
      BY TemplatesAssumption DEF ChangeName, SoundInv
    <2>3. tab' = [tab EXCEPT ![b] = new]
      BY <2>1 DEF ChangeName
    <2> QED
      BY <2>1, <2>2, <2>3 DEF ChangeName
  <1>2. /\ new \in Tab /\ new.nav = tab[b].nav /\ new.schema = tab[b].schema
        /\ new.page = tab[b].page /\ new.mount = tab[b].mount /\ new.url = tab[b].url
    BY <1>1 DEF Tab
  <1> HIDE DEF new
  <1>3. acts <= acts' /\ acts' \in 0 .. MaxActs
    BY <1>1
  <1>4. saves' \in Seq(SaveRequest) /\ SaveSound'
    BY <1>1, <1>3, SavesWait
  <1>5. Sound(tab[b].nav, acts') /\ Sound(tab[b].schema, acts')
    BY <1>3, SoundLater
  <1>6. /\ Sound(new.nav, acts') /\ Sound(new.schema, acts')
        /\ new.page = "builder" => new.mount \in 1 .. MaxActs
        /\ new.page = "loading" => new.url # None
        /\ new.url # None => new.url \in Stored
    BY <1>2, <1>5 DEF SoundInv, TabSound
  <1> QED
    BY <1>1, <1>2, <1>3, <1>4, <1>6, TabStep

(* A drop lands at a place of a section, or after its last field.          *)
LEMMA DropTargetIs ==
  ASSUME NEW schema \in TemplateSchema, NEW to \in DropTargets(schema)
  PROVE  /\ to[1] \in DOMAIN schema /\ to[2] \in 1 .. Len(schema[to[1]].fields) + 1
         /\ to[2] \in Nat
  <1>1. CASE to \in Places(schema)
    <2>1. to[1] \in DOMAIN schema /\ to[2] \in DOMAIN schema[to[1]].fields
      BY <1>1, PlaceIs
    <2>2. /\ Len(schema[to[1]].fields) \in Nat
          /\ DOMAIN schema[to[1]].fields = 1 .. Len(schema[to[1]].fields)
      BY <2>1, SchemaParts
    <2> QED
      BY <2>1, <2>2
  <1>2. ASSUME NEW s \in DOMAIN schema, to = <<s, Len(schema[s].fields) + 1>>
        PROVE  /\ to[1] \in DOMAIN schema /\ to[2] \in 1 .. Len(schema[to[1]].fields) + 1
               /\ to[2] \in Nat
    <2>1. Len(schema[s].fields) \in Nat
      BY SchemaParts
    <2> QED
      BY <1>2, <2>1
  <1> QED
    BY <1>1, <1>2 DEF DropTargets

(* A drop of a field, or of a section, moves it.                           *)
LEMMA DropRearranges ==
  ASSUME SoundInv, NEW b \in Builders, DropField(b) \/ DropSection(b)
  PROVE  \E new : Rearranged(new, tab[b].schema) /\ dispatch(b, new)
  <1> DEFINE schema == tab[b].schema
  <1>1. schema \in TemplateSchema
    BY DEF SoundInv, TabSound, Sound
  <1> HIDE DEF schema
  <1>2. CASE DropField(b)
    <2>1. PICK p \in Places(schema), to \in DropTargets(schema) :
             dispatch(b, IF to[1] = p[1] THEN ReorderField(schema, p[1], p[2], to[2])
                         ELSE MoveField(schema, p, to[1], to[2]))
      BY <1>2 DEF DropField, schema
    <2>2. /\ to[1] \in DOMAIN schema /\ to[2] \in 1 .. Len(schema[to[1]].fields) + 1
          /\ to[2] \in Nat
      BY <1>1, DropTargetIs
    <2>3. CASE to[1] = p[1]
      <3>1. Rearranged(ReorderField(schema, p[1], p[2], to[2]), schema)
        BY <1>1, <2>2, ReorderRearranges
      <3> QED
        BY <2>1, <2>3, <3>1 DEF schema
    <2>4. CASE to[1] # p[1]
      <3>1. Rearranged(MoveField(schema, p, to[1], to[2]), schema)
        BY <1>1, <2>2, <2>4, MoveFieldRearranges
      <3> QED
        BY <2>1, <2>4, <3>1 DEF schema
    <2> QED
      BY <2>3, <2>4
  <1>3. CASE DropSection(b)
    <2>1. PICK s, to \in DOMAIN schema : dispatch(b, MoveWithin(schema, s, to))
      BY <1>3 DEF DropSection, schema
    <2>2. Rearranged(MoveWithin(schema, s, to), schema)
      BY <1>1, MoveSectionRearranges
    <2> QED
      BY <2>1, <2>2 DEF schema
  <1> QED
    BY <1>2, <1>3

LEMMA EditKeeps ==
  ASSUME Whole, NEW b \in Builders, Edit(b)
  PROVE  SoundInv'
  <1> DEFINE schema == tab[b].schema
             next == acts + 1
  <1>1. SoundInv /\ acts \in Nat /\ next \in Nat /\ acts <= next /\ acts < next
    BY DEF Whole, SoundInv
  <1>2. Sound(schema, acts) /\ schema \in TemplateSchema
    BY <1>1 DEF SoundInv, TabSound, Sound
  <1>3. Sound(schema, next)
    BY <1>1, <1>2, SoundLasts
  <1>4. ASSUME NEW new, dispatch(b, new), Sound(new, next) PROVE SoundInv'
    BY <1>1, <1>4, DispatchKeeps
  <1> HIDE DEF schema, next
  <1>5. CASE EditSections(b)
    <2>1. CASE dispatch(b, AddSection(schema))
      BY <1>3, <1>4, <2>1, AddSectionKeeps
    <2>2. ASSUME NEW s \in DOMAIN schema, dispatch(b, RemoveAt(schema, s)) PROVE SoundInv'
      BY <1>3, <1>4, <2>2, RemoveSectionKeeps
    <2>3. ASSUME NEW s \in DOMAIN schema, NEW label \in Labels,
                 dispatch(b, [schema EXCEPT ![s].label = label])
          PROVE  SoundInv'
      BY <1>3, <1>4, <2>3, RelabelSectionKeeps
    <2> QED
      BY <1>5, <2>1, <2>2, <2>3 DEF EditSections, schema
  <1>6. CASE EditFields(b)
    <2>1. PICK p \in Places(schema), label \in Labels :
             dispatch(b, [schema EXCEPT ![p[1]].fields[p[2]].label = label])
      BY <1>6 DEF EditFields, schema
    <2>2. Sound([schema EXCEPT ![p[1]].fields[p[2]].label = label], next)
      BY <1>3, RelabelKeeps
    <2> QED
      BY <1>4, <2>1, <2>2
  <1>7. CASE EditOptions(b)
    <2>1. PICK p \in Places(schema) :
             \/ dispatch(b, AddOption(schema, p))
             \/ \E i \in DOMAIN FieldAt(schema, p).options :
                   \/ \E value \in Options : dispatch(b, EditOption(schema, p, i, value))
                   \/ /\ Len(FieldAt(schema, p).options) > 1
                      /\ dispatch(b, RemoveOption(schema, p, i))
      BY <1>7 DEF EditOptions, schema
    <2>2. /\ Sound(AddOption(schema, p), next)
          /\ \A i \in DOMAIN FieldAt(schema, p).options :
               /\ \A value \in Options : Sound(EditOption(schema, p, i, value), next)
               /\ Len(FieldAt(schema, p).options) > 1 => Sound(RemoveOption(schema, p, i), next)
      BY <1>3, OptionEditsKeep
    <2> QED
      BY <1>4, <2>1, <2>2
  <1>8. CASE DropPalette(b)
    <2>1. PICK to \in DropTargets(schema), type \in FieldTypes :
             dispatch(b, AddField(schema, to[1], type, to[2], next))
      BY <1>8 DEF DropPalette, schema, next
    <2>2. /\ to[1] \in DOMAIN schema /\ to[2] \in 1 .. Len(schema[to[1]].fields) + 1
      BY <1>2, DropTargetIs
    <2>3. next <= next
      BY <1>1
    <2>4. Sound(AddField(schema, to[1], type, to[2], next), next)
      BY <1>1, <1>3, <2>2, <2>3, AddFieldKeeps
    <2> QED
      BY <1>4, <2>1, <2>4
  <1>9. CASE DropField(b) \/ DropSection(b)
    <2>1. PICK new : Rearranged(new, schema) /\ dispatch(b, new)
      BY <1>1, <1>9, DropRearranges DEF schema
    <2>2. Sound(new, next)
      BY <1>3, <2>1, RearrangedIsSound
    <2> QED
      BY <1>4, <2>1, <2>2
  <1>10. ASSUME NEW named \in BOOLEAN, ChangeName(b, named) PROVE SoundInv'
    BY <1>1, <1>10, ChangeNameKeeps
  <1> QED
    BY <1>5, <1>6, <1>7, <1>8, <1>9, <1>10 DEF Edit

(* A request under way is answered or heard; its schema is kept or dropped.*)
LEMMA RequestStep ==
  ASSUME SoundInv, NEW i \in DOMAIN saves, NEW req \in SaveRequest,
         req.schema = saves[i].schema \/ req.schema = NoSchema,
         saves' = [saves EXCEPT ![i] = req], acts' = acts
  PROVE  saves' \in Seq(SaveRequest) /\ SaveSound'
  <1>1. saves \in Seq(SaveRequest) /\ acts \in Nat /\ DOMAIN saves = 1 .. Len(saves)
    BY LenProperties DEF SoundInv
  <1>2. /\ saves' \in Seq(SaveRequest) /\ DOMAIN saves' = DOMAIN saves
        /\ \A k \in DOMAIN saves : saves'[k] = IF k = i THEN req ELSE saves[k]
    BY <1>1, ExceptSeq
  <1>3. Sound(NoSchema, acts)
    BY <1>1, InitialIsSound DEF NoSchema
  <1>4. \A k \in DOMAIN saves : Sound(saves'[k].schema, acts)
    BY <1>2, <1>3 DEF SoundInv, SaveSound
  <1> QED
    BY <1>2, <1>4 DEF SaveSound

LEMMA RequestIsOne ==
  ASSUME SoundInv, NEW i \in DOMAIN saves
  PROVE  saves[i] \in SaveRequest
  <1>1. saves \in Seq(SaveRequest) /\ DOMAIN saves = 1 .. Len(saves)
    BY LenProperties DEF SoundInv
  <1> QED
    BY <1>1, ElementOfSeq

(* A tab whose schema, address and mount stay what they are.               *)
LEMMA TabStays ==
  ASSUME SoundInv, NEW b \in Builders, NEW new \in Tab, tab' = [tab EXCEPT ![b] = new],
         new.page = tab[b].page, new.url = tab[b].url, new.nav = tab[b].nav,
         new.mount = tab[b].mount, new.schema = tab[b].schema,
         saves' \in Seq(SaveRequest), SaveSound',
         UNCHANGED <<published, report, view, acts, views>>
  PROVE  SoundInv'
  <1>1. acts <= acts' /\ acts' \in 0 .. MaxActs
    BY DEF SoundInv
  <1>2. Sound(tab[b].nav, acts') /\ Sound(tab[b].schema, acts')
    BY <1>1, SoundLater
  <1>3. /\ Sound(new.nav, acts') /\ Sound(new.schema, acts')
        /\ new.page = "builder" => new.mount \in 1 .. MaxActs
        /\ new.page = "loading" => new.url # None
        /\ new.url # None => new.url \in Stored
    BY <1>2 DEF SoundInv, TabSound
  <1> QED
    BY <1>1, <1>3, TabStep

LEMMA SaveKeeps ==
  ASSUME Whole, NEW b \in Builders, Save(b)
  PROVE  SoundInv'
  <1>1. SoundInv /\ tab \in [Builders -> Tab] /\ tab[b] \in Tab /\ tab[b].page = "builder"
        /\ UNCHANGED <<published, report, view, acts, views>>
    BY DEF Whole, SoundInv, Save
  <1>2. CASE tab[b].named
    <2> DEFINE req == [by |-> tab[b].mount, template |-> tab[b].template,
                       schema |-> tab[b].schema, state |-> "sent", into |-> None]
               new == [tab[b] EXCEPT !.saving = TRUE, !.status = "idle"]
    <2>1. saves' = Append(saves, req)
      BY <1>2 DEF Save
    <2>2. tab' = [tab EXCEPT ![b] = new]
      BY <1>1, <1>2 DEF Save
    <2>3. /\ new \in Tab /\ new.page = tab[b].page /\ new.url = tab[b].url
          /\ new.nav = tab[b].nav /\ new.mount = tab[b].mount /\ new.schema = tab[b].schema
      BY <1>1 DEF Tab
    <2>4. req \in SaveRequest /\ Sound(req.schema, acts)
      BY <1>1 DEF SoundInv, TabSound, Tab, SaveRequest
    <2> HIDE DEF req, new
    <2>5. /\ saves' \in Seq(SaveRequest) /\ Len(saves') = Len(saves) + 1
          /\ \A i \in 1 .. Len(saves) : saves'[i] = saves[i]
          /\ saves'[Len(saves) + 1] = req
      BY <1>1, <2>1, <2>4, AppendProperties DEF SoundInv
    <2>6. /\ DOMAIN saves' = 1 .. Len(saves) + 1 /\ DOMAIN saves = 1 .. Len(saves)
          /\ Len(saves) \in Nat
      BY <1>1, <2>5, LenProperties DEF SoundInv
    <2>7. \A i \in DOMAIN saves' : i \in DOMAIN saves \/ i = Len(saves) + 1
      BY <2>6
    <2>8. \A i \in DOMAIN saves' : Sound(saves'[i].schema, acts)
      BY <1>1, <2>4, <2>5, <2>6, <2>7 DEF SoundInv, SaveSound
    <2>9. SaveSound'
      BY <1>1, <2>8 DEF SaveSound
    <2> QED
      BY <1>1, <2>2, <2>3, <2>5, <2>9, TabStays
  <1>3. CASE ~tab[b].named
    <2> DEFINE new == [tab[b] EXCEPT !.status = "error"]
    <2>1. saves' = saves
      BY <1>3 DEF Save
    <2>2. tab' = [tab EXCEPT ![b] = new]
      BY <1>1, <1>3 DEF Save
    <2>3. /\ new \in Tab /\ new.page = tab[b].page /\ new.url = tab[b].url
          /\ new.nav = tab[b].nav /\ new.mount = tab[b].mount /\ new.schema = tab[b].schema
      BY <1>1 DEF Tab
    <2> HIDE DEF new
    <2>4. acts <= acts' /\ acts' \in 0 .. MaxActs
      BY <1>1 DEF SoundInv
    <2>5. saves' \in Seq(SaveRequest) /\ SaveSound'
      BY <1>1, <2>1, <2>4, SavesWait
    <2> QED
      BY <1>1, <2>2, <2>3, <2>5, TabStays
  <1> QED
    BY <1>2, <1>3

LEMMA HearKeeps ==
  ASSUME Whole, NEW i, Hear(i)
  PROVE  SoundInv'
  <1>1. PICK b \in Builders : Saved(b, i) \/ NotSaved(b, i)
    BY DEF Hear
  <1> DEFINE req == [saves[i] EXCEPT !.state = "heard"]
  <1>2. /\ SoundInv /\ i \in DOMAIN saves /\ tab \in [Builders -> Tab] /\ tab[b] \in Tab
        /\ saves[i] \in SaveRequest
        /\ UNCHANGED <<published, report, view, acts, views>>
    BY <1>1, RequestIsOne DEF Whole, SoundInv, Hear, Saved, NotSaved
  <1>3. req \in SaveRequest /\ req.schema = saves[i].schema
    BY <1>2 DEF SaveRequest
  <1>4. saves' = [saves EXCEPT ![i] = req]
    BY <1>1 DEF Saved, NotSaved
  <1> HIDE DEF req
  <1>5. saves' \in Seq(SaveRequest) /\ SaveSound'
    BY <1>2, <1>3, <1>4, RequestStep
  <1>6. CASE Saved(b, i)
    <2> DEFINE new == [tab[b] EXCEPT !.template = saves[i].into, !.dirty = FALSE,
                                     !.status = "saved", !.saving = FALSE]
    <2>1. tab' = [tab EXCEPT ![b] = new]
      BY <1>2, <1>6 DEF Saved
    <2>2. /\ new \in Tab /\ new.page = tab[b].page /\ new.url = tab[b].url
          /\ new.nav = tab[b].nav /\ new.mount = tab[b].mount /\ new.schema = tab[b].schema
      BY <1>2 DEF Tab, SaveRequest
    <2> HIDE DEF new
    <2> QED
      BY <1>2, <1>5, <2>1, <2>2, TabStays
  <1>7. CASE NotSaved(b, i)
    <2> DEFINE new == [tab[b] EXCEPT !.status = "error", !.saving = FALSE]
    <2>1. tab' = [tab EXCEPT ![b] = new]
      BY <1>2, <1>7 DEF NotSaved
    <2>2. /\ new \in Tab /\ new.page = tab[b].page /\ new.url = tab[b].url
          /\ new.nav = tab[b].nav /\ new.mount = tab[b].mount /\ new.schema = tab[b].schema
      BY <1>2 DEF Tab
    <2> HIDE DEF new
    <2> QED
      BY <1>2, <1>5, <2>1, <2>2, TabStays
  <1> QED
    BY <1>1, <1>6, <1>7

(* The server stores a schema an editor sent.                              *)
LEMMA UpdateIsSound ==
  ASSUME Whole, NEW t \in Templates, NEW schema, Sound(schema, acts),
         published' = Update(t, schema), acts' = acts
  PROVE  StoredSound' /\ Stored \subseteq Stored'
  <1>1. PICK S : published[t] \in Seq(S)
    BY DEF Whole, IInv, PublishedInv
  <1> DEFINE all == S \cup {schema}
             new == Append(published[t], schema)
  <1>2. published[t] \in Seq(all)
    BY <1>1, SeqMonotonic
  <1>3. /\ new \in Seq(all) /\ Len(new) = Len(published[t]) + 1
        /\ \A n \in 1 .. Len(published[t]) : new[n] = published[t][n]
        /\ new[Len(published[t]) + 1] = schema
        /\ new # << >>
    BY <1>2, AppendProperties
  <1>4. /\ Len(published[t]) \in Nat /\ DOMAIN published[t] = 1 .. Len(published[t])
        /\ DOMAIN new = 1 .. Len(published[t]) + 1
    BY <1>2, <1>3, LenProperties
  <1> HIDE DEF new
  <1>5. published'[t] = new /\ \A z \in Templates \ {t} : published'[z] = published[z]
    BY DEF Update, Whole, IInv, PublishedInv, new
  <1>6. \A n \in DOMAIN new : n \in DOMAIN published[t] \/ n = Len(published[t]) + 1
    BY <1>4
  <1>7. ASSUME NEW z \in Templates, NEW n \in DOMAIN published'[z]
        PROVE  Sound(published'[z][n], acts)
    <2>1. CASE z = t
      BY <1>3, <1>4, <1>5, <1>6, <1>7, <2>1 DEF Whole, SoundInv, StoredSound
    <2>2. CASE z # t
      BY <1>5, <1>7, <2>2 DEF Whole, SoundInv, StoredSound
    <2> QED
      BY <2>1, <2>2
  <1>8. StoredSound'
    BY <1>7 DEF StoredSound
  <1>9. Stored \subseteq Stored'
    BY <1>3, <1>5 DEF Stored
  <1> QED
    BY <1>8, <1>9

LEMMA ServeIsSound ==
  ASSUME Whole, NEW i, Serve(i)
  PROVE  SoundInv'
  <1>1. /\ SoundInv /\ i \in DOMAIN saves /\ saves[i] \in SaveRequest
        /\ UNCHANGED <<tab, report, view, acts, views>>
    BY RequestIsOne DEF Whole, Serve, Store, Fail
  <1>2. NoSchema \in TemplateSchema
    BY InitialIsSound DEF NoSchema, Sound
  <1>3. ASSUME NEW req \in SaveRequest, req.schema = NoSchema, saves' = [saves EXCEPT ![i] = req],
               StoredSound', Stored \subseteq Stored'
        PROVE  SoundInv'
    <2>1. saves' \in Seq(SaveRequest) /\ SaveSound'
      BY <1>1, <1>3, RequestStep
    <2>2. TabSound'
      BY <1>1, <1>3 DEF SoundInv, TabSound
    <2>3. ReportSound' /\ ReportTyped' /\ ViewTyped'
      BY <1>1 DEF SoundInv, ReportSound, ReportTyped, ViewTyped
    <2> QED
      BY <1>1, <1>3, <2>1, <2>2, <2>3 DEF SoundInv
  <1>4. CASE Store(i)
    <2>1. PICK t \in Templates :
             /\ published' = Update(t, saves[i].schema)
             /\ saves' = [saves EXCEPT ![i] =
                    [@ EXCEPT !.state = "stored", !.into = t, !.schema = NoSchema]]
      BY <1>4 DEF Store
    <2> DEFINE req == [saves[i] EXCEPT !.state = "stored", !.into = t, !.schema = NoSchema]
    <2>2. Sound(saves[i].schema, acts)
      BY <1>1 DEF SoundInv, SaveSound
    <2>3. StoredSound' /\ Stored \subseteq Stored'
      BY <1>1, <2>1, <2>2, UpdateIsSound
    <2>4. saves' = [saves EXCEPT ![i] = req]
      BY <2>1
    <2> HIDE DEF NoSchema
    <2>5. req \in SaveRequest /\ req.schema = NoSchema
      BY <1>1, <1>2 DEF SaveRequest
    <2> HIDE DEF req
    <2> QED
      BY <1>3, <2>3, <2>4, <2>5
  <1>5. CASE Fail(i)
    <2> DEFINE req == [saves[i] EXCEPT !.state = "failed", !.into = None, !.schema = NoSchema]
    <2>1. saves' = [saves EXCEPT ![i] = req] /\ published' = published
      BY <1>5 DEF Fail
    <2> HIDE DEF NoSchema
    <2>2. req \in SaveRequest /\ req.schema = NoSchema
      BY <1>1, <1>2 DEF SaveRequest
    <2>3. StoredSound' /\ Stored \subseteq Stored'
      BY <1>1, <2>1 DEF SoundInv, StoredSound, Stored
    <2> HIDE DEF req
    <2> QED
      BY <1>3, <2>1, <2>2, <2>3
  <1> QED
    BY <1>4, <1>5 DEF Serve

(* A report pins a sound schema, and its values are of that schema's fields*)
LEMMA ReportIsSound ==
  ASSUME Whole, NEW r \in Reports, Report(r)
  PROVE  SoundInv'
  <1>1. /\ SoundInv /\ DOMAIN report = Reports
        /\ UNCHANGED <<published, tab, saves, view, acts, views>>
    BY DEF Whole, IInv, ReportInv, Report, LoadTemplate, InsertReport, FillReport
  <1>2. /\ StoredSound' /\ TabSound' /\ SaveSound' /\ ViewTyped'
        /\ tab' \in [Builders -> Tab] /\ saves' \in Seq(SaveRequest)
        /\ acts' \in 0 .. MaxActs /\ views' \in 0 .. MaxViews
    BY <1>1 DEF SoundInv, StoredSound, TabSound, SaveSound, ViewTyped, Stored
  <1>3. ASSUME \A q \in Reports \ {r} : report'[q] = report[q],
               Sound(report'[r].snapshot, acts),
               report'[r].stage \in {"absent", "loaded", "draft"},
               report'[r].template \in Templates \cup {None}, report'[r].revision \in Nat,
               DOMAIN report'[r].values \subseteq collectFieldIds(report'[r].snapshot)
        PROVE  SoundInv'
    <2>1. ReportSound'
      BY <1>1, <1>3 DEF SoundInv, ReportSound
    <2>2. ReportTyped'
      BY <1>1, <1>3 DEF SoundInv, ReportTyped
    <2> QED
      BY <1>2, <2>1, <2>2 DEF SoundInv
  <1>4. /\ Sound(report[r].snapshot, acts) /\ report[r].template \in Templates \cup {None}
        /\ report[r].revision \in Nat
        /\ DOMAIN report[r].values \subseteq collectFieldIds(report[r].snapshot)
    BY <1>1 DEF SoundInv, ReportSound, ReportTyped
  <1>5. ASSUME NEW t \in Templates, LoadTemplate(r, t) PROVE SoundInv'
    <2>1. t \in Stored
      BY <1>5 DEF LoadTemplate
    <2>2. Sound(Current(t), acts) /\ Revision(t) \in Nat
      BY <1>1, <2>1, CurrentIsSound DEF Whole
    <2>3. /\ \A q \in Reports \ {r} : report'[q] = report[q]
          /\ report'[r] = [stage |-> "loaded", template |-> t, revision |-> Revision(t),
                           snapshot |-> Current(t), values |-> << >>]
      BY <1>1, <1>5 DEF LoadTemplate
    <2>4. DOMAIN << >> = {}
      BY EmptySeq
    <2> QED
      BY <1>3, <2>2, <2>3, <2>4
  <1>6. CASE InsertReport(r)
    <2>1. /\ \A q \in Reports \ {r} : report'[q] = report[q]
          /\ report'[r] = [report[r] EXCEPT !.stage = "draft"]
      BY <1>1, <1>6 DEF InsertReport
    <2>2. /\ report'[r].stage = "draft" /\ report'[r].template = report[r].template
          /\ report'[r].revision = report[r].revision
          /\ report'[r].snapshot = report[r].snapshot /\ report'[r].values = report[r].values
      BY <2>1 DEF Whole, IInv, ReportInv
    <2> QED
      BY <1>3, <1>4, <2>1, <2>2
  <1>7. ASSUME NEW ids, FillReport(r, ids) PROVE SoundInv'
    <2> DEFINE given == [id \in ids |->
                  (CHOOSE field \in FieldsOf(report[r].snapshot) : field.id = id).birth]
    <2>1. DOMAIN given = ids /\ ids \subseteq collectFieldIds(report[r].snapshot)
      BY <1>7 DEF FillReport
    <2>2. report' = [report EXCEPT ![r].values = given] /\ report[r].stage = "draft"
      BY <1>7 DEF FillReport
    <2> HIDE DEF given
    <2>3. /\ \A q \in Reports \ {r} : report'[q] = report[q]
          /\ report'[r] = [report[r] EXCEPT !.values = given]
      BY <1>1, <2>2
    <2>4. /\ report'[r].stage = "draft" /\ report'[r].template = report[r].template
          /\ report'[r].revision = report[r].revision
          /\ report'[r].snapshot = report[r].snapshot /\ report'[r].values = given
      BY <2>2, <2>3 DEF Whole, IInv, ReportInv
    <2> QED
      BY <1>3, <1>4, <2>1, <2>3, <2>4
  <1> QED
    BY <1>5, <1>6, <1>7 DEF Report

(* Cells show values that reports have.                                    *)
LEMMA CellsAreTyped ==
  ASSUME Whole, NEW r \in Reports, NEW columns
  PROVE  buildRow(columns, report[r].values)
            \in [collectFieldIds(columns) -> SUBSET (0 .. MaxActs)]
  <1>1. ASSUME NEW id \in DOMAIN report[r].values
        PROVE  report[r].values[id] \in 0 .. MaxActs
    <2>1. PICK field \in FieldsOf(report[r].snapshot) : field.birth = report[r].values[id]
      BY DEF Whole, IInv, ReportInv
    <2>2. PICK p \in Places(report[r].snapshot) : field = FieldAt(report[r].snapshot, p)
      BY DEF FieldsOf
    <2>3. Sound(report[r].snapshot, acts) /\ acts \in 0 .. MaxActs
      BY DEF Whole, SoundInv, ReportSound
    <2>4. field.birth <= acts /\ field \in Field
      BY <2>2, <2>3, SchemaParts DEF Sound
    <2>5. field.birth \in Nat
      BY <2>4 DEF Field
    <2> QED
      BY <2>1, <2>3, <2>4, <2>5, TemplatesAssumption
  <1>2. \A id : renderCell(id, report[r].values) \in SUBSET (0 .. MaxActs)
    BY <1>1 DEF renderCell
  <1> HIDE DEF renderCell
  <1> QED
    BY <1>2 DEF buildRow

LEMMA ViewIsSound ==
  ASSUME Whole, LoadRows \/ \E t \in Templates : LoadColumns(t)
  PROVE  SoundInv'
  <1>1. SoundInv /\ UNCHANGED <<published, tab, saves, report, acts>>
    BY DEF Whole, LoadRows, LoadColumns
  <1>2. ASSUME ViewTyped', views' \in 0 .. MaxViews PROVE SoundInv'
    BY <1>1, <1>2 DEF SoundInv, StoredSound, TabSound, SaveSound, ReportSound, ReportTyped, Stored
  <1>3. CASE LoadRows
    <2> DEFINE Row(r) == [report |-> r, stale |-> StaleRevision(r),
                          cells |-> buildRow(view.columns, report[r].values)]
    <2>1. /\ view'.columns = view.columns /\ views' = views
          /\ view'.rows = {Row(r) : r \in {q \in Reports :
                            report[q].stage = "draft" /\ report[q].template = view.template}}
      BY <1>3 DEF LoadRows, Whole, IInv, ViewInv
    <2>2. \A r \in Reports :
             Row(r) \in [report : Reports, stale : BOOLEAN,
                         cells : [collectFieldIds(view.columns) -> SUBSET (0 .. MaxActs)]]
      BY CellsAreTyped DEF StaleRevision
    <2> HIDE DEF Row
    <2>3. ViewTyped'
      BY <1>1, <2>1, <2>2 DEF SoundInv, ViewTyped
    <2> QED
      BY <1>1, <1>2, <2>1, <2>3 DEF SoundInv
  <1>4. ASSUME NEW t \in Templates, LoadColumns(t) PROVE SoundInv'
    <2>1. /\ t \in Stored /\ view'.columns = Current(t) /\ view'.rows = {}
          /\ views' = views + 1 /\ views < MaxViews
      BY <1>4 DEF LoadColumns
    <2>2. Current(t) \in TemplateSchema
      BY <1>1, <2>1, CurrentIsSound DEF Whole, Sound
    <2>3. ViewTyped'
      BY <2>1, <2>2 DEF ViewTyped
    <2>4. views' \in 0 .. MaxViews
      BY <1>1, <2>1, TemplatesAssumption DEF SoundInv
    <2> QED
      BY <1>2, <2>3, <2>4
  <1> QED
    BY <1>3, <1>4

LEMMA StepIsWhole == Whole /\ [Next]_vars => Whole'
  <1> SUFFICES ASSUME Whole, [Next]_vars PROVE Whole'
    OBVIOUS
  <1>1. IInv'
    BY StepKeeps DEF Whole
  <1>2. ASSUME SoundInv' PROVE Whole'
    BY <1>1, <1>2 DEF Whole
  <1>3. ASSUME NEW b \in Builders, Open(b) \/ Edit(b) \/ Save(b) PROVE SoundInv'
    BY <1>3, OpenKeeps, EditKeeps, SaveKeeps
  <1>4. ASSUME NEW i, Serve(i) \/ Hear(i) PROVE SoundInv'
    BY <1>4, ServeIsSound, HearKeeps
  <1>5. ASSUME NEW r \in Reports, Report(r) PROVE SoundInv'
    BY <1>5, ReportIsSound
  <1>6. CASE LoadRows \/ \E t \in Templates : LoadColumns(t)
    BY <1>2, <1>6, ViewIsSound
  <1>7. CASE UNCHANGED vars
    <2>1. SoundInv'
      BY <1>7 DEF vars, Whole, SoundInv, StoredSound, TabSound, SaveSound, ReportSound,
                  ReportTyped, ViewTyped, Stored
    <2> QED
      BY <1>2, <2>1
  <1> QED
    BY <1>2, <1>3, <1>4, <1>5, <1>6, <1>7 DEF Next

LEMMA AlwaysWhole == Spec => []Whole
  BY InitIsWhole, StepIsWhole, PTL DEF Spec

-----------------------------------------------------------------------------
(* Types, and a cell for every column of every row (dashboard/store.go,    *)
(* TableRow), for any number of tabs, templates, reports and edits.        *)
THEOREM TypeCorrect == Spec => []TypeOK
  <1> QED
    BY WholeIsTyped, AlwaysWhole, PTL

(* However long a schema is edited, its fields and its sections have ids of*)
(* their own and no list of options runs empty (builderReducer).           *)
THEOREM IdsStayUnique == Spec => []IdsAreUnique
  <1>1. Whole => IdsAreUnique
    <2> SUFFICES ASSUME Whole, NEW b \in Builders
                 PROVE  LET schema == tab[b].schema
                        IN /\ UniqueFieldIds(schema)
                           /\ \A s, z \in DOMAIN schema : schema[s].id = schema[z].id => s = z
                           /\ \A field \in FieldsOf(schema) :
                                 field.type = "select" => field.options # << >>
      BY DEF IdsAreUnique
    <2>1. Sound(tab[b].schema, acts)
      BY DEF Whole, SoundInv, TabSound
    <2> QED
      BY <2>1 DEF Sound, FieldsOf
  <1> QED
    BY <1>1, AlwaysWhole, PTL

(* A drop of a field or a section, wherever it lands in a schema of any    *)
(* size, loses, doubles and alters no field (handleDragEnd, moveWithin).   *)
THEOREM DropsKeepFields == Spec => RearrangingKeepsFields
  <1>1. ASSUME Whole, NEW b \in Builders, DropField(b) \/ DropSection(b)
        PROVE  /\ FieldsOf(tab[b].schema)' = FieldsOf(tab[b].schema)
               /\ Cardinality(Places(tab[b].schema)') = Cardinality(Places(tab[b].schema))
    <2>1. SoundInv /\ tab[b].schema \in TemplateSchema /\ tab \in [Builders -> Tab]
      BY <1>1 DEF Whole, SoundInv, TabSound, Sound
    <2>2. PICK new : Rearranged(new, tab[b].schema) /\ dispatch(b, new)
      BY <1>1, <2>1, DropRearranges
    <2>3. tab'[b].schema = new
      BY <2>1, <2>2 DEF dispatch, Tab
    <2>4. /\ FieldsOf(new) = FieldsOf(tab[b].schema)
          /\ Cardinality(Places(new)) = Cardinality(Places(tab[b].schema))
      BY <2>1, <2>2, RearrangedKeepsFields
    <2>5. FieldsOf(tab[b].schema)' = FieldsOf(new) /\ Places(tab[b].schema)' = Places(new)
      BY <2>3 DEF FieldsOf, Places, FieldAt
    <2> QED
      BY <2>4, <2>5
  <1>2. Whole /\ [Next]_vars =>
          [\A b \in Builders : DropField(b) \/ DropSection(b) =>
             /\ FieldsOf(tab[b].schema)' = FieldsOf(tab[b].schema)
             /\ Cardinality(Places(tab[b].schema)') = Cardinality(Places(tab[b].schema))]_vars
    BY <1>1
  <1> QED
    BY <1>2, AlwaysWhole, PTL DEF Spec, RearrangingKeepsFields

-----------------------------------------------------------------------------
(* What becomes of saves.  A mount has a number of its own; its saves are  *)
(* sent one at a time, each when the one before has been heard of; what was*)
(* stored went where it was sent; and a builder that is still there waits  *)
(* for its last save, or knows where its saves went.                       *)
Editing(b) == tab[b].page = "builder"

MountInv ==
    /\ \A b \in Builders : Editing(b) => tab[b].mount <= acts
    /\ \A b, c \in Builders : Editing(b) /\ Editing(c) /\ tab[b].mount = tab[c].mount => b = c

SentInv ==
    /\ \A i \in DOMAIN saves : saves[i].by <= acts
    /\ \A i, j \in DOMAIN saves :
          i < j /\ saves[i].by = saves[j].by => saves[i].state = "heard"
    /\ \A i \in DOMAIN saves :
          /\ saves[i].state \in {"sent", "failed"} => saves[i].into = None
          /\ saves[i].state = "stored" => saves[i].into # None
          /\ saves[i].into # None /\ saves[i].template # None => saves[i].into = saves[i].template

KnownInv ==
    \A b \in Builders, i \in DOMAIN saves :
        Editing(b) /\ saves[i].by = tab[b].mount =>
            IF saves[i].state = "heard"
            THEN saves[i].into # None => tab[b].template = saves[i].into
            ELSE tab[b].saving

HistoryInv == MountInv /\ SentInv /\ KnownInv /\ SavesStayWithTheirTemplate

(* What these read of a tab.                                               *)
SameBuilder(b) ==
    /\ tab'[b].page = tab[b].page /\ tab'[b].mount = tab[b].mount
    /\ tab'[b].template = tab[b].template /\ tab'[b].saving = tab[b].saving

LEMMA Numbers ==
  ASSUME Whole
  PROVE  /\ acts \in Nat
         /\ \A b \in Builders : tab[b] \in Tab /\ tab[b].mount \in Nat
         /\ \A i \in DOMAIN saves : saves[i] \in SaveRequest /\ saves[i].by \in Nat /\ i \in Nat
  <1>1. acts \in Nat /\ 0 .. MaxActs \subseteq Nat /\ 1 .. MaxActs \subseteq Nat
    BY DEF Whole, SoundInv
  <1>2. \A b \in Builders : tab[b] \in Tab /\ tab[b].mount \in Nat
    BY <1>1 DEF Whole, SoundInv, Tab
  <1>3. \A i \in DOMAIN saves : saves[i] \in SaveRequest
    BY RequestIsOne DEF Whole
  <1>4. DOMAIN saves = 1 .. Len(saves)
    BY LenProperties DEF Whole, SoundInv
  <1> QED
    BY <1>1, <1>2, <1>3, <1>4 DEF SaveRequest

(* Builders come and go, and those that stay keep what matters here.       *)
LEMMA BuildersCome ==
  ASSUME Whole, HistoryInv, NEW b \in Builders, saves' = saves, acts' \in Nat, acts <= acts',
         \A c \in Builders \ {b} : tab'[c] = tab[c],
         SameBuilder(b) \/ (tab'[b].page = "builder" => tab'[b].mount = acts' /\ acts < acts')
  PROVE  HistoryInv'
  <1>1. \A c \in Builders \ {b} : SameBuilder(c)
    BY DEF SameBuilder
  <1>2. CASE SameBuilder(b)
    <2>1. \A c \in Builders : SameBuilder(c)
      BY <1>1, <1>2
    <2>2. MountInv'
      BY <2>1, Numbers DEF HistoryInv, MountInv, Editing, SameBuilder
    <2>3. SentInv'
      BY Numbers DEF HistoryInv, SentInv
    <2>4. KnownInv'
      BY <2>1 DEF HistoryInv, KnownInv, Editing, SameBuilder
    <2> QED
      BY <2>2, <2>3, <2>4 DEF HistoryInv, SavesStayWithTheirTemplate
  <1>3. CASE tab'[b].page = "builder" => tab'[b].mount = acts' /\ acts < acts'
    <2>1. \A c \in Builders \ {b} : Editing(c)' => tab'[c].mount <= acts /\ tab'[c].mount \in Nat
      BY Numbers DEF HistoryInv, MountInv, Editing
    <2>2. MountInv'
      BY <1>1, <1>3, <2>1, Numbers DEF HistoryInv, MountInv, Editing
    <2>3. SentInv'
      BY Numbers DEF HistoryInv, SentInv
    <2>4. \A i \in DOMAIN saves : Editing(b)' => saves[i].by # tab'[b].mount
      BY <1>3, Numbers DEF HistoryInv, SentInv, Editing
    <2>5. KnownInv'
      <3> SUFFICES ASSUME NEW c \in Builders, NEW i \in DOMAIN saves,
                          Editing(c)', saves[i].by = tab'[c].mount
                   PROVE  IF saves[i].state = "heard"
                          THEN saves[i].into # None => tab'[c].template = saves[i].into
                          ELSE tab'[c].saving
        BY DEF KnownInv
      <3>1. c # b
        BY <2>4
      <3>2. tab'[c] = tab[c]
        BY <3>1
      <3> QED
        BY <3>2 DEF HistoryInv, KnownInv, Editing
    <2> QED
      BY <2>2, <2>3, <2>5 DEF HistoryInv, SavesStayWithTheirTemplate
  <1> QED
    BY <1>2, <1>3

LEMMA MountIs ==
  ASSUME Whole, NEW b \in Builders, NEW url, NEW nav, NEW template, NEW schema,
         Mount(b, url, nav, template, schema)
  PROVE  /\ saves' = saves /\ acts' = acts + 1 /\ \A c \in Builders \ {b} : tab'[c] = tab[c]
         /\ tab'[b].mount = acts'
  BY DEF Mount, Away, Whole, SoundInv

LEMMA OpenHistory ==
  ASSUME Whole, HistoryInv, NEW b \in Builders, Open(b)
  PROVE  HistoryInv'
  <1>1. ASSUME NEW url, NEW nav, NEW template, NEW schema, Mount(b, url, nav, template, schema)
        PROVE  HistoryInv'
    BY <1>1, MountIs, Numbers, BuildersCome
  <1>2. ASSUME NEW t, Load(b, t) PROVE HistoryInv'
    <2>1. /\ saves' = saves /\ acts' = acts /\ \A c \in Builders \ {b} : tab'[c] = tab[c]
          /\ tab'[b].page = "loading"
      BY <1>2 DEF Load, Away, Whole, SoundInv
    <2> QED
      BY <2>1, Numbers, BuildersCome
  <1>3. CASE Leave(b)
    <2>1. /\ saves' = saves /\ acts' = acts /\ \A c \in Builders \ {b} : tab'[c] = tab[c]
          /\ tab'[b].page = "away"
      BY <1>3 DEF Leave, Away, Whole, SoundInv
    <2> QED
      BY <2>1, Numbers, BuildersCome
  <1> QED
    BY <1>1, <1>2, <1>3 DEF Open, OpenNew, Loaded, Reload, OpenFromList, Visit

LEMMA EditHistory ==
  ASSUME Whole, HistoryInv, NEW b \in Builders, Edit(b)
  PROVE  HistoryInv'
  <1>1. /\ saves' = saves /\ acts' = acts + 1 /\ \A c \in Builders \ {b} : tab'[c] = tab[c]
        /\ SameBuilder(b)
    <2>1. ASSUME NEW schema, dispatch(b, schema)
          PROVE  /\ saves' = saves /\ acts' = acts + 1 /\ \A c \in Builders \ {b} : tab'[c] = tab[c]
                 /\ SameBuilder(b)
      BY <2>1, Numbers DEF dispatch, SameBuilder, Whole, SoundInv, Tab
    <2>2. ASSUME NEW named, ChangeName(b, named)
          PROVE  /\ saves' = saves /\ acts' = acts + 1 /\ \A c \in Builders \ {b} : tab'[c] = tab[c]
                 /\ SameBuilder(b)
      BY <2>2, Numbers DEF ChangeName, SameBuilder, Whole, SoundInv, Tab
    <2> QED
      BY <2>1, <2>2 DEF Edit, EditSections, EditFields, EditOptions, DropPalette, DropField,
                        DropSection
  <1> QED
    BY <1>1, Numbers, BuildersCome

(* A save is sent: everything its builder sent before has been heard of.   *)
LEMMA SaveHistory ==
  ASSUME Whole, HistoryInv, NEW b \in Builders, Save(b)
  PROVE  HistoryInv'
  <1>1. /\ tab[b].page = "builder" /\ ~tab[b].saving /\ acts' = acts
        /\ \A c \in Builders \ {b} : tab'[c] = tab[c]
    BY DEF Save, Whole, SoundInv
  <1>2. CASE ~tab[b].named
    <2>1. saves' = saves /\ SameBuilder(b)
      BY <1>2, Numbers DEF Save, SameBuilder, Whole, SoundInv, Tab
    <2> QED
      BY <1>1, <2>1, Numbers, BuildersCome
  <1>3. CASE tab[b].named
    <2> DEFINE req == [by |-> tab[b].mount, template |-> tab[b].template,
                       schema |-> tab[b].schema, state |-> "sent", into |-> None]
               n == Len(saves) + 1
    <2>1. /\ saves' = Append(saves, req)
          /\ tab'[b].page = "builder" /\ tab'[b].mount = tab[b].mount
          /\ tab'[b].template = tab[b].template /\ tab'[b].saving = TRUE
      BY <1>3, Numbers DEF Save, Whole, SoundInv, Tab
    <2>2. req \in SaveRequest
      BY <1>1, Numbers DEF Whole, SoundInv, TabSound, Tab, SaveRequest
    <2>3. /\ req.by = tab[b].mount /\ req.template = tab[b].template /\ req.state = "sent"
          /\ req.into = None
      OBVIOUS
    <2> HIDE DEF req
    <2>4. /\ n \in Nat /\ DOMAIN saves' = DOMAIN saves \cup {n} /\ n \notin DOMAIN saves
          /\ saves'[n] = req /\ \A i \in DOMAIN saves : i < n /\ saves'[i] = saves[i]
      <3>1. /\ saves \in Seq(SaveRequest) /\ DOMAIN saves = 1 .. Len(saves) /\ Len(saves) \in Nat
        BY LenProperties DEF Whole, SoundInv
      <3>2. /\ saves' \in Seq(SaveRequest) /\ Len(saves') = Len(saves) + 1
            /\ \A i \in 1 .. Len(saves) : saves'[i] = saves[i]
            /\ saves'[Len(saves) + 1] = req
        BY <2>1, <2>2, <3>1, AppendProperties
      <3>3. DOMAIN saves' = 1 .. Len(saves) + 1
        BY <3>2, LenProperties
      <3> QED
        BY <3>1, <3>2, <3>3
    <2> HIDE DEF n
    <2>5. \A i \in DOMAIN saves : saves[i].by = tab[b].mount =>
             /\ saves[i].state = "heard"
             /\ saves[i].into # None => tab[b].template = saves[i].into
      BY <1>1 DEF HistoryInv, KnownInv, Editing
    <2>6. \A i, j \in DOMAIN saves' : i < j => i \in DOMAIN saves
      BY <2>4, Numbers
    <2>7. MountInv'
      BY <1>1, <2>1 DEF HistoryInv, MountInv, Editing
    <2>8. SentInv'
      <3>1. \A i \in DOMAIN saves' : saves'[i].by <= acts'
        BY <1>1, <2>3, <2>4 DEF HistoryInv, SentInv, MountInv, Editing
      <3>2. \A i, j \in DOMAIN saves' :
               i < j /\ saves'[i].by = saves'[j].by => saves'[i].state = "heard"
        BY <2>3, <2>4, <2>5, <2>6 DEF HistoryInv, SentInv
      <3>3. \A i \in DOMAIN saves' :
               /\ saves'[i].state \in {"sent", "failed"} => saves'[i].into = None
               /\ saves'[i].state = "stored" => saves'[i].into # None
               /\ saves'[i].into # None /\ saves'[i].template # None
                     => saves'[i].into = saves'[i].template
        BY <2>3, <2>4 DEF HistoryInv, SentInv
      <3> QED
        BY <3>1, <3>2, <3>3 DEF SentInv
    <2>9. KnownInv'
      <3> SUFFICES ASSUME NEW c \in Builders, NEW i \in DOMAIN saves',
                          tab'[c].page = "builder", saves'[i].by = tab'[c].mount
                   PROVE  IF saves'[i].state = "heard"
                          THEN saves'[i].into # None => tab'[c].template = saves'[i].into
                          ELSE tab'[c].saving
        BY DEF KnownInv, Editing
      <3>1. CASE c = b
        BY <2>1, <2>3, <2>4, <2>5, <3>1
      <3>2. CASE c # b
        <4>1. tab'[c] = tab[c]
          BY <1>1, <3>2
        <4>2. saves'[i].by # tab[b].mount
          BY <1>1, <3>2, <4>1 DEF HistoryInv, MountInv, Editing
        <4>3. i \in DOMAIN saves /\ saves'[i] = saves[i]
          BY <2>3, <2>4, <4>2
        <4> QED
          BY <4>1, <4>3 DEF HistoryInv, KnownInv, Editing
      <3> QED
        BY <3>1, <3>2
    <2>10. SavesStayWithTheirTemplate'
      <3> SUFFICES ASSUME NEW i \in DOMAIN saves', NEW j \in DOMAIN saves',
                          i < j, saves'[i].by = saves'[j].by,
                          saves'[i].state = "heard", saves'[i].into # None
                   PROVE  saves'[j].template = saves'[i].into
        BY DEF SavesStayWithTheirTemplate
      <3>1. i \in DOMAIN saves /\ saves'[i] = saves[i]
        BY <2>4, <2>6
      <3>2. CASE j = n
        BY <2>3, <2>4, <2>5, <3>1, <3>2
      <3>3. CASE j \in DOMAIN saves
        BY <2>4, <3>1, <3>3 DEF HistoryInv, SavesStayWithTheirTemplate
      <3> QED
        BY <2>4, <3>2, <3>3
    <2> QED
      BY <2>7, <2>8, <2>9, <2>10 DEF HistoryInv
  <1> QED
    BY <1>2, <1>3

(* The server answers: it stores a save where it was sent, or in a template*)
(* of its own, or nowhere.                                                 *)
LEMMA ServeHistory ==
  ASSUME Whole, HistoryInv, NEW i, Serve(i)
  PROVE  HistoryInv'
  <1>1. PICK state, into, schema :
          /\ saves' = [saves EXCEPT ![i] = [@ EXCEPT !.state = state, !.into = into, !.schema = schema]]
          /\ \/ state = "stored" /\ into \in Templates /\ (saves[i].template # None => into = saves[i].template)
             \/ state = "failed" /\ into = None
    BY DEF Serve, Store, Fail
  <1>2. i \in DOMAIN saves /\ saves[i].state \in {"sent", "stored"} /\ tab' = tab /\ acts' = acts
    BY DEF Serve, Store, Fail
  <1>3. /\ DOMAIN saves' = DOMAIN saves
        /\ \A k \in DOMAIN saves \ {i} : saves'[k] = saves[k]
        /\ saves'[i].by = saves[i].by /\ saves'[i].template = saves[i].template
        /\ saves'[i].state = state /\ saves'[i].into = into
    BY <1>1, <1>2, Numbers DEF SaveRequest
  <1>4. None \notin Templates
    BY TemplatesAssumption
  <1>5. \A k \in DOMAIN saves : saves'[k].by = saves[k].by /\ saves'[k].template = saves[k].template
    BY <1>3
  <1>6. \A k \in DOMAIN saves : saves[k].state = "heard" => k # i /\ saves'[k] = saves[k]
    BY <1>2, <1>3
  <1>7. \A k \in DOMAIN saves : saves'[k].state = "heard" => saves'[k] = saves[k]
    BY <1>1, <1>3
  <1>8. MountInv'
    BY <1>2 DEF HistoryInv, MountInv, Editing
  <1>9. SentInv'
    <2>1. \A k \in DOMAIN saves' : saves'[k].by <= acts'
      BY <1>2, <1>3, <1>5 DEF HistoryInv, SentInv
    <2>2. \A k, j \in DOMAIN saves' :
             k < j /\ saves'[k].by = saves'[j].by => saves'[k].state = "heard"
      BY <1>3, <1>5, <1>6 DEF HistoryInv, SentInv
    <2>3. \A k \in DOMAIN saves' :
             /\ saves'[k].state \in {"sent", "failed"} => saves'[k].into = None
             /\ saves'[k].state = "stored" => saves'[k].into # None
             /\ saves'[k].into # None /\ saves'[k].template # None
                   => saves'[k].into = saves'[k].template
      BY <1>1, <1>3, <1>4 DEF HistoryInv, SentInv
    <2> QED
      BY <2>1, <2>2, <2>3 DEF SentInv
  <1>10. KnownInv'
    <2> SUFFICES ASSUME NEW c \in Builders, NEW k \in DOMAIN saves,
                        tab[c].page = "builder", saves[k].by = tab[c].mount
                 PROVE  IF saves'[k].state = "heard"
                        THEN saves'[k].into # None => tab[c].template = saves'[k].into
                        ELSE tab[c].saving
      BY <1>2, <1>3, <1>5 DEF KnownInv, Editing
    <2>1. CASE saves'[k].state = "heard"
      BY <1>7, <2>1 DEF HistoryInv, KnownInv, Editing
    <2>2. CASE saves'[k].state # "heard"
      <3>1. saves[k].state # "heard"
        BY <1>6, <2>2
      <3> QED
        BY <2>2, <3>1 DEF HistoryInv, KnownInv, Editing
    <2> QED
      BY <2>1, <2>2
  <1>11. SavesStayWithTheirTemplate'
    BY <1>3, <1>5, <1>7 DEF HistoryInv, SavesStayWithTheirTemplate
  <1> QED
    BY <1>8, <1>9, <1>10, <1>11 DEF HistoryInv

(* The answer is heard by the builder that waits for it: it is about the   *)
(* last save of that builder.                                              *)
LEMMA HearHistory ==
  ASSUME Whole, HistoryInv, NEW i, Hear(i)
  PROVE  HistoryInv'
  <1>1. PICK b \in Builders : Saved(b, i) \/ NotSaved(b, i)
    BY DEF Hear
  <1>2. /\ i \in DOMAIN saves /\ saves[i].state \in {"stored", "failed"}
        /\ tab[b].page = "builder" /\ saves[i].by = tab[b].mount /\ acts' = acts
        /\ saves' = [saves EXCEPT ![i].state = "heard"]
        /\ \A c \in Builders \ {b} : tab'[c] = tab[c]
    BY <1>1 DEF Hear, Saved, NotSaved, Waiting, Whole, SoundInv
  <1>3. /\ DOMAIN saves' = DOMAIN saves
        /\ \A k \in DOMAIN saves \ {i} : saves'[k] = saves[k]
        /\ saves'[i].by = saves[i].by /\ saves'[i].template = saves[i].template
        /\ saves'[i].state = "heard" /\ saves'[i].into = saves[i].into
    BY <1>2, Numbers DEF SaveRequest
  <1>4. \A k \in DOMAIN saves : /\ saves'[k].by = saves[k].by /\ saves'[k].template = saves[k].template
                                /\ saves'[k].into = saves[k].into
    BY <1>3
  <1>5. /\ tab'[b].page = "builder" /\ tab'[b].mount = tab[b].mount
        /\ Saved(b, i) => tab'[b].template = saves[i].into
        /\ NotSaved(b, i) => tab'[b].template = tab[b].template
    BY <1>1, <1>2, Numbers DEF Saved, NotSaved, Whole, SoundInv, Tab
  <1>6. \A k \in DOMAIN saves : k # i /\ saves[k].by = saves[i].by => k < i /\ saves[k].state = "heard"
    BY <1>2, Numbers DEF HistoryInv, SentInv
  <1>7. \A k \in DOMAIN saves : k # i /\ saves[k].by = saves[i].by /\ saves[k].into # None =>
           saves[i].template = saves[k].into /\ tab[b].template = saves[k].into
    BY <1>2, <1>6 DEF HistoryInv, SavesStayWithTheirTemplate, KnownInv, Editing
  <1>8. MountInv'
    BY <1>2, <1>5 DEF HistoryInv, MountInv, Editing
  <1>9. SentInv'
    <2>1. \A k \in DOMAIN saves' : saves'[k].by <= acts'
      BY <1>2, <1>3, <1>4 DEF HistoryInv, SentInv
    <2>2. \A k, j \in DOMAIN saves' :
             k < j /\ saves'[k].by = saves'[j].by => saves'[k].state = "heard"
      BY <1>3, <1>4 DEF HistoryInv, SentInv
    <2>3. \A k \in DOMAIN saves' :
             /\ saves'[k].state \in {"sent", "failed"} => saves'[k].into = None
             /\ saves'[k].state = "stored" => saves'[k].into # None
             /\ saves'[k].into # None /\ saves'[k].template # None
                   => saves'[k].into = saves'[k].template
      BY <1>3, <1>4 DEF HistoryInv, SentInv
    <2> QED
      BY <2>1, <2>2, <2>3 DEF SentInv
  <1>10. KnownInv'
    <2> SUFFICES ASSUME NEW c \in Builders, NEW k \in DOMAIN saves,
                        tab'[c].page = "builder", saves[k].by = tab'[c].mount
                 PROVE  IF saves'[k].state = "heard"
                        THEN saves'[k].into # None => tab'[c].template = saves'[k].into
                        ELSE tab'[c].saving
      BY <1>3, <1>4 DEF KnownInv, Editing
    <2>1. CASE c # b
      <3>1. tab'[c] = tab[c]
        BY <1>2, <2>1
      <3>2. k # i
        BY <1>2, <2>1, <3>1 DEF HistoryInv, MountInv, Editing
      <3> QED
        BY <1>3, <3>1, <3>2 DEF HistoryInv, KnownInv, Editing
    <2>2. CASE c = b /\ k # i
      <3>1. saves[k].by = saves[i].by /\ saves'[k] = saves[k] /\ saves'[k].state = "heard"
        BY <1>2, <1>3, <1>5, <1>6, <2>2
      <3>2. saves[k].into # None => saves[i].template = saves[k].into /\ tab[b].template = saves[k].into
        BY <1>7, <2>2, <3>1
      <3>3. Saved(b, i) /\ saves[i].template # None => saves[i].into = saves[i].template
        BY <1>2 DEF HistoryInv, SentInv, Saved
      <3> QED
        BY <1>1, <1>5, <2>2, <3>1, <3>2, <3>3
    <2>3. CASE c = b /\ k = i
      <3>1. NotSaved(b, i) => saves[i].into = None
        BY <1>2 DEF NotSaved, HistoryInv, SentInv
      <3> QED
        BY <1>1, <1>3, <1>5, <2>3, <3>1
    <2> QED
      BY <2>1, <2>2, <2>3
  <1>11. SavesStayWithTheirTemplate'
    <2> SUFFICES ASSUME NEW k \in DOMAIN saves, NEW j \in DOMAIN saves,
                        k < j, saves[k].by = saves[j].by,
                        saves'[k].state = "heard", saves[k].into # None
                 PROVE  saves[j].template = saves[k].into
      BY <1>3, <1>4 DEF SavesStayWithTheirTemplate
    <2>1. saves[k].state = "heard"
      BY DEF HistoryInv, SentInv
    <2> QED
      BY <2>1 DEF HistoryInv, SavesStayWithTheirTemplate
  <1> QED
    BY <1>8, <1>9, <1>10, <1>11 DEF HistoryInv

LEMMA HistoryHolds == Spec => [](Whole /\ HistoryInv)
  <1>1. Init => HistoryInv
    <2> SUFFICES ASSUME Init PROVE HistoryInv
      OBVIOUS
    <2>1. DOMAIN saves = {} /\ \A b \in Builders : ~ Editing(b)
      BY EmptySeq DEF Init, Editing, Away
    <2> QED
      BY <2>1 DEF HistoryInv, MountInv, SentInv, KnownInv, SavesStayWithTheirTemplate
  <1>2. Whole /\ HistoryInv /\ [Next]_vars => HistoryInv'
    <2> SUFFICES ASSUME Whole, HistoryInv, [Next]_vars PROVE HistoryInv'
      OBVIOUS
    <2>1. ASSUME UNCHANGED <<tab, saves, acts>> PROVE HistoryInv'
      BY <2>1 DEF HistoryInv, MountInv, SentInv, KnownInv, Editing, SavesStayWithTheirTemplate
    <2>2. ASSUME NEW b \in Builders, Open(b) \/ Edit(b) \/ Save(b) PROVE HistoryInv'
      BY <2>2, OpenHistory, EditHistory, SaveHistory
    <2>3. ASSUME NEW i, Serve(i) \/ Hear(i) PROVE HistoryInv'
      BY <2>3, ServeHistory, HearHistory
    <2>4. ASSUME NEW r \in Reports, Report(r) PROVE HistoryInv'
      BY <2>1, <2>4 DEF Report, LoadTemplate, InsertReport, FillReport
    <2>5. CASE LoadRows \/ \E t \in Templates : LoadColumns(t)
      BY <2>1, <2>5 DEF LoadRows, LoadColumns
    <2>6. CASE UNCHANGED vars
      BY <2>1, <2>6 DEF vars
    <2> QED
      BY <2>2, <2>3, <2>4, <2>5, <2>6 DEF Next
  <1> QED
    BY <1>1, <1>2, InitIsWhole, StepIsWhole, PTL DEF Spec

(* A builder that was told where it saved saves there from then on, so one *)
(* mount makes one template, unless the reply to a create is lost, for any *)
(* number of tabs and saves (TemplateBuilderPage, handleSave).             *)
THEOREM BuildersKeepTheirTemplate == Spec => []SavesStayWithTheirTemplate
  <1>1. HistoryInv => SavesStayWithTheirTemplate
    BY DEF HistoryInv
  <1> QED
    BY <1>1, HistoryHolds, PTL
=============================================================================
