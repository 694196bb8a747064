------------------------------ MODULE Templates -------------------------------
(***************************************************************************)
(* Templates from the builder to the dashboard.  Tabs edit the schema they *)
(* opened and save it; the server validates it and keeps a revision;       *)
(* reports pin the schema and revision they were created with; the         *)
(* dashboard reads the template's columns first and the reports after.     *)
(*                                                                         *)
(* "published" has every revision of a template: its row has the last one, *)
(* and its revision is their number.  A builder is told from its           *)
(* successors in the same tab by the number of its mount; an answer finds  *)
(* only the builder that asked.  What a tab reads to open a template may   *)
(* age on its way: so may it after, which comes to the same.  "acts" bounds*)
(* what the tabs' users do, editors opened and edits made.                 *)
(***************************************************************************)
EXTENDS Schemas

CONSTANTS Builders, Templates, Existing, Seed, Reports, None,
          MaxActs, MaxSaves, MaxViews

ASSUME TemplatesAssumption ==
    /\ Existing \subseteq Templates /\ None \notin Templates
    /\ MaxActs \in Nat /\ MaxViews \in Nat

(* A seed is valid, its sections have ids of their own, and it has no field*)
(* that an edit of the run has added.                                      *)
ASSUME SeedAssumption ==
    /\ Seed \in TemplateSchema /\ Validate(Seed)
    /\ \A s, z \in DOMAIN Seed : Seed[s].id = Seed[z].id => s = z
    /\ \A field \in FieldsOf(Seed) : field.birth = 0

VARIABLES published, tab, saves, report, view, acts, views
vars == <<published, tab, saves, report, view, acts, views>>

NoSchema == << >>
Revision(t) == Len(published[t])
Stored == {t \in Templates : published[t] # << >>}
Current(t) == Last(published[t])

Away == [page |-> "away", url |-> None, nav |-> NoSchema, mount |-> 0, template |-> None,
         schema |-> NoSchema, named |-> FALSE, dirty |-> FALSE, saving |-> FALSE,
         status |-> "idle"]
NoReport == [stage |-> "absent", template |-> None, revision |-> 0, snapshot |-> NoSchema,
             values |-> << >>]
NoView == [stage |-> "none", template |-> None, revision |-> 0, columns |-> NoSchema, rows |-> {}]

Init ==
    /\ published = [t \in Templates |-> IF t \in Existing THEN <<Seed>> ELSE << >>]
    /\ tab = [b \in Builders |-> Away]
    /\ saves = << >>
    /\ report = [r \in Reports |-> NoReport]
    /\ view = NoView
    /\ acts = 0 /\ views = 0

----------------------------------------------------------------------------
(* Opening and leaving.                                                    *)
Mount(b, url, nav, template, schema) ==
    /\ acts < MaxActs
    /\ acts' = acts + 1
    /\ tab' = [tab EXCEPT ![b] = [Away EXCEPT
                    !.page = "builder", !.url = url, !.nav = nav, !.mount = acts + 1,
                    !.template = template, !.schema = schema, !.named = template # None]]
    /\ UNCHANGED <<published, saves, report, view, views>>

OpenNew(b) == tab[b].page = "away" /\ Mount(b, None, NoSchema, None, InitialSchema)

(* The list reads the template and hands it on in the history entry.       *)
OpenFromList(b, t) ==
    tab[b].page = "away" /\ t \in Stored /\ Mount(b, t, Current(t), t, Current(t))

Load(b, t) ==
    tab' = [tab EXCEPT ![b] = [Away EXCEPT !.page = "loading", !.url = t]]
    /\ UNCHANGED <<published, saves, report, view, acts, views>>

(* The address of a template, typed in.                                    *)
Visit(b, t) == tab[b].page = "away" /\ t \in Stored /\ Load(b, t)

(* The answer.  A failure is shown with a retry: the tab is where it was.  *)
Loaded(b) ==
    tab[b].page = "loading"
    /\ LET t == tab[b].url IN Mount(b, t, NoSchema, t, Current(t))

(* A reload, or leaving and coming back: the history entry keeps what it has.*)
Reload(b) ==
    /\ tab[b].page = "builder"
    /\ LET t == tab[b].url
       IN IF t = None THEN Mount(b, None, NoSchema, None, InitialSchema)
          ELSE IF tab[b].nav = NoSchema THEN Load(b, t)
          ELSE Mount(b, t, tab[b].nav, t, tab[b].nav)

Leave(b) ==
    /\ tab[b].page # "away"
    /\ tab' = [tab EXCEPT ![b] = Away]
    /\ UNCHANGED <<published, saves, report, view, acts, views>>

----------------------------------------------------------------------------
(* Editing: dispatch, and what each control and each drop dispatches.      *)
dispatch(b, schema) ==
    /\ tab[b].page = "builder"
    /\ acts < MaxActs
    /\ acts' = acts + 1
    /\ tab' = [tab EXCEPT ![b].schema = schema, ![b].dirty = TRUE,
                          ![b].status = IF @ = "saved" THEN "idle" ELSE @]
    /\ UNCHANGED <<published, saves, report, view, views>>

EditSections(b) ==
    LET schema == tab[b].schema
    IN \/ dispatch(b, AddSection(schema))
       \/ \E s \in DOMAIN schema :
             \/ dispatch(b, RemoveAt(schema, s))
             \/ \E label \in Labels \ {schema[s].label} :
                   dispatch(b, [schema EXCEPT ![s].label = label])

(* A field's label.  Its flags, like another text of the same kind, change *)
(* nothing told apart here; the reducer's removeField has no control.      *)
EditFields(b) ==
    LET schema == tab[b].schema
    IN \E p \in Places(schema) : \E label \in Labels \ {FieldAt(schema, p).label} :
          dispatch(b, [schema EXCEPT ![p[1]].fields[p[2]].label = label])

EditOptions(b) ==
    LET schema == tab[b].schema
    IN \E p \in Places(schema) :
          /\ FieldAt(schema, p).type = "select"
          /\ \/ dispatch(b, AddOption(schema, p))
             \/ \E i \in DOMAIN FieldAt(schema, p).options :
                   \/ \E value \in Options \ {FieldAt(schema, p).options[i]} :
                         dispatch(b, EditOption(schema, p, i, value))
                   \/ /\ Len(FieldAt(schema, p).options) > 1
                      /\ dispatch(b, RemoveOption(schema, p, i))

(* Where a drop can land: on a field, or on a section, after its fields.   *)
DropTargets(schema) ==
    Places(schema) \cup {<<s, Len(schema[s].fields) + 1>> : s \in DOMAIN schema}

DropPalette(b) ==
    LET schema == tab[b].schema
    IN \E to \in DropTargets(schema), type \in FieldTypes :
          dispatch(b, AddField(schema, to[1], type, to[2], acts + 1))

(* On its own section's area the place is past the end: nothing is moved.  *)
DropField(b) ==
    LET schema == tab[b].schema
    IN \E p \in Places(schema), to \in DropTargets(schema) :
          p # to /\ dispatch(b, IF to[1] = p[1] THEN ReorderField(schema, p[1], p[2], to[2])
                           ELSE MoveField(schema, p, to[1], to[2]))

DropSection(b) ==
    LET schema == tab[b].schema
    IN \E s, to \in DOMAIN schema : s # to /\ dispatch(b, MoveWithin(schema, s, to))

(* The name; its input is closed while a save is under way.                *)
ChangeName(b, named) ==
    /\ ~tab[b].saving
    /\ tab[b].page = "builder"
    /\ acts < MaxActs
    /\ acts' = acts + 1
    /\ tab' = [tab EXCEPT ![b].named = named, ![b].dirty = TRUE,
                          ![b].status = IF @ = "saved" THEN "idle" ELSE @]
    /\ UNCHANGED <<published, saves, report, view, views>>

----------------------------------------------------------------------------
(* Saving.  An unnamed template is not sent.                               *)
Save(b) ==
    /\ tab[b].page = "builder"
    /\ ~tab[b].saving
    /\ IF tab[b].named
       THEN /\ Len(saves) < MaxSaves
            /\ saves' = Append(saves, [by |-> tab[b].mount, template |-> tab[b].template,
                                       schema |-> tab[b].schema, state |-> "sent", into |-> None])
            /\ tab' = [tab EXCEPT ![b].saving = TRUE, ![b].status = "idle"]
       ELSE /\ tab' = [tab EXCEPT ![b].status = "error"]
            /\ UNCHANGED saves
    /\ UNCHANGED <<published, report, view, acts, views>>

(* Mutant: the schema is replaced and the revision stays.                  *)
Update_SameRevision(t, schema) ==
    [published EXCEPT ![t] = Append(SubSeq(@, 1, Len(@) - 1), schema)]

(* One statement: the new schema and the next revision, or a new row.      *)
Update(t, schema) == [published EXCEPT ![t] = Append(@, schema)]

Store(i) ==
    /\ saves[i].state = "sent"
    /\ Validate(saves[i].schema)
    /\ \E t \in Templates :
          /\ IF saves[i].template = None THEN t \notin Stored ELSE t = saves[i].template
          /\ published' = Update(t, saves[i].schema)
          /\ saves' = [saves EXCEPT ![i] = [@ EXCEPT !.state = "stored", !.into = t, !.schema = NoSchema]]
    /\ UNCHANGED <<tab, report, view, acts, views>>

(* Refused by the validator, or by a fault before or after the statement.  *)
Fail(i) ==
    /\ saves[i].state \in {"sent", "stored"}
    /\ saves' = [saves EXCEPT ![i] = [@ EXCEPT !.state = "failed", !.into = None, !.schema = NoSchema]]
    /\ UNCHANGED <<published, tab, report, view, acts, views>>

Waiting(b, i) == tab[b].page = "builder" /\ saves[i].by = tab[b].mount /\ tab[b].saving

Saved(b, i) ==
    /\ Waiting(b, i) /\ saves[i].state = "stored"
    /\ saves' = [saves EXCEPT ![i].state = "heard"]
    /\ tab' = [tab EXCEPT ![b].template = saves[i].into, ![b].dirty = FALSE,
                          ![b].status = "saved", ![b].saving = FALSE]
    /\ UNCHANGED <<published, report, view, acts, views>>

NotSaved(b, i) ==
    /\ Waiting(b, i) /\ saves[i].state = "failed"
    /\ saves' = [saves EXCEPT ![i].state = "heard"]
    /\ tab' = [tab EXCEPT ![b].status = "error", ![b].saving = FALSE]
    /\ UNCHANGED <<published, report, view, acts, views>>

----------------------------------------------------------------------------
(* A report: the template is read, then the row is written with what was   *)
(* read.  What its fields are given is checked against its own schema.     *)
LoadTemplate(r, t) ==
    /\ report[r].stage = "absent" /\ t \in Stored
    /\ report' = [report EXCEPT ![r] =
            [stage |-> "loaded", template |-> t, revision |-> Revision(t),
             snapshot |-> Current(t), values |-> << >>]]
    /\ UNCHANGED <<published, tab, saves, view, acts, views>>

InsertReport(r) ==
    /\ report[r].stage = "loaded"
    /\ report' = [report EXCEPT ![r].stage = "draft"]
    /\ UNCHANGED <<published, tab, saves, view, acts, views>>

FillReport(r, ids) ==
    /\ report[r].stage = "draft"
    /\ ids \subseteq collectFieldIds(report[r].snapshot)
    /\ report' = [report EXCEPT ![r].values = [id \in ids |->
                        (CHOOSE field \in FieldsOf(report[r].snapshot) : field.id = id).birth]]
    /\ UNCHANGED <<published, tab, saves, view, acts, views>>

----------------------------------------------------------------------------
(* The dashboard's two queries.                                            *)
LoadColumns(t) ==
    /\ t \in Stored
    /\ views < MaxViews
    /\ views' = views + 1
    /\ view' = [stage |-> "columns", template |-> t, revision |-> Revision(t),
                columns |-> Current(t), rows |-> {}]
    /\ UNCHANGED <<published, tab, saves, report, acts>>

(* Mutant: only older revisions are flagged.                               *)
StaleIfOlder(r) == report[r].revision < view.revision

StaleRevision(r) == report[r].revision # view.revision

LoadRows ==
    /\ view.stage = "columns"
    /\ view' = [view EXCEPT !.stage = "shown", !.rows =
          {[report |-> r, stale |-> StaleRevision(r),
            cells |-> buildRow(view.columns, report[r].values)] :
                r \in {q \in Reports : report[q].stage = "draft" /\ report[q].template = view.template}}]
    /\ UNCHANGED <<published, tab, saves, report, acts, views>>

----------------------------------------------------------------------------
Open(b) ==
    \/ OpenNew(b) \/ Loaded(b) \/ Reload(b) \/ Leave(b)
    \/ \E t \in Templates : OpenFromList(b, t) \/ Visit(b, t)

Edit(b) ==
    \/ EditSections(b) \/ EditFields(b) \/ EditOptions(b)
    \/ DropPalette(b) \/ DropField(b) \/ DropSection(b)
    \/ \E named \in BOOLEAN : ChangeName(b, named)

Serve(i) == i \in DOMAIN saves /\ (Store(i) \/ Fail(i))
Hear(i) == i \in DOMAIN saves /\ \E b \in Builders : Saved(b, i) \/ NotSaved(b, i)

Report(r) ==
    \/ \E t \in Templates : LoadTemplate(r, t)
    \/ InsertReport(r)
    \/ \E ids \in SUBSET collectFieldIds(report[r].snapshot) : FillReport(r, ids)

Next ==
    \/ \E b \in Builders : Open(b) \/ Edit(b) \/ Save(b)
    \/ \E i \in 1 .. MaxSaves : Serve(i) \/ Hear(i)
    \/ \E r \in Reports : Report(r)
    \/ \E t \in Templates : LoadColumns(t)
    \/ LoadRows

Spec == Init /\ [][Next]_vars

----------------------------------------------------------------------------
Pages == {"away", "loading", "builder"}
Tab == [page : Pages, url : Templates \cup {None}, nav : TemplateSchema,
        mount : 0 .. MaxActs, template : Templates \cup {None}, schema : TemplateSchema,
        named : BOOLEAN, dirty : BOOLEAN, saving : BOOLEAN, status : {"idle", "saved", "error"}]
SaveRequest == [by : 1 .. MaxActs, template : Templates \cup {None}, schema : TemplateSchema,
                state : {"sent", "stored", "failed", "heard"}, into : Templates \cup {None}]

(* Types; and a row of the dashboard has a cell for every column           *)
(* (dashboard/store.go, TableRow).                                         *)
TypeOK ==
    /\ \A t \in Templates : \A n \in DOMAIN published[t] : published[t][n] \in TemplateSchema
    /\ tab \in [Builders -> Tab]
    /\ saves \in Seq(SaveRequest)
    /\ \A r \in Reports :
          /\ report[r].stage \in {"absent", "loaded", "draft"}
          /\ report[r].template \in Templates \cup {None}
          /\ report[r].revision \in Nat
          /\ report[r].snapshot \in TemplateSchema
          /\ DOMAIN report[r].values \subseteq collectFieldIds(report[r].snapshot)
    /\ view.columns \in TemplateSchema
    /\ view.rows \subseteq [report : Reports, stale : BOOLEAN,
                            cells : [collectFieldIds(view.columns) -> SUBSET (0 .. MaxActs)]]
    /\ acts \in 0 .. MaxActs /\ views \in 0 .. MaxViews

(* However a schema is edited, its fields have ids of their own, so have   *)
(* its sections, and a list of options never runs empty: the validator has *)
(* nothing to refuse but what the user can see (builderReducer).           *)
IdsAreUnique ==
    \A b \in Builders :
        LET schema == tab[b].schema
        IN /\ UniqueFieldIds(schema)
           /\ \A s, z \in DOMAIN schema : schema[s].id = schema[z].id => s = z
           /\ \A field \in FieldsOf(schema) : field.type = "select" => field.options # << >>

(* Dropping a field or a section somewhere else changes the order alone: no*)
(* field is lost, doubled or altered (handleDragEnd, moveWithin).          *)
RearrangingKeepsFields ==
    [][\A b \in Builders : DropField(b) \/ DropSection(b) =>
          /\ FieldsOf(tab[b].schema)' = FieldsOf(tab[b].schema)
          /\ Cardinality(Places(tab[b].schema)') = Cardinality(Places(tab[b].schema))]_vars

(* Whatever is saved while a report is created or after, its snapshot is   *)
(* the schema its template had at the revision the report names            *)
(* (reports/store.go, Create; templates/store.go, Update).                 *)
SnapshotIsPinned ==
    \A r \in Reports : report[r].stage # "absent" =>
        report[r].snapshot = published[report[r].template][report[r].revision]

(* A row that is not flagged stale shows, in each column, what was given   *)
(* for that very field, though columns and rows are read apart             *)
(* (dashboard/handler.go, buildView).                                      *)
FreshRowsMatchColumns ==
    \A row \in view.rows : ~row.stale =>
        \A column \in FieldsOf(view.columns) : row.cells[column.id] \subseteq {column.birth}

(* A column shows a report's value for its own field, or the marker of     *)
(* none: a field added after the report was filled has no value            *)
(* (dashboard/cells.go, missingCell).                                      *)
ColumnShowsItsField ==
    \A row \in view.rows : \A column \in FieldsOf(view.columns) :
        row.cells[column.id] \subseteq {column.birth}

(* A builder that was told of the template it saved to saves to that one   *)
(* from then on: it creates one template, and only a create whose reply is *)
(* lost is made again (TemplateBuilderPage, handleSave, Req 5.1 and 5.3).  *)
SavesStayWithTheirTemplate ==
    \A i, j \in DOMAIN saves :
        /\ i < j /\ saves[i].by = saves[j].by
        /\ saves[i].state = "heard" /\ saves[i].into # None
        => saves[j].template = saves[i].into

(* An editor that is not marked dirty shows what is stored: any change of  *)
(* the schema since then marks it (TemplateBuilderPage, dispatch).         *)
CleanIsStored ==
    \A b \in Builders :
        tab[b].template # None /\ ~tab[b].dirty =>
            \E n \in DOMAIN published[tab[b].template] :
                published[tab[b].template][n] = tab[b].schema
=============================================================================
