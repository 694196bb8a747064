# Report-Mate: models, checks and proofs

Report-Mate lets a field technician fill in a service report, by hand or by talking to an
agent, and export it as a document; an administrator defines templates and manages workers.
A Go server keeps everything in PostgreSQL and writes exported documents to a directory; a
React application is its only client. This directory models the parts in which requests,
transactions, model calls and browser state interleave.

## 1. Inventory

Paths are below `src/backend/internal/` for the server and `src/frontend/src/` for the browser.

| component | state it keeps | operations | interacts with | what makes it correct |
|---|---|---|---|---|
| reports (`reports/`) | `service_reports`, `parts_used`, `attachments`, the export directory | create, read, draft save, save-and-export, fetch document | agent (writes drafts), editor | export is one step; the parts rows agree with the content; a document on record is whole; answers tell the truth; row locks are handed on |
| accounts and sessions (`accounts/`, `auth/`, `accountapi/`) | users, login addresses, sessions, company admin codes, worker join codes, attempt windows | login, logout, authenticate, two registrations, worker status, issue and revoke codes, profile edits | every other route, through the session cookie | a session that was ended opens nothing; a code makes no more accounts than it may; addresses are unique; a registration is all or nothing |
| agent (`agent/`) | none between requests: the transcript is carried by the client; in a run, a copy of the content | one-shot fill, conversation turn, five tools and the two that end a turn | gateway, reports, panel | bounded runs and questions; what it writes is valid and is what it filled; failed turns leave the draft alone |
| editor page and panel (`routes/ReportEditorRoute.tsx`, `pages/ReportEditor/`) | the load of the route and its cache, the form's content, the transcript, the phase of the panel, saves and prints under way | open, reload, leave, edit, save draft, save and export, print, send, answer | agent and reports routes | the form is that of its address; nothing typed is lost or sent twice; "saved" was saved; a press is one save; what the form saves is what the server accepts |
| voice input (`pages/ReportEditor/VoiceInput.tsx`) | recogniser and recorder, the microphone's stream, the text heard | start, result, stop, the recogniser's own end, clean-up | panel | what was said is committed once |
| templates (`templates/`) | `report_templates` with a revision | list, get, create, update | builder, reports, dashboard | what is stored is valid; a report keeps the schema and revision it was created with |
| template builder (`pages/TemplateBuilder/`) | the working schema, dirty, saving, the history entry's record | open, reload, reducer actions by controls and drops, save | templates | field ids are unique; a drag loses nothing; an edit is never marked saved when it was not |
| dashboard (`dashboard/`) | none | roll-ups, columns, count, rows, filter, CSV | templates and reports tables | a cell shows its own field's value, a row of another revision is flagged |
| dashboard pages (`pages/Dashboard/`) | the address with its filters and page, the search box, loads under way, the answer shown, downloads, the row that flashes | filter, search with a debounce, turn pages, go back, retry, download, open and make reports | dashboard, editor page | the page shows the answer to its address; it is empty only when nothing matches; it comes to rest |
| sign-in state (`auth/AuthProvider.tsx`, `routing/`) | user, session check under way, the latest operation, calls under way, the cookie, the address kept over a sign-in | restore, login, register, logout, end of a session, guards of the routes | accounts, every page | the operation begun last decides; browser and server agree; a sign-in lands on a page the user may see; every wait has its answer |
| account pages and API client (`pages/Profile/`, `pages/Workers/`, `pages/Login/`, `api/`) | one load and the saves of a page | load, retry, save profile, worker status, issue and revoke a code | sign-in state, accounts | as above |
| migrations (`db/`) | `schema_migrations` | apply what is missing, at start | everything | each migration once, in order, with its record |
| rate limiter (`auth/ratelimit.go`) | attempts per key and window | allow | login and registration | no more than the limit in a window |

The hard behaviours are: statements of concurrent transactions (reports, accounts); a file
written inside a transaction, crashes, commits whose reply is lost, power loss (reports); a run
of up to a minute between reading a draft and writing it (agent); three copies of one content,
in the form, in a turn and in the table (editor); answers and errors out of order, lost
connections and resends (panel, dashboard pages, sign-in); calls that outlive the page that made
them (editor page); effects that run twice (route); edits while a save is under way, and
templates saved between the two reads behind a report or a page of the dashboard (templates); an
event that overtakes the operation it answers (sign-in). `PROJECT.json` lists them line by line.

## 2. Modules

**ReportLedger** is what the reports package promises: content, status and documents per
report, with `Create`, `Save` and `Export` as indivisible steps.

**ReportStore** is the package itself, one process per HTTP request, one step per SQL statement
or file operation, in the order of the code.

| model | code |
|---|---|
| `row`, `partsUsed`, `attachments`, `files` | the three tables, committed, and the export directory |
| `Arrive`, `LoadRow`, `LoadParts`, `Admit`, `Refuse` | the handler up to the write: `loadOwned`, decoding, guards |
| `Begin`, `WriteRow`, `DeleteParts`, `InsertParts` | `withTx`, `updateReport`, `replaceParts` |
| `Reject`, `MarkExported`, `OpenFile`, `WriteFile`, `InsertAttachment` | `Exporter.SaveAndExport` and `writeExport` |
| `Commit`, `CommitUnanswered`, `Rollback`, `Fault` | the ends of `withTx`; a lost reply to COMMIT |
| `AgentSave`, `AgentStop` | an agent run, seen from the tables: load, a pause, one write |
| `LatestExport`, `ReadExport` | `handleExport` |
| `Crash`, `PowerLoss` | the process stops; the host stops with unflushed files |

A write in a transaction takes the row's lock, so the other statements of that transaction
touch only what it has locked; their effects are applied at `Commit` (`Apply`), which is when
anybody else can see them. `ReportStore` INSTANCEs `ReportLedger` under a refinement mapping:
the content as it reads back, the status, and the bytes of each attached file.

**CodeLedger** is the promise of authorization codes (issue, redeem, revoke, with a number of
uses); **Accounts** is the code: logins, logouts, authentication, registrations with their
`SELECT ... FOR UPDATE`, inserts that wait on unique keys, deadlocks that PostgreSQL breaks,
worker status changes and join codes, and the clock that expires codes and sessions.

**FieldRules** are the three readings of a value that have to agree: `validateValue` (every
write), `normalizeFillValue` (the agent's `fill_field`) and `fieldValueFromWire` (the form).
Texts are classes ("", blank, digits, too large, an offered option, others).

**Conversation** composes the form, the panel and the turns on the server over one draft.

| model | code |
|---|---|
| `stored`, `editor`, `panel`, `turns`, `save` | the content column; `content` of `ReportEditorPage`; the transcript, phase and input of `ConversationPanel`; each `agent-chat` request with its `RunInput`/`RunResult`; a PUT under way |
| `SetFieldValue`, `SaveDraft`, `DraftSaved`, `DraftNotSaved` | `setFieldValue`, `handleSaveDraft`, `handleUpdate` |
| `Send`, `Asked`, `Completed`, `Failed`, `ConnectionLost` | `handleSend` and its branches, `handleAgentResult` |
| `Refuse`, `Begin` | `loadOwnedDraft`, `validateTranscript`, the turn cap |
| `GatewayFails`, `ParseFailure`, `FillField`, `OtherTool`, `AskTechnician`, `CallSaveDraft`, `IterationCap` | one answer of the gateway in `Runner.Run` |
| `Persist`, `PersistFails`, `Reload` | `newPersistFunc`, the turn-end write, reading the record for the answer |

A turn whose connection broke goes on unheard, so a resend runs beside it. `ai` in a content
is history: the fields whose value the agent proposed. A turn that has its answer, or has
ended its loop, is stripped of what no later step reads.

**Schemas** are the pure functions over a template's schema: the builder's reducer, the
server's validator, the dashboard's columns and rows. **Templates** composes the tabs of the
builder, the templates table, reports that pin a revision, and a dashboard page.

| model | code |
|---|---|
| `tab` | a tab: the route, the record in its history entry, the state of `TemplateBuilderPage` |
| `published` | `report_templates`: every revision so far, the row has the last one |
| `OpenNew`, `OpenFromList`, `Visit`, `Loaded`, `Reload`, `Leave` | `TemplateBuilderRoute`, `handleOpen`, `getNavigatedTemplate` |
| `EditSections`, `EditFields`, `EditOptions`, `DropPalette`, `DropField`, `DropSection`, `ChangeName` | the controls, and the branches of `handleDragEnd`, each with the reducer case it dispatches |
| `Save`, `Saved`, `NotSaved` | `handleSave` before and after its await |
| `Store`, `Fail` | `handleCreate`, `handleUpdate` with `Validate`; a fault before or after the statement |
| `LoadTemplate`, `InsertReport`, `FillReport` | the reports handler: read the template, insert with its snapshot, save values |
| `LoadColumns`, `LoadRows` | the two reads of `buildView` |

Generated ids are their numbers. `birth` in a field is history: the edit that added it, so that
two fields that were given one id are told apart; a report's value is named by the birth of the
field it was given for.

**SignIn** is the browser's idea of who is signed in, beside the sessions and the cookie jar it
is about. Which answers arrive, and in what order, is the network's choice.

| model | code |
|---|---|
| `user`, `named`, `restoring`, `latest` | `AuthProvider`: the user, the identity shown, the session check, `operationRef` |
| `calls`, `clears`, `erasers`; `cookie`, `sessions` | fetches under way, the logouts sent only to clear a session; the cookie jar; the sessions table |
| `at`, `pending`, `page` | the address with the one kept in its state, the form submitted, the load and saves of an account page |
| `Login`, `Register`, `Logout`, `Follow`, `Reload` | `runUserAction`, `logout` and the pages that call them, links, a reload |
| `RequireAuth`, `RequireRole`, `PublicOnlyRoute`, `getPostLoginRoute` | the guards and `authNavigation.ts` |
| `LoadManagementData`, `LoadProfile`, `Retry`, `SaveProfile`, `UpdateWorkerStatus`, `GenerateCode`, `RevokeCode` | the calls of the account pages |
| `ServeSignIn`, `ServeLogout`, `ServeWithSession`, `ServeClear` | the auth handlers, `Authenticate`, `Require` |
| `Receive`, `ReceiveClear`, `Lose`, `LoseClear`, `EndSession`, `OtherTab` | an answer handled, `SESSION_INVALID_EVENT` included; lost answers; what ends or changes a session elsewhere |

`intent` and `astray` are history: what was last asked for, and whether operations overlapped,
an answer was lost or another tab changed the cookie. A request is one step of the
server here: the statements it is made of are `Accounts`' subject.

**Dashboard** is one tab on the dashboard pages and the report page between them.

| model | code |
|---|---|
| `at`, `past`, `box` | the address with its filters, the history behind it, `draft` and `committed` of `ReportFilters` |
| `latest`, `loads`, `screen` | `latestRequest`, fetches under way, the state of `useDashboardRollups` and `useTemplateReports` |
| `exporting`, `downloads`, `exportError`, `flashing` | `exporting` and `exportError` of `useTemplateReports`, row downloads, the highlighted row of `ReportTable` |
| `ViewReports`, `AllTemplates`, `OpenReport`, `NewReport`, `Back` | links |
| `PickStatus`, `Type`, `Debounce`, `clearFilters`, `Pagination`, `reload` | the filters, `goToOffset`, Refresh and Try again |
| `exportCsv`, `exportRow`, `downloadAsFile`, `dismissExportError`, `FlashEnds` | the downloads and the timer of the flash |
| `countReports`, `reports`, `rollups`, `Fail`; `Deliver` | `buildView`'s count and rows, the roll-ups, a failure; an answer handled |
| `createReport`, `saveAndExportReport`, `OtherTab` | what changes reports, and the way back to the row |

**Dictation** is the composer of the panel: text typed, text dictated, one message sent
(`composer`), `VoiceInput`'s recorder and recogniser (`voice`: `start`, `onresult`, `stop`,
`onend`), the microphone (`mic`: `GrantMic`, `DenyMic`), and what became of every word
(`transcript`, `gone`). **Editor** EXTENDS it with the page around it.

| model | code |
|---|---|
| `route`, `at`, `form` | the state of `ReportEditorRoute` and its cached load, the address, content and toolbar of `ReportEditorPage` |
| `calls`, `row` | fetches and prints under way, in the page, left behind or dropped by a reload; the reports as the server has them |
| `Go`, `Reload`, `Show`, `Effect`, `EffectRun` | going somewhere, the effect of a key with StrictMode's second run, its clean-up |
| `Deliver` | a load answered; a draft just made takes the page's address |
| `setFieldValue`, `setParts`, `loadFixture`, `handleSaveDraft`, `handleSaveAndExport` | the controls of the page |
| `DraftHeard`, `Resolved`, `Exported`, `ExportFailed`, `Printed` | what follows each `await`: `resolveExportTarget`, the export, `window.print` and its capped wait, the navigation |
| `Send`, `TurnHeard`, `Compose`, `Record` | the panel: `handleSend` and what follows it, `handleAgentResult`, the composer |
| `Serve`: `getReport`, `createReport`, `saveReport`, `agentChat`, `Refuse`; `OtherTab` | the server as the page sees it, and another tab's saves |

`Conversation` has the fields, the turns and the transcript of one draft on one page; `Editor` has
the pages, the calls that outlive them and the words, with a content for a number. `asks` and
`stored` are history: drafts asked for, texts the server took.

**MCReportStore**, **MCAccounts**, **MCConversation**, **MCTemplates**, **MCSignIn**,
**MCDashboard** and **MCEditor** hold the values of the instances. **ReportStoreProofs**,
**AccountsProofs**, **ConversationProofs**, **SchemasProofs**, **TemplatesProofs**,
**SignInProofs**, **DashboardProofs** and **EditorProofs** hold the proofs.

## 3. Runs

| run | question | bounds, and why they suffice |
|---|---|---|
| `store_exports` | is an export one step, and do the parts stay in step, with every failure, power loss included? | one report, three requests (two writers that race and a reader), two bodies that differ in values and parts; requests symmetric |
| `store_routes` | do tables and files implement `ReportLedger`, are the answers true, is every request answered? | two reports, one created in the run, two requests of all six kinds, incomplete, malformed and unstorable bodies; fair |
| `accounts_races` | does an ended session ever open anything, and do codes implement `CodeLedger`? | three requests of any kind, one admin and one worker, one company code of one use and one join code, four addresses, so that two registrations for one code clash over nothing else; requests and addresses symmetric; the clock stands still |
| `accounts_routes` | types and addresses, and is every request answered, deadlocks included? | two requests of every kind, two admins, two company codes, one of two uses, two addresses that registrations clash over, a clock past the expiry of codes and sessions; fair |
| `conversation` | do form, panel and turns keep transcript, draft and labels right? | two turns that may overlap, one edit, one save, two iterations, one number field, and a server on which the turn cap is the lower one or the question cap; fair |
| `templates` | do ids, drags, snapshots and unflagged rows hold while templates are saved? | one tab, one template there and one yet to be made, one report, three acts of the user, one save, one page of the dashboard; the first template has a section with a select and an empty one |
| `signin` | who is signed in, where do they land, what do they wait for, and does the cookie agree? | an admin and a worker, the addresses of login, registration and the two account pages, two calls at a time, two cookies, two clearing logouts, three acts |
| `dashboard` | does the page show the answer to its address, is "none" true, does it come to rest? | three reports on pages of two, one search that finds the first and the last, two loads, two entries of history, one row download, four acts; fair |
| `editor` | is the page true to its address and to what was saved, is every word kept once, does all end? | one report there and one to be made, two texts, two words, one question for the microphone, five acts; fair |

In `accounts_races` either code is good for one account and two registrations can both get as far as
their commit, so only the row and its count keep the second from succeeding. They are two
guards: without FOR UPDATE (`LockCodeNot`) TLC finds an account made with a code already revoked,
while a second use still fails at `ConsumeCode`, on the CHECK of the migration or on
`redeemed_at IS NULL`; without the count (`CommitAccountUncounted`) a code makes two accounts. No
property of that run asks about expiry, so its clock may stand still, and the proofs, which cover
every clock, include it.

Two turns suffice for a retry beside an unheard turn, for the last question and for the turn
cap. One number field suffices since the code treats fields independently; the number type is
the one where the agent's rule and the server's could differ most. One report and one page
suffice for a save on either side of each of their reads; three acts are opening an editor and
two edits, enough to remove a field and add one, and the proofs cover any number of tabs. Two
calls suffice for an operation that overtakes another, each with the clearing logout its failure
sends; two loads for answers in the wrong order; pages of two and three reports for a last page
that a filter empties. Five acts of the editor are, among others, opening a report, dictating,
sending, editing and leaving; two words tell one said from one typed.

Three runs end in a counterexample, each to a sentence of the repository:

| run | what the repository says | what happens |
|---|---|---|
| `store_agent_stale` | the agent never revises a finalized report in place | the status is checked before a run of up to a minute; an export during the run is overwritten |
| `templates_cells` | the marker in a cell is for a field the report has no value for, typically a column added later | the id of a field removed with its section is given to the next field added, whose column then shows the removed field's value in older (flagged) rows |
| `editor_print` | navigating first makes the user print a blank dashboard, so the page prints before it leaves | an export prints what is on the screen when it is answered; the form stays editable and the page can be left meanwhile, so the print may be of another content or another page |

Four more definitions and their configurations stand beside these runs, for the same kind of
reading, and TLC finds a counterexample to each:

| definition, configuration | what the repository says | what happens |
|---|---|---|
| `AgentKeepsManualValues`, `ReportStore_agentOver.cfg` | the agent does not overwrite what the technician entered (Req 5.5) | the run writes back the whole content it read, so a save made meanwhile is undone |
| `DeactivationEndsSessions`, `Accounts_deactivate.cfg` | a deactivation revokes the worker's sessions | a login under way inserts one that the revocation does not see; `Authenticate` refuses it while the worker is inactive |
| `TurnsWithinCap`, `Conversation_cap.cfg` | a cap on the number of turns in a conversation (Req 4.1) | only questions are counted; a technician who writes on after the agent is done runs any number of turns. With the default caps, 6 and 4, `turn_cap` cannot be reached |
| `CleanIsStored`, `Templates_clean.cfg` | any change of the schema marks the editor dirty | a save that returns clears the mark also of what was edited while it was under way |

Bounds are constants: request ids are used once (`Requests` of `ReportStore` and `Accounts`), the
clock stops at `MaxTime`, messages, edits and saves stop at `MaxSends`, `MaxEdits`, `MaxSaves`,
what users do at `MaxActs`, pages of the dashboard at `MaxViews`, history at `MaxPast`, texts and
words at `MaxTexts` and `MaxWords`, reports at `MaxIds` or `MaxReports`, row downloads at
`MaxDownloads`, questions for the microphone at `MaxQuestions`, clearing logouts at `MaxClears`.
Deadlock is not checked: when every id is used, every act done and every call answered, the models
stop, as they should; `EveryRequestEnds` and `Settles` are the properties that nothing stops before.

**Fairness.** `ReportStore` and `Accounts`: weak fairness of each request's steps, because a Go
handler runs until it returns, a lock is waited for only while its holder runs, and PostgreSQL
breaks deadlocks; a crash is never required and always possible. `Conversation`: weak fairness
of each turn's steps, because every gateway call is bounded by a timeout (an answer or
`GatewayFails`), of the answer or its loss reaching the browser, and of a draft save's end.
Nothing is assumed of the model: it may call useless tools for ever, and the iteration cap alone
ends the turn. `Dashboard`: weak fairness of each load's answer or failure and of its handler, and
of the timers (the debounce, the flash, the end of a download); nobody is made to click. `Editor`:
weak fairness of the network (a call is answered or fails, a handler runs once its answer is
there, the wait for a print is capped at a minute) and of a recogniser that was told to stop;
silence alone is not assumed to end a recording. `Templates` and `SignIn` state safety alone: no
fetch of the sign-in has a deadline, so what can be said of its waits is `EveryWaitHasItsAnswer`,
that each has a call under way whose answer ends it.

## 4. Proofs

Every theorem holds for any values of the constants that satisfy the assumptions named below, and
each is about the same definitions the runs check.

| module | theorems (property) |
|---|---|
| `ReportStoreProofs` | `TypeCorrect` (`TypeOK`), `PartsStayInStep` (`PartsInStep`), `ExportsAreOneStep` (`ExportIsOneStep`), `LocksAreLetGo` (`LockInv`), `RequestsOnlyGoForward` (`RequestsGoForward`), whatever fails; `ExportsHaveArtifacts` (`ExportedHasArtifact`), `AnswersHold` (`AnswersAreTrue`), `FetchesServeExports` (`FetchServesAnExport`), `StoreImplementsLedger` (`ImplementsLedger`), on the assumption `~PowerFails` |
| `AccountsProofs` | `TypeCorrect` (`TypeOK`), `NothingOpensAfterExit` (`NoEntryAfterExit`), `OldTokensAreOver` (`OldTokenIsOver`), `RegistrationsAreWhole` (`RegistrationIsWhole`), `AddressesAreUnique` (`EmailsAreUnique`), `CodesAreKept` (`ImplementsCodeLedger`), `LocksStayInOrder` (`LocksAreInOrder`), `RequestsOnlyGoForward` (`RequestsGoForward`) |
| `ConversationProofs` | `TypeCorrect` (`TypeOK`), `NoFillIsRejected` (`NothingIsRejected`), `QuestionsStayWithinCap` (`QuestionsWithinCap`), `LabelsAreHonest` (`FilledByIsHonest`), `TranscriptHolds` (`TranscriptIsTheConversation`), `TurnsWriteTheirFills` (`AgentWritesItsFills`), `TurnsOnlyGoForward` (`TurnsGoForward`); `FillIsLegal`, `EnteredIsLegal` and `ShownIsLegal` about `FieldRules` |
| `SchemasProofs` | what the reducer's operators do to a schema of any size: `NextIdIsNew`, `AddFieldKeeps`, `ReorderRearranges`, `MoveFieldRearranges`, `MoveSectionRearranges` |
| `TemplatesProofs` | `TypeCorrect` (`TypeOK`), `IdsStayUnique` (`IdsAreUnique`), `DropsKeepFields` (`RearrangingKeepsFields`), `SnapshotsArePinned` (`SnapshotIsPinned`), `FreshRowsMatch` (`FreshRowsMatchColumns`), `BuildersKeepTheirTemplate` (`SavesStayWithTheirTemplate`) |
| `SignInProofs` | `TypeCorrect` (`TypeOK`), `TheLastIntentDecides` (`LastIntentDecides`), `SignInLands` (`SignInLandsForGood`), `WaitsAreAnswered` (`EveryWaitHasItsAnswer`), `BrowserAgrees` (`BrowserAgreesWithServer`) |
| `DashboardProofs` | `TypeCorrect` (`TypeOK`), `TableAnswersTheAddress` (`TableAnswersTheUrl`), `EmptyTablesMeanNone` (`EmptyMeansNone`); `WindowHolds` about `Window` |
| `EditorProofs` | `TypeCorrect` (`TypeOK`), `WordsAreKept` (`DictationIsKept`), `ThePageIsTrue` (`PageIsTrue`), and `ImplementsDictation`: the page's composer behaves as `DictationSpec` |

**ReportStore.** `~PowerFails` is there because the code never flushes a file, so a document may be
lost with the host, and what it guards is then false. The inductive invariant is
`IInv == TableInv /\ FileInv`. `RouteInv` says which kinds of request reach which statement;
`LockInv` that a row lock is held by exactly the one transaction past its first write;
`ProgressInv` that under that lock the rows a transaction deleted are still all the rows, and that
its body passed the checks its commit relies on; `RowInv` that a stored row came from a body the
quantity column accepted; `PresentInv` that a report is created by the one request that knows its
id; `ExportInv` that an exported report has an attachment; `FileInv` that a file is complete before
the attachment that names it and never written again. Two more are added to it: `WrittenInv`, that
the file of a transaction past writing it holds the transaction's body, and `ToldInv`, that no
document is on record twice and that what a request looked up or answered still is. Each has a
lemma for one step, by the action taken. The refinement (`LedgerInit`, `LedgerStep`) maps a commit to `Create`, `Save` or `Export`
(`CommitMaps`) and every other step to a stutter, using `DocsKept` and `DocsAppended` for the
documents.

**Accounts.** `IInv` conjoins the types with `RouteInv` (who is at which statement), `FreshInv` (a
session or an account is made by the last step of the request it is named after), `PresentInv`
(what a request names is there), `EndedInv` (a login or a logout past its revocation has revoked the
old token, and a deactivation every session it must), `ClaimInv` with `EmailsAreUnique` (an address
a transaction has inserted is claimed by it and in no account), `CodeInv` (the code of a
registration under way is locked, open and has a use left), `SpentInv` (every use of a code is an
account), `WholeInv` (an account has its session and its code) and `NoEntryAfterExit`. The
refinement maps a commit that consumes a code to `Redeem`, a revocation to `Revoke`, the issue of a
join code to `Issue` and every other step to a stutter.

**Conversation.** `IInv == FormInv /\ TurnsInv /\ PanelInv /\ TranscriptInv`: contents are valid and
their labels honest wherever they are (form, table, turns, a save under way), each turn record is
sound for its stage and within the cap (`TurnInv`), the panel waits for the turn it sent, and turns
are used in order, so that no message is in a transcript twice. The three rules for a value agree by
`FillIsLegal`, `EnteredIsLegal` and `ShownIsLegal`, proved from `FieldRules` alone: what the agent or the form produces, the write accepts.

**Templates.** A row is right because the report and the page name one revision of one template,
so they have one schema (`ReportInv`, `ViewInv`), because revisions are kept and never rewritten
(`UpdateKeepsRevisions`), and because what the validator lets in has unique ids (`PublishedInv`),
so that an id names one field (`IdNamesField`).

What the reducer does is in `SchemasProofs`, for schemas of any size. A schema is `Sound` when ids
name one field and one section, no list of options is empty and no field is of a later edit. An
edit either draws on the fields there are, each at most once (`Drawn`: an injective map from the new
places to the old ones), or only moves them (`Rearranged`: a bijection that keeps each field), or
adds one under the least number no field has (`NextIdIsNew`); each keeps a schema sound. A drop is
`Rearranged` (`ReorderRearranges`, `MoveFieldRearranges`, `MoveSectionRearranges`), from what
`InsertAt`, `RemoveAt` and `MoveWithin` do to a list. `SoundInv` says that schemas are sound wherever
they are: stored, in an editor or its history entry, in a request, pinned by a report; without the
history entry a reload would bring back anything.

`SavesStayWithTheirTemplate` needs what the editor, its requests and the server know together
(`HistoryInv`): every mount has a number of its own; the saves of one mount are sent one at a time,
each once the one before has been heard of; a save of a template is stored in it; and an editor that
is still there waits for its last save or has the template its saves went to. Drop the guard that
one save is under way at a time and TLC shows a builder that creates two templates.

**SignIn.** `IInv == TypeOK /\ LastIntentDecides /\ LatestInv`: the latest operation, while there is
one, is the one whose account the user asked for. `WaitInv` adds that a wait is for a call of its
own kind and page. `AgreeInv` is the agreement at every moment, not only at rest: while nothing
overlapped, at most one operation is under way, alone, and what its answer will bring (`Brings`)
agrees with the sessions as they are by then (`Agreed`).

**Dashboard.** `IInv == TypeOK /\ LatestInv /\ ScreenInv /\ BoxInv`: the latest load asks for what
the address says, what is shown answers it, and what the box has passed on is in the address.
`TurnedInv` adds that a page is only turned to where a report was seen to be, and that an empty
answer beyond the first page is beyond the last report there was. It rests on a fact about windows
(`WindowHolds`): of more than `k` reports one has exactly `k` newer ones, by a least counterexample,
since the induction theorems of the library take an operator.

**Editor.** For the composer, `IInv == Typed /\ Kept /\ RestInv`: the words are parted among the five
places, a recogniser that is off has heard nothing and a panel that is not sending has nothing on
its way; every step moves whole texts, and every step of the page is one of the composer's or none
(`PageSteps`), which is the refinement too. For the page, `PageInv` says what each call under way is
about, whatever became of the page that made it: `CallsInv` (a call of the form is about the form's
report, an answered save about a text the server took, an answered draft about a report there is),
`LoadInv` (a page that is loading waits for one load, of its own address), `SavingInv` (a busy
form has one save under way, and no other) and `MadeInv` (the reports made and the drafts still
asked for are no more than what the user did to have them). The calls under way are numbered, not
in a sequence: what `SelectSeq` leaves of one is an induction over it.

**Half of liveness.** That every request and every turn ends is checked by TLC under fairness. What
does not need fairness is proved for any number of them, in three modules. Every step of a request
or a turn takes it down a finite rank (`StepsLeft`), and no step of another, of a crash or of the
clock takes one back up (`RequestsGoForward`, `TurnsGoForward`); so whatever has not ended is at a
step it waits at. A report's row lock is held by one transaction past its write, which waits for
nothing (`LockInv`). In `Accounts`, where a request may hold one lock and ask for another, whoever
it waits for is at work and has fewer locks ahead of it (`LocksAreInOrder`): a circle of waits would
be an endless descent, but for two registrations at their company address, the one's company
address being the other's personal one, and that circle PostgreSQL breaks (`BreakDeadlock`). It rests
on `WaitInv`: a lock or a claim is held only by a request at a step where it is allowed to (`Holds`),
a code about to be issued is in nobody else's request and not there (`Issues`), and every join code that is there was issued by one (`IssuedInv`). What is left to fairness is
that a step that may be taken is taken.

`LockInv`, `LocksAreInOrder`, `RequestsGoForward`, `TurnsGoForward` and `SavesStayWithTheirTemplate`
are in no standing run, where each would restate what liveness or the theorem says; TLC was asked
of each on the instance of a run (of `SavesStayWithTheirTemplate` with three saves and two tabs,
3,091,813 states) before it was proved.

The assumptions are those the constants carry, and TLC evaluates each in every run:
`ExistingAssumption`, `FieldsAssumption`, `NumericAssumption`, `KindsAssumption`,
`NobodyAssumption`, `PowerAssumption`, `BodiesAssumption`, `FileAssumption` (reports);
`PeopleAssumption`, `UsesAssumption`, `TimeAssumption` (accounts); `FieldsAssumption`,
`CapsAssumption` (conversation);
`BoundsAssumption`, `TemplatesAssumption`, `SeedAssumption` (templates);
`SignInAssumption`, `PathsAssumption`; `DashboardAssumption`, `InitialAssumption`;
`DictationAssumption`, `EditorAssumption`.

**Only model-checked.** Liveness (`EveryRequestEnds`, `Settles`), since fairness and ENABLED are out
of the prover's reach: its safety half above is proved, for `Settles` not even that. Every invariant
and action property of the runs that pass is a theorem.

## 5. Not modelled

- Job history and parts catalogue: lookups whose result is text for the model; a call of them is an
  iteration that changes nothing.
- HTTP plumbing, role checks, configuration, secrets, the development seed, mock services: stateless,
  read once or fixtures. Their refusals are the `Refuse` actions.
- Migrations: they run before anything here, one transaction per file.
- The rate limiter: one counter under one mutex; what it refuses is a refusal in `Accounts`.
- The one-shot assistant panel: no page mounts it. Its route is `ReportStore`'s agent request.

Within modelled parts, what no property tells apart: titles and customer names, the drawing of
signatures and photos, document and page layout, level bars and interim results of a recording,
token counts and prompts, a turn's flags and which fields are lit up, a field's flags and mapping,
profile edits on the server, the provisioning of company codes, the order and filters of lists,
the sums on the dashboard's tiles, the text of a CSV. The reducer's `removeField` (Req 3.7) is
dispatched by no control, so no action has it. The voice input has no way to cancel a recording.

Read off the code and in no property: which of two overlapping exports is the latest is left to the
start of their transactions (`reports/store.go:329`), and a read takes row and parts from two
statements (`store.go:379`); whether a code has expired is judged by the time the request came in
(`accounts/registration.go:215`); if reading the draft again fails, an answer carries it as it was
before the turn (`agent/handler.go:472`); a turn that runs out of iterations is written if it filled
a field, where Req 5.4 says otherwise (`agent/handler.go:433`); a reload of the builder opens the
record its history entry has (`TemplateBuilderRoute.tsx:44`), and a create whose reply is lost is
made again by the next save (`TemplateBuilderPage.tsx:206`); twice the rate limit may pass in a little
more than one window (`auth/ratelimit.go:37`); a microphone granted after the panel is gone stays
open (`mic.left` counts it; no property reads `mic`). A jump in the history straight from a report
that is shown to an abandoned `/reports/new` posts a draft and then returns to the report, since the
effect that replaces the address still has the old load (`routes/ReportEditorRoute.tsx:159`); no link
leads that way and `Editor`'s `Elsewhere` leaves it out. Nor are the two loads of the worker page
told apart, since it waits for both (`WorkerManagementPage.tsx:38`). The hazards without a property in `PROJECT.json` each say why.

## 6. What is left

- In `Conversation`, the form saved while the agent waits, with `EarlierFillsKept` (Req 5.1), the
  reload fallback, and Req 5.4 on the iteration cap.
- A composition of `Editor` and `SignIn`: what a session that ends takes from a form being filled.
- `Migrations` (two servers, crashes) and `RateLimiter` (fixed windows), small and apart from the rest.
