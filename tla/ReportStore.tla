---------------------------- MODULE ReportStore -----------------------------
(***************************************************************************)
(* The reports package under concurrent requests: creating, reading and    *)
(* draft-saving a report, save-and-export, fetching the exported document, *)
(* and the agent endpoint, which reads a report, runs for up to a minute   *)
(* and writes back.                                                        *)
(*                                                                         *)
(* One process per HTTP request.  Its steps are the statements the code    *)
(* sends, in the order it sends them, so the steps of two requests         *)
(* interleave wherever PostgreSQL (READ COMMITTED) lets them: a statement  *)
(* outside a transaction sees what is committed when it runs, a write in a *)
(* transaction waits for the row's lock, and becomes visible at commit.    *)
(* row, partsUsed and attachments are the three tables, committed; files   *)
(* is the export directory.                                                *)
(***************************************************************************)
EXTENDS Naturals, Sequences, FiniteSets

CONSTANTS
    Reports,     \* report ids
    Existing,    \* the reports that are already there at the start
    Requests,    \* request ids; each is used once, which bounds a behaviour
    Fields,      \* the fields of the schema snapshot
    Required,    \* the fields the schema requires
    Values,      \* what a field can hold, besides nothing
    Malformed,   \* the values that are not of their field's type
    None,        \* a field that holds nothing
    PartRows,    \* the rows a technician may enter in the Parts Used table
    AsNumeric,   \* what the NUMERIC quantity column makes of each of them
    Unstorable,  \* the result of AsNumeric for a quantity it cannot hold
    Missing,     \* a file that is not there
    Partial,     \* a file that is there and short
    Nobody,      \* no request at all
    Bodies,      \* the contents that arrive in a request body
    Kinds,       \* the routes in use
    PowerFails   \* whether the host may stop without flushing its page cache

ASSUME ExistingAssumption == Reports # {} /\ Existing \subseteq Reports
ASSUME FieldsAssumption ==
    /\ Required \subseteq Fields
    /\ Malformed \subseteq Values
    /\ None \notin Values
ASSUME NumericAssumption ==
    /\ AsNumeric \in [PartRows -> PartRows \cup {Unstorable}]
    /\ Unstorable \notin PartRows
    /\ \A p \in PartRows :
          AsNumeric[p] # Unstorable => AsNumeric[AsNumeric[p]] = AsNumeric[p]
Writing == {"create", "update", "export"}
ASSUME KindsAssumption == Kinds \subseteq Writing \cup {"get", "agent", "fetch"}
ASSUME NobodyAssumption == Nobody \notin Requests
ASSUME PowerAssumption == PowerFails \in BOOLEAN

Content == [values : [Fields -> Values \cup {None}], parts : SUBSET PartRows]
EmptyContent == [values |-> [f \in Fields |-> None], parts |-> {}]

ASSUME BodiesAssumption == Bodies \subseteq Content
ASSUME FileAssumption ==
    Missing # Partial /\ Missing \notin Content /\ Partial \notin Content

(* ValidateContent: a present value must be of its field's type and, when  *)
(* completeness is asked for, no required field may be empty.              *)
ValidateContent(c, requireComplete) ==
    /\ \A f \in Fields : c.values[f] \notin Malformed
    /\ requireComplete => \A f \in Required : c.values[f] # None

(* replaceParts then selectParts: a quantity goes through the column.      *)
Storable(parts) == \A p \in parts : AsNumeric[p] # Unstorable
Readable(c) == [c EXCEPT !.parts = {AsNumeric[p] : p \in @} \ {Unstorable}]
Complete(c) == ValidateContent(c, TRUE) /\ Storable(c.parts)

VARIABLES
    row,          \* service_reports: status and the content jsonb
    partsUsed,    \* parts_used: the rows of each report and who inserted them
    attachments,  \* attachments, in commit order: storage key and created_at
    files,        \* export directory; a file is named for the one export it is from
    lock,         \* the transaction that holds each report's row lock
    clock,        \* now(), read when a transaction begins
    pc, req       \* where each request is, and what it carries

tables == <<row, partsUsed, attachments>>
vars == <<row, partsUsed, attachments, files, lock, clock, pc, req>>

Answers == {"ok", "refused", "failed", "lost"}
InTx == {"write", "deleteParts", "insertParts", "mark", "openFile",
         "writeFile", "attach", "commit"}
Reading == {"loadRow", "loadParts", "admit", "agentRun", "latest", "readFile", "begin"}

Record == [status : {"absent", "draft", "exported"}, content : Content]
PartRecord == [by : Requests \cup {Nobody}, part : PartRows]
Request == [kind : Writing \cup {"get", "agent", "fetch"}, rep : Reports, body : Content,
            seen : Record,              \* what loadOwned read
            doomed : SUBSET PartRecord, \* the rows its DELETE saw
            stamp : Nat,                \* its transaction's now()
            key : Requests,             \* the storage key a fetch looked up
            got : {Missing, Partial} \cup Content]

Kind(q) == req[q].kind
Rep(q)  == req[q].rep
Body(q) == req[q].body

(* selectParts *)
PartsOf(r) == {x.part : x \in partsUsed[r]}

(* The report as a reader of both tables at one instant would see it.      *)
StoredContent(r) == [row[r].content EXCEPT !.parts = PartsOf(r)]

NewRequest(q, k, r, c) ==
    [kind |-> k, rep |-> r, body |-> c,
     seen |-> [status |-> "absent", content |-> EmptyContent],
     doomed |-> {}, stamp |-> 0, key |-> q, got |-> Missing]

Goto(q, l) == pc' = [pc EXCEPT ![q] = l]

-----------------------------------------------------------------------------
Init ==
    /\ row = [r \in Reports |->
                 [status |-> IF r \in Existing THEN "draft" ELSE "absent",
                  content |-> EmptyContent]]
    /\ partsUsed = [r \in Reports |-> {}]
    /\ attachments = [r \in Reports |-> << >>]
    /\ files = [q \in Requests |-> Missing]
    /\ lock = [r \in Reports |-> Nobody]
    /\ clock = 0
    /\ pc = [q \in Requests |-> "idle"]
    /\ req = [q \in Requests |->
                 NewRequest(q, "get", CHOOSE r \in Reports : TRUE, EmptyContent)]

(* A request arrives.  The report a create makes has an id nobody else has.*)
Arrive(q, k, r, c) ==
    /\ pc[q] = "idle"
    /\ c \in IF k \in Writing THEN Bodies ELSE {EmptyContent}
    /\ IF k = "create"
          THEN /\ row[r].status = "absent"
               /\ \A p \in Requests : Kind(p) = "create" => Rep(p) # r
               /\ Goto(q, "admit")
          ELSE Goto(q, "loadRow")
    /\ req' = [req EXCEPT ![q] = NewRequest(q, k, r, c)]
    /\ UNCHANGED <<tables, files, lock, clock>>

(* getReport reads the row and then the parts, in two statements that no   *)
(* transaction ties together.                                              *)
LoadRow(q) ==
    /\ pc[q] = "loadRow"
    /\ IF row[Rep(q)].status = "absent" THEN Goto(q, "refused") ELSE Goto(q, "loadParts")
    /\ req' = [req EXCEPT ![q].seen = row[Rep(q)]]
    /\ UNCHANGED <<tables, files, lock, clock>>

LoadParts(q) ==
    /\ pc[q] = "loadParts"
    /\ req' = [req EXCEPT ![q].seen.content.parts = PartsOf(Rep(q))]
    /\ Goto(q, "admit")
    /\ UNCHANGED <<tables, files, lock, clock>>

(* The rest of the handler's guards.  A draft save and a create validate   *)
(* the body first, save-and-export leaves that to its transaction, and the *)
(* agent starts on a draft only.                                           *)
Admit(q) ==
    /\ pc[q] = "admit"
    /\ \/ Kind(q) = "get"    /\ Goto(q, "ok")
       \/ Kind(q) = "fetch"  /\ Goto(q, "latest")
       \/ Kind(q) = "export" /\ Goto(q, "begin")
       \/ /\ Kind(q) \in {"create", "update"}
          /\ IF ValidateContent(Body(q), FALSE) THEN Goto(q, "begin") ELSE Goto(q, "refused")
       \/ /\ Kind(q) = "agent"
          /\ IF req[q].seen.status = "draft" THEN Goto(q, "agentRun") ELSE Goto(q, "refused")
    /\ UNCHANGED <<tables, files, lock, clock, req>>

(* Not signed in, not the owner, or a body that does not decode.           *)
Refuse(q) ==
    /\ pc[q] = "admit"
    /\ Goto(q, "refused")
    /\ UNCHANGED <<tables, files, lock, clock, req>>

(* The run ends with something to persist: values filled into the content  *)
(* it was started from, its parts carried along.                           *)
AgentSave(q, v) ==
    /\ pc[q] = "agentRun"
    /\ \A f \in Fields : v[f] = req[q].seen.content.values[f] \/ v[f] \in Values \ Malformed
    /\ LET c == [req[q].seen.content EXCEPT !.values = v] IN
          /\ req' = [req EXCEPT ![q].body = c]
          /\ IF ValidateContent(c, FALSE) THEN Goto(q, "begin") ELSE Goto(q, "refused")
    /\ UNCHANGED <<tables, files, lock, clock>>

(* The run times out, fails to parse, or stops with nothing to persist.    *)
AgentStop(q) ==
    /\ pc[q] = "agentRun"
    /\ Goto(q, "failed")
    /\ UNCHANGED <<tables, files, lock, clock, req>>

-----------------------------------------------------------------------------
(* The transaction: withTx around updateReport, and in a save-and-export   *)
(* the validation, the status, the file and the attachment after it.       *)
Begin(q) ==
    /\ pc[q] = "begin"
    /\ clock' = clock + 1
    /\ req' = [req EXCEPT ![q].stamp = clock']
    /\ Goto(q, "write")
    /\ UNCHANGED <<tables, files, lock>>

(* Mutation: the parts are replaced before the row is locked.              *)
WriteRowUnlocked(q) ==
    /\ pc[q] = "write"
    /\ Goto(q, "deleteParts")
    /\ UNCHANGED <<tables, files, lock, clock, req>>

(* INSERT or UPDATE service_reports: waits for the row.                    *)
WriteRow(q) ==
    /\ pc[q] = "write"
    /\ lock[Rep(q)] = Nobody
    /\ lock' = [lock EXCEPT ![Rep(q)] = q]
    /\ Goto(q, "deleteParts")
    /\ UNCHANGED <<tables, files, clock, req>>

(* Mutation: the old rows are not deleted.                                 *)
DeletePartsForgotten(q) ==
    /\ pc[q] = "deleteParts"
    /\ Goto(q, "insertParts")
    /\ UNCHANGED <<tables, files, lock, clock, req>>

DeleteParts(q) ==
    /\ pc[q] = "deleteParts"
    /\ req' = [req EXCEPT ![q].doomed = partsUsed[Rep(q)]]
    /\ Goto(q, "insertParts")
    /\ UNCHANGED <<tables, files, lock, clock>>

(* Mutation: no column stands in the way of an unstorable quantity.        *)
InsertPartsUnchecked(q) ==
    /\ pc[q] = "insertParts"
    /\ Goto(q, IF Kind(q) = "export" THEN "mark" ELSE "commit")
    /\ UNCHANGED <<tables, files, lock, clock, req>>

InsertParts(q) ==
    /\ pc[q] = "insertParts"
    /\ Storable(Body(q).parts)
    /\ Goto(q, IF Kind(q) = "export" THEN "mark" ELSE "commit")
    /\ UNCHANGED <<tables, files, lock, clock, req>>

(* Mutation: markExported is given the database, not the transaction.      *)
MarkExportedOutside(q) ==
    /\ pc[q] = "mark"
    /\ ValidateContent(Body(q), TRUE)
    /\ row' = [row EXCEPT ![Rep(q)].status = "exported"]
    /\ Goto(q, "openFile")
    /\ UNCHANGED <<partsUsed, attachments, files, lock, clock, req>>

(* Mutation: an export is validated like a draft save.                     *)
MarkExportedUnvalidated(q) ==
    /\ pc[q] = "mark"
    /\ ValidateContent(Body(q), FALSE)
    /\ Goto(q, "openFile")
    /\ UNCHANGED <<tables, files, lock, clock, req>>

(* ValidateContent(..., true), then markExported.                          *)
MarkExported(q) ==
    /\ pc[q] = "mark"
    /\ ValidateContent(Body(q), TRUE)
    /\ Goto(q, "openFile")
    /\ UNCHANGED <<tables, files, lock, clock, req>>

(* writeExport: the file is there, and short, before it is whole.          *)
OpenFile(q) ==
    /\ pc[q] = "openFile"
    /\ files' = [files EXCEPT ![q] = Partial]
    /\ Goto(q, "writeFile")
    /\ UNCHANGED <<tables, lock, clock, req>>

WriteFile(q) ==
    /\ pc[q] = "writeFile"
    /\ files' = [files EXCEPT ![q] = Body(q)]
    /\ Goto(q, "attach")
    /\ UNCHANGED <<tables, lock, clock, req>>

InsertAttachment(q) ==
    /\ pc[q] = "attach"
    /\ Goto(q, "commit")
    /\ UNCHANGED <<tables, files, lock, clock, req>>

(* Mutation: a draft save writes the status as well.                       *)
ApplyStatusToo(q) ==
    LET r == Rep(q)
        inserted == {[by |-> q, part |-> AsNumeric[p]] : p \in Body(q).parts}
    IN  /\ row' = [row EXCEPT ![r] =
                     [status |-> IF Kind(q) = "export" THEN "exported" ELSE "draft",
                      content |-> Body(q)]]
        /\ partsUsed' = [partsUsed EXCEPT ![r] = (@ \ req[q].doomed) \cup inserted]
        /\ attachments' =
              IF Kind(q) = "export"
                 THEN [attachments EXCEPT ![r] = Append(@, [key |-> q, stamp |-> req[q].stamp])]
                 ELSE attachments

(* What the transaction did becomes visible, all of it in one step.        *)
Apply(q) ==
    LET r == Rep(q)
        inserted == {[by |-> q, part |-> AsNumeric[p]] : p \in Body(q).parts}
    IN  /\ row' = [row EXCEPT ![r] =
                     [status |-> CASE Kind(q) = "export" -> "exported"
                                   [] Kind(q) = "create" -> "draft"
                                   [] OTHER -> row[r].status,
                      content |-> Body(q)]]
        /\ partsUsed' = [partsUsed EXCEPT ![r] = (@ \ req[q].doomed) \cup inserted]
        /\ attachments' =
              IF Kind(q) = "export"
                 THEN [attachments EXCEPT ![r] = Append(@, [key |-> q, stamp |-> req[q].stamp])]
                 ELSE attachments

(* Mutation: the transaction is left open.                                 *)
UnlockForgotten(q) == UNCHANGED lock

Unlock(q) == lock' = [r \in Reports |-> IF lock[r] = q THEN Nobody ELSE lock[r]]

Commit(q) ==
    /\ pc[q] = "commit"
    /\ Apply(q)
    /\ Unlock(q)
    /\ Goto(q, "ok")
    /\ UNCHANGED <<files, clock, req>>

(* COMMIT takes effect but its reply does not arrive: a 500 to the client. *)
CommitUnanswered(q) ==
    /\ pc[q] = "commit"
    /\ Apply(q)
    /\ Unlock(q)
    /\ Goto(q, "failed")
    /\ UNCHANGED <<files, clock, req>>

(* Mutation: withTx drops the error.                                       *)
RollbackSilent(q, answer) ==
    /\ Unlock(q)
    /\ Goto(q, "ok")
    /\ UNCHANGED <<tables, files, clock, req>>

(* withTx's deferred Rollback.  What is on disk stays there.               *)
Rollback(q, answer) ==
    /\ Unlock(q)
    /\ Goto(q, answer)
    /\ UNCHANGED <<tables, files, clock, req>>

(* The column refuses a quantity (a 500), or the report is incomplete (a 422). *)
Reject(q) ==
    /\ \/ pc[q] = "insertParts" /\ ~ Storable(Body(q).parts)
       \/ pc[q] = "mark" /\ ~ ValidateContent(Body(q), TRUE)
    /\ Rollback(q, IF pc[q] = "mark" THEN "refused" ELSE "failed")

(* An error from a statement or from the disk, or the client going away,   *)
(* at any point of the transaction.                                        *)
Fault(q) == pc[q] \in InTx /\ Rollback(q, "failed")

-----------------------------------------------------------------------------
(* LatestExport: ORDER BY created_at DESC LIMIT 1.  created_at defaults to *)
(* now(), the time the exporting transaction BEGAN.                        *)
Newest(r) ==
    {i \in DOMAIN attachments[r] :
        \A j \in DOMAIN attachments[r] : attachments[r][j].stamp <= attachments[r][i].stamp}

(* Mutation: the export directory is listed instead of the table.          *)
LatestFile(q) ==
    /\ pc[q] = "latest"
    /\ \E p \in Requests :
          /\ files[p] # Missing
          /\ req' = [req EXCEPT ![q].key = p]
    /\ Goto(q, "readFile")
    /\ UNCHANGED <<tables, files, lock, clock>>

LatestExport(q) ==
    /\ pc[q] = "latest"
    /\ \/ /\ attachments[Rep(q)] = << >>
          /\ Goto(q, "refused")
          /\ UNCHANGED req
       \/ \E i \in Newest(Rep(q)) :
             /\ req' = [req EXCEPT ![q].key = attachments[Rep(q)][i].key]
             /\ Goto(q, "readFile")
    /\ UNCHANGED <<tables, files, lock, clock>>

ReadExport(q) ==
    /\ pc[q] = "readFile"
    /\ req' = [req EXCEPT ![q].got = files[req[q].key]]
    /\ Goto(q, IF files[req[q].key] = Missing THEN "failed" ELSE "ok")
    /\ UNCHANGED <<tables, files, lock, clock>>

-----------------------------------------------------------------------------
(* The server stops: PostgreSQL rolls its transactions back.  When the     *)
(* host itself stops, files the server wrote and nobody flushed may be     *)
(* gone or short while the commits are on disk.                            *)
Stop ==
    /\ pc' = [q \in Requests |-> IF pc[q] \in InTx \cup Reading THEN "lost" ELSE pc[q]]
    /\ lock' = [r \in Reports |-> Nobody]
    /\ UNCHANGED <<tables, clock, req>>

Crash == Stop /\ pc' # pc /\ UNCHANGED files

PowerLoss ==
    /\ PowerFails
    /\ Stop
    /\ \E gone \in SUBSET Requests :
          files' = [q \in Requests |-> IF q \in gone THEN Missing ELSE files[q]]

(* The steps the code takes by itself once the request is in.              *)
Step(q) ==
    \/ LoadRow(q) \/ LoadParts(q) \/ Admit(q)
    \/ AgentStop(q) \/ \E v \in [Fields -> Values \cup {None}] : AgentSave(q, v)
    \/ Begin(q) \/ WriteRow(q) \/ DeleteParts(q) \/ InsertParts(q) \/ MarkExported(q)
    \/ OpenFile(q) \/ WriteFile(q) \/ InsertAttachment(q) \/ Commit(q) \/ Reject(q)
    \/ LatestExport(q) \/ ReadExport(q)

Next ==
    \/ \E q \in Requests :
          \/ Step(q) \/ Refuse(q) \/ CommitUnanswered(q) \/ Fault(q)
          \/ \E k \in Kinds, r \in Reports, c \in Content : Arrive(q, k, r, c)
    \/ Crash
    \/ PowerLoss

Spec == Init /\ [][Next]_vars

(* The Go scheduler runs every handler, the agent run has a deadline, and  *)
(* PostgreSQL passes a row lock on when its holder ends; nothing obliges a *)
(* request to arrive, and no fault is ever owed.                           *)
FairSpec == Spec /\ \A q \in Requests : WF_vars(Step(q))
-----------------------------------------------------------------------------
TypeOK ==
    /\ row \in [Reports -> Record]
    /\ partsUsed \in [Reports -> SUBSET PartRecord]
    /\ attachments \in [Reports -> Seq([key : Requests, stamp : Nat])]
    /\ files \in [Requests -> {Missing, Partial} \cup Content]
    /\ lock \in [Reports -> Requests \cup {Nobody}]
    /\ clock \in Nat
    /\ pc \in [Requests -> {"idle"} \cup Reading \cup InTx \cup Answers]
    /\ req \in [Requests -> Request]

(* service.go: "a report marked exported with no artifact behind it is a   *)
(* lie".  An exported report has a document, and every document on record  *)
(* is on disk, whole, and shows a complete report.                         *)
ExportedHasArtifact ==
    \A r \in Reports :
        /\ row[r].status = "exported" => attachments[r] # << >>
        /\ \A i \in DOMAIN attachments[r] :
              LET file == files[attachments[r][i].key] IN file \in Content /\ Complete(file)

(* store.go, List: "every write path keeps the two in step".  The parts    *)
(* rows are those of the content jsonb, as the numeric column holds them,  *)
(* however many requests rewrote the table.                                *)
PartsInStep ==
    \A r \in Reports : StoredContent(r) = Readable(row[r].content)

(* What a fetch answers with is a whole and complete document of that very *)
(* report, from an export that committed: an orphaned or half-written file *)
(* is never served.                                                        *)
FetchServesAnExport ==
    \A q \in Requests :
        Kind(q) = "fetch" /\ pc[q] = "ok" =>
            /\ req[q].got \in Content /\ Complete(req[q].got)
            /\ \E i \in DOMAIN attachments[Rep(q)] : attachments[Rep(q)][i].key = req[q].key

(* An export the client was told of is on record exactly once and for good *)
(* with the document it submitted, and one that was refused, or that a     *)
(* crash cut off, has left nothing on record.                              *)
AnswersAreTrue ==
    \A q \in Requests, r \in Reports :
        LET mine == {i \in DOMAIN attachments[r] : attachments[r][i].key = q} IN
        /\ mine # {} => /\ Kind(q) = "export" /\ Rep(q) = r /\ Cardinality(mine) = 1
                        /\ pc[q] \in {"ok", "failed"}
        /\ pc[q] = "ok" /\ Kind(q) = "export" /\ Rep(q) = r =>
              mine # {} /\ files[q] = Body(q)

(* service.go, SaveAndExport: the saved content, the status and the        *)
(* document appear together or not at all.  A report leaves draft, and a   *)
(* document is added, only in a step that also makes the document's content*)
(* the report's content; no step undoes an export.                         *)
ExportIsOneStep ==
    [][\A r \in Reports :
        /\ row[r].status = "exported" => row'[r].status = "exported"
        /\ row[r].status # row'[r].status /\ row'[r].status = "exported"
              => Len(attachments'[r]) = Len(attachments[r]) + 1
        /\ attachments'[r] # attachments[r] =>
              /\ row'[r].status = "exported"
              /\ attachments'[r] # << >> /\ SubSeq(attachments'[r], 1, Len(attachments[r])) = attachments[r]
              /\ files'[attachments'[r][Len(attachments'[r])].key] = row'[r].content]_vars

(* Whatever the interleaving, every request is answered or dies with the   *)
(* server: no row lock is left behind for others to wait on.               *)
EveryRequestEnds ==
    \A q \in Requests : pc[q] # "idle" ~> pc[q] \in Answers

(* A request only goes forward: no step takes it back or round again, not  *)
(* another request's and not a crash; and but for a host that stops with   *)
(* nothing under way, every step is one of a request.                      *)
StepsLeft(l) ==
    CASE l = "idle" -> 14 [] l = "loadRow" -> 13 [] l = "loadParts" -> 12 [] l = "admit" -> 11
      [] l = "agentRun" -> 10 [] l = "begin" -> 9 [] l = "write" -> 8 [] l = "deleteParts" -> 7
      [] l = "insertParts" -> 6 [] l = "mark" -> 5 [] l = "openFile" -> 4 [] l = "writeFile" -> 3
      [] l \in {"attach", "latest"} -> 2 [] l \in {"commit", "readFile"} -> 1 [] OTHER -> 0

RequestsGoForward ==
    [][/\ \A q \in Requests : pc'[q] = pc[q] \/ StepsLeft(pc'[q]) < StepsLeft(pc[q])
       /\ (\E q \in Requests : pc'[q] # pc[q]) \/ PowerFails]_vars

(* The tables and the export directory together behave as ReportLedger,    *)
(* whose creating, saving and exporting are indivisible.                   *)
Ledger == INSTANCE ReportLedger WITH
    content   <- [r \in Reports |-> StoredContent(r)],
    status    <- [r \in Reports |-> row[r].status],
    documents <- [r \in Reports |->
                     [i \in DOMAIN attachments[r] |-> files[attachments[r][i].key]]]

ImplementsLedger == Ledger!Spec

-----------------------------------------------------------------------------
(* Why these hold: the inductive invariant, in named parts.                *)

Locked == InTx \ {"write"}
Inserted == {"mark", "openFile", "writeFile", "attach", "commit"}
Exporting == {"mark", "openFile", "writeFile", "attach"}

(* Which requests get where.                                               *)
RouteInv ==
    \A q \in Requests :
        /\ pc[q] \in Exporting => Kind(q) = "export"
        /\ pc[q] \in {"begin"} \cup InTx => Kind(q) \in Writing \cup {"agent"}
        /\ pc[q] \in {"latest", "readFile"} => Kind(q) = "fetch"
        /\ pc[q] = "agentRun" => Kind(q) = "agent"

(* The row lock is held by the one transaction that is past its write: one *)
(* that waits for it waits for a transaction that waits for nobody.        *)
LockInv ==
    /\ \A q \in Requests : pc[q] \in Locked => lock[Rep(q)] = q
    /\ \A r \in Reports : lock[r] # Nobody => Rep(lock[r]) = r /\ pc[lock[r]] \in Locked

(* Under that lock, the rows a transaction deleted are all the rows, and   *)
(* what it has written so far will pass the checks its commit relies on.   *)
ProgressInv ==
    \A q \in Requests :
        /\ pc[q] \in Inserted \cup {"insertParts"} => req[q].doomed = partsUsed[Rep(q)]
        /\ pc[q] \in Inserted => Storable(Body(q).parts)
        /\ pc[q] \in {"openFile", "writeFile", "attach"} => ValidateContent(Body(q), TRUE)
        /\ pc[q] = "commit" /\ Kind(q) = "export" => ValidateContent(Body(q), TRUE)

(* A stored row came from a body whose quantities the column took.         *)
RowInv ==
    \A r \in Reports :
        /\ Storable(row[r].content.parts)
        /\ PartsOf(r) = {AsNumeric[p] : p \in row[r].content.parts}

(* A file is written before the attachment that names it, by the request   *)
(* it is named for, and that request is over once the attachment is there. *)
FileInv ==
    /\ \A q \in Requests :
          /\ pc[q] = "attach" => files[q] = Body(q)
          /\ pc[q] = "commit" /\ Kind(q) = "export" => files[q] = Body(q)
    /\ \A r \in Reports : \A i \in DOMAIN attachments[r] :
          LET k == attachments[r][i].key IN
          /\ pc[k] \in {"ok", "failed"} /\ Kind(k) = "export" /\ Rep(k) = r
          /\ files[k] = Body(k) /\ Complete(Body(k))

ExportInv == \A r \in Reports : row[r].status = "exported" => attachments[r] # << >>

(* A report is created once, by the only request that knows its id, and    *)
(* every other request at work on a report has found it there.             *)
PresentInv ==
    \A q \in Requests :
        /\ Kind(q) # "create" /\ pc[q] \in InTx \cup (Reading \ {"loadRow"})
              => row[Rep(q)].status # "absent"
        /\ Kind(q) = "create" /\ pc[q] \in InTx \cup Reading
              => row[Rep(q)].status = "absent"
        /\ \A p \in Requests :
              Kind(p) = "create" /\ Kind(q) = "create" /\ Rep(p) = Rep(q) => p = q

TableInv ==
    TypeOK /\ RouteInv /\ LockInv /\ ProgressInv /\ RowInv /\ ExportInv /\ PresentInv

(* FileInv is inductive only where a host never stops without flushing.    *)
IInv == TableInv /\ FileInv

-----------------------------------------------------------------------------
(* What the repository says and the code does not do.                      *)

(* agent/handler.go: only a draft is editable, "so the agent never revises *)
(* one in place": what the agent writes, it writes onto a draft.           *)
AgentWritesDraftsOnly ==
    [][\A q \in Requests :
        Kind(q) = "agent" /\ pc[q] = "commit" /\ pc'[q] = "ok"
            => row[Rep(q)].status = "draft"]_vars

(* agent-conversation Requirement 5.5: a value the technician entered is   *)
(* not overwritten by the agent: a field the run did not fill keeps the    *)
(* value it had when the run's write landed.                               *)
AgentKeepsManualValues ==
    [][\A q \in Requests :
        Kind(q) = "agent" /\ pc[q] = "commit" /\ pc'[q] = "ok" =>
            \A f \in Fields :
                Body(q).values[f] = req[q].seen.content.values[f]
                    => row'[Rep(q)].content.values[f] = row[Rep(q)].content.values[f]]_vars
=============================================================================
