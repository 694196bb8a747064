------------------------------- MODULE Dashboard -------------------------------
(***************************************************************************)
(* The dashboard pages of one tab: the roll-ups, the table of a template's *)
(* reports with its filters, pages, downloads and the row a saved report   *)
(* is shown at, and the report page between them, against a server whose   *)
(* reports change and whose answers come late, out of order or not at all. *)
(*                                                                         *)
(* The filters live in the address.  A place is an entry of the tab's      *)
(* history: "report" is the row to show on the table and the report opened *)
(* on the report page, 0 for none or one not created yet.  The two dates   *)
(* filter as the status does, what a search finds in a report does not     *)
(* change, and one template is enough: no link leads from one's table to   *)
(* another's.  The history: "counted" is how many reports the page showed   *)
(* there to be when it was turned, "whole" whether an answer's total and   *)
(* rows agree.                                                             *)
(***************************************************************************)
EXTENDS Integers, FiniteSets, Sequences

CONSTANTS MaxReports, PageSize,
          Searches, Finds,      \* texts searched for; the reports each finds
          Initial, Addresses,   \* reports and places a run begins with
          Requests, None,       \* ids of loads under way
          MaxPast, MaxDownloads,
          MaxActs               \* what users do, here and in other tabs

Ids == 1..MaxReports

ASSUME DashboardAssumption ==
    /\ MaxReports \in Nat /\ PageSize \in Nat \ {0}
    /\ "" \notin Searches /\ Finds \in [Searches -> SUBSET Ids]
    /\ Requests # {} /\ None \notin Requests
    /\ MaxPast \in Nat /\ MaxDownloads \in Nat /\ MaxActs \in Nat

VARIABLES status,       \* of each report, newest last
          at, past,     \* the address shown; those behind it
          box,          \* the search box: what is typed, what was passed on
          latest, loads, screen,
          exporting, downloads, exportError,
          flashing, acts
vars == <<status, at, past, box, latest, loads, screen,
          exporting, downloads, exportError, flashing, acts>>
export == <<exporting, downloads, exportError>>

Statuses == {"draft", "exported"}
Texts == Searches \cup {""}
Places == [page : {"dashboard", "table", "report"}, status : Statuses \cup {""}, q : Texts,
           offset : Nat, report : 0..MaxReports, counted : Nat]

ASSUME InitialAssumption ==
    /\ Initial \subseteq [Ids -> Statuses \cup {"absent"}]
    /\ \A address \in Addresses :
        /\ address \in Places /\ address.page # "report"
        /\ address.offset > 0 => address.counted > MaxReports

----------------------------------------------------------------------------
(* Addresses and what they ask the server for.                             *)
Place(page, report) ==
    [page |-> page, status |-> "", q |-> "", offset |-> 0, report |-> report, counted |-> 0]

(* The effect that loads depends on these alone.                           *)
Query(place) ==
    [page |-> place.page, status |-> place.status, q |-> place.q, offset |-> place.offset]

hasActiveFilters(place) == place.status # "" \/ place.q # ""

(* Mutant: a new filter keeps the page.                                    *)
FirstPage_SamePage(place) == [place EXCEPT !.report = 0, !.counted = 0]

FirstPage(place) == [place EXCEPT !.offset = 0, !.report = 0, !.counted = 0]

NoQuery == [page |-> "none", status |-> "", q |-> "", offset |-> 0]
NoView == [of |-> NoQuery, total |-> 0, rows |-> {}, whole |-> TRUE]
NoLoad == [stage |-> "none", answer |-> NoView]
Blank  == [loading |-> TRUE, error |-> FALSE, view |-> NoView]

Matching(query) ==
    {i \in Ids : /\ status[i] # "absent"
                 /\ query.status \in {"", status[i]}
                 /\ query.q # "" => i \in Finds[query.q]}

Window(found, offset) ==
    {i \in found : Cardinality({j \in found : j > i}) \in offset..(offset + PageSize - 1)}

----------------------------------------------------------------------------
(* What is on the screen.                                                  *)
Shown == at.page # "report" /\ ~screen.loading /\ ~screen.error
Rows == IF Shown /\ at.page = "table" THEN screen.view.rows ELSE {}

highlightMissing == at.report # 0 /\ Rows # {} /\ at.report \notin Rows
Flash(view, report) == IF report \in view.rows THEN report ELSE 0

Paged == Rows # {} /\ screen.view.total > PageSize
atEnd == at.offset + PageSize >= screen.view.total

Free == {r \in Requests : loads[r] = NoLoad}
Fresh == CHOOSE r \in Free : TRUE

Ask(place) ==
    /\ Free # {}
    /\ latest' = Fresh
    /\ loads' = [loads EXCEPT ![Fresh] =
                    [stage |-> "asked", answer |-> [NoView EXCEPT !.of = Query(place)]]]

(* A page appears: all its state is new.                                   *)
Arrive(place) ==
    /\ at' = place
    /\ IF place.page = "report" THEN latest' = None /\ UNCHANGED loads ELSE Ask(place)
    /\ screen' = Blank
    /\ box' = [draft |-> place.q, committed |-> place.q]
    /\ exporting' = FALSE /\ downloads' = 0 /\ exportError' = FALSE
    /\ flashing' = 0

(* Mutant: the box follows the address only when it has passed nothing on. *)
Resync_Never(b, q) == b

Resync(b, q) == IF q = b.committed THEN b ELSE [draft |-> q, committed |-> q]

(* The same page under another address.                                    *)
Turn(place, b) ==
    /\ at' = place
    /\ box' = Resync(b, place.q)
    /\ IF Query(place) = Query(at)
       THEN /\ UNCHANGED <<latest, loads, screen>>
            /\ flashing' = IF Rows = {} THEN 0
                           ELSE IF place.report = at.report THEN flashing
                           ELSE Flash(screen.view, place.report)
       ELSE Ask(place) /\ screen' = [screen EXCEPT !.loading = TRUE, !.error = FALSE]
            /\ flashing' = 0
    /\ UNCHANGED export

Act == acts < MaxActs /\ acts' = acts + 1
Push == Len(past) < MaxPast /\ past' = Append(past, at)
OnTable == at.page = "table"

----------------------------------------------------------------------------
(* A tab opened on the dashboard or on a table by its address, shared or   *)
(* kept.                                                                   *)
Init ==
    /\ status \in Initial
    /\ at \in Addresses
    /\ past = << >>
    /\ box = [draft |-> at.q, committed |-> at.q]
    /\ \E r \in {CHOOSE r \in Requests : TRUE} :
         /\ latest = r
         /\ loads = [q \in Requests |-> IF q # r THEN NoLoad
                     ELSE [stage |-> "asked", answer |-> [NoView EXCEPT !.of = Query(at)]]]
    /\ screen = Blank
    /\ exporting = FALSE /\ downloads = 0 /\ exportError = FALSE
    /\ flashing = 0 /\ acts = 0

(* Links.                                                                  *)
Follow(place) == Act /\ Push /\ Arrive(place) /\ UNCHANGED status

ViewReports == at.page = "dashboard" /\ Shown /\ Follow(Place("table", 0))
AllTemplates == at.page # "dashboard" /\ Follow(Place("dashboard", 0))
OpenReport == \E i \in Rows : Follow(Place("report", i))
NewReport == (OnTable \/ (at.page = "dashboard" /\ Shown)) /\ Follow(Place("report", 0))

Back ==
    /\ past # << >> /\ Act
    /\ past' = SubSeq(past, 1, Len(past) - 1)
    /\ LET place == past[Len(past)]
       IN IF place.page = at.page /\ at.page # "report" THEN Turn(place, box) ELSE Arrive(place)
    /\ UNCHANGED status

----------------------------------------------------------------------------
(* The filters and the pages.  A filter replaces the entry, a page adds one.*)
setFilters(place, b) == Turn(FirstPage(place), b) /\ UNCHANGED <<status, past>>

PickStatus == OnTable /\ Act /\ \E s \in (Statuses \cup {""}) \ {at.status} :
                                  setFilters([at EXCEPT !.status = s], box)

Type ==
    /\ OnTable /\ Act
    /\ \E text \in (Searches \cup {""}) \ {box.draft} : box' = [box EXCEPT !.draft = text]
    /\ UNCHANGED <<status, at, past, latest, loads, screen, export, flashing>>

(* Mutant: the timer runs only beside a table.                             *)
Armed_BesideTable == OnTable /\ Shown /\ box.draft # box.committed

Armed == OnTable /\ box.draft # box.committed

Debounce ==
    /\ Armed
    /\ setFilters([at EXCEPT !.q = box.draft], [box EXCEPT !.committed = box.draft])
    /\ UNCHANGED acts

clearFilters ==
    /\ OnTable /\ (hasActiveFilters(at) \/ highlightMissing) /\ Act
    /\ setFilters([at EXCEPT !.status = "", !.q = ""], box)

(* The reports there are by what the page shows: its total, unless rows    *)
(* that were read after it are beyond that.                                *)
Seen == IF screen.view.total > at.offset THEN screen.view.total ELSE at.offset + Cardinality(Rows)

goToOffset(offset) ==
    /\ Act /\ Push
    /\ Turn([FirstPage(at) EXCEPT !.offset = offset,
                                  !.counted = IF offset = 0 THEN 0 ELSE Seen], box)
    /\ UNCHANGED status

(* Mutant: the page before the first.                                      *)
Before_Below(offset) == offset - PageSize

Before(offset) == IF offset < PageSize THEN 0 ELSE offset - PageSize

Pagination == Paged /\ \/ at.offset > 0 /\ goToOffset(Before(at.offset))
                       \/ ~atEnd /\ goToOffset(at.offset + PageSize)

(* Refresh, or Try again.                                                  *)
reload ==
    /\ at.page # "report" /\ ~screen.loading /\ (OnTable => screen.error) /\ Act
    /\ Ask(at)
    /\ screen' = [screen EXCEPT !.loading = TRUE, !.error = FALSE]
    /\ flashing' = 0
    /\ UNCHANGED <<status, at, past, box, export>>

FlashEnds == flashing # 0 /\ flashing' = 0
             /\ UNCHANGED <<status, at, past, box, latest, loads, screen, export, acts>>

----------------------------------------------------------------------------
(* Downloads.  The button looks at the total of the last answer shown.     *)
rest == <<status, at, past, box, latest, loads, screen, flashing>>

exportCsv ==
    /\ OnTable /\ ~exporting /\ screen.view.total # 0 /\ Act
    /\ exporting' = TRUE /\ exportError' = FALSE
    /\ UNCHANGED <<downloads, rest>>

exportRow ==
    /\ Rows # {} /\ downloads < MaxDownloads /\ Act
    /\ downloads' = downloads + 1 /\ exportError' = FALSE
    /\ UNCHANGED <<exporting, rest>>

dismissExportError ==
    /\ exportError /\ Act
    /\ exportError' = FALSE
    /\ UNCHANGED <<exporting, downloads, rest>>

downloadAsFile ==
    /\ \/ exporting /\ exporting' = FALSE /\ UNCHANGED downloads
       \/ downloads > 0 /\ downloads' = downloads - 1 /\ UNCHANGED exporting
    /\ exportError' \in {exportError, TRUE}
    /\ UNCHANGED <<rest, acts>>

----------------------------------------------------------------------------
(* The server.  It counts first and reads the rows after.                  *)
Served == <<status, at, past, box, latest, screen, export, flashing, acts>>

countReports(r) ==
    /\ loads[r].stage = "asked" /\ loads[r].answer.of.page = "table"
    /\ loads' = [loads EXCEPT ![r].stage = "counted",
                              ![r].answer.total = Cardinality(Matching(loads[r].answer.of))]
    /\ UNCHANGED Served

reports(r) ==
    /\ loads[r].stage = "counted"
    /\ LET found == Matching(loads[r].answer.of)
       IN loads' = [loads EXCEPT ![r].stage = "answered",
                        ![r].answer.rows = Window(found, loads[r].answer.of.offset),
                        ![r].answer.whole = loads[r].answer.total = Cardinality(found)]
    /\ UNCHANGED Served

(* One statement counts all the reports, and the drafts among them.        *)
rollups(r) ==
    /\ loads[r].stage = "asked" /\ loads[r].answer.of.page = "dashboard"
    /\ LET found == Matching(loads[r].answer.of)
       IN loads' = [loads EXCEPT ![r].stage = "answered",
                        ![r].answer.total = Cardinality(found),
                        ![r].answer.rows = {i \in found : status[i] = "draft"}]
    /\ UNCHANGED Served

Fail(r) ==
    /\ loads[r].stage \in {"asked", "counted"}
    /\ loads' = [loads EXCEPT ![r].stage = "failed", ![r].answer.total = 0]
    /\ UNCHANGED Served

(* Mutant: any answer is taken for the last one's.                         *)
IsLatest_Any(r) == at.page # "report"

(* active && requestId === latestRequest.current                           *)
IsLatest(r) == r = latest

(* A table drops the rows it had; the dashboard keeps its cards, unseen.   *)
Failed(old) == [loading |-> FALSE, error |-> TRUE,
                view |-> IF OnTable THEN NoView ELSE old.view]

Deliver(r) ==
    /\ loads[r].stage \in {"answered", "failed"}
    /\ loads' = [loads EXCEPT ![r] = NoLoad]
    /\ IF ~IsLatest(r) THEN UNCHANGED <<latest, screen, flashing>>
       ELSE /\ latest' = None
            /\ screen' = IF loads[r].stage = "failed" THEN Failed(screen)
                         ELSE [loading |-> FALSE, error |-> FALSE, view |-> loads[r].answer]
            /\ flashing' = IF OnTable THEN Flash(screen'.view, at.report) ELSE 0
    /\ UNCHANGED <<status, at, past, box, export, acts>>

----------------------------------------------------------------------------
(* Reports change: on the report page, and in other tabs.                  *)
Newest == Cardinality({i \in Ids : status[i] # "absent"})

Create == Newest < MaxReports /\ status' = [status EXCEPT ![Newest + 1] = "draft"]

createReport ==
    /\ at.page = "report" /\ at.report = 0 /\ Act
    /\ Create
    /\ at' = [at EXCEPT !.report = Newest + 1]
    /\ UNCHANGED <<past, box, latest, loads, screen, export, flashing>>

(* The report page leads back to the table, at the report's row.           *)
saveAndExportReport ==
    /\ at.page = "report" /\ at.report # 0 /\ Act /\ Push
    /\ status' = [status EXCEPT ![at.report] = "exported"]
    /\ Arrive(Place("table", at.report))

OtherTab ==
    /\ Act
    /\ Create \/ \E i \in Ids : status[i] = "draft" /\ status' = [status EXCEPT ![i] = "exported"]
    /\ UNCHANGED <<at, past, box, latest, loads, screen, export, flashing>>

----------------------------------------------------------------------------
DashboardPage == ViewReports \/ AllTemplates \/ NewReport \/ OpenReport \/ Back \/ reload
ReportFilters == PickStatus \/ Type \/ Debounce \/ clearFilters
Downloads == exportCsv \/ exportRow \/ dismissExportError \/ downloadAsFile
Changes == createReport \/ saveAndExportReport \/ OtherTab
Server(r) == countReports(r) \/ reports(r) \/ rollups(r) \/ Fail(r)

Next ==
    \/ DashboardPage \/ ReportFilters \/ Pagination \/ FlashEnds \/ Downloads \/ Changes
    \/ \E r \in Requests : Server(r) \/ Deliver(r)

(* Every call is answered or lost, and timers fire.                        *)
Fairness ==
    /\ \A r \in Requests : WF_vars(Server(r)) /\ WF_vars(Deliver(r))
    /\ WF_vars(Debounce) /\ WF_vars(FlashEnds) /\ WF_vars(downloadAsFile)

Spec == Init /\ [][Next]_vars
FairSpec == Spec /\ Fairness

----------------------------------------------------------------------------
Views == [of : [page : {"none", "dashboard", "table"}, status : Statuses \cup {""}, q : Texts,
                offset : Nat],
          total : 0..MaxReports, rows : SUBSET Ids, whole : BOOLEAN]

(* Every variable has its shape; an offset is never negative and a row that *)
(* flashes is one of a table shown.                                        *)
TypeOK ==
    /\ status \in [Ids -> Statuses \cup {"absent"}]
    /\ at \in Places /\ past \in Seq(Places)
    /\ box \in [draft : Texts, committed : Texts]
    /\ latest \in Requests \cup {None}
    /\ loads \in [Requests -> [stage : {"none", "asked", "counted", "answered", "failed"},
                               answer : Views]]
    /\ screen \in [loading : BOOLEAN, error : BOOLEAN, view : Views]
    /\ exporting \in BOOLEAN /\ downloads \in 0..MaxDownloads /\ exportError \in BOOLEAN
    /\ flashing \in Rows \cup {0} /\ acts \in 0..MaxActs

(* However loads overlap and their answers arrive, a page that shows an    *)
(* answer shows the one to its address (useDashboard.ts:240), a page that  *)
(* waits waits for a load under way, and when the search box is at rest the*)
(* address holds what it says (ReportFilters.tsx:71).                      *)
TableAnswersTheUrl ==
    /\ Shown => screen.view.of = Query(at)
    /\ at.page # "report" /\ screen.loading =>
        latest # None /\ loads[latest] # NoLoad /\ loads[latest].answer.of = Query(at)
    /\ at.page # "report" /\ box.draft = box.committed => box.draft = at.q

(* A table says that no reports match only when none does, or when fewer do *)
(* than it showed when the page was turned: no filter, page, way back or    *)
(* landing ends beyond the last report (useDashboard.ts:271).              *)
EmptyMeansNone ==
    OnTable /\ Shown /\ Rows = {} /\ screen.view.whole /\ screen.view.total > 0
        => screen.view.total < at.counted

(* Once the user rests, every load ends, what was typed reaches the address *)
(* and the buttons come back.                                              *)
Settles ==
    <>[](at.page # "report" =>
            /\ ~screen.loading /\ box.draft = at.q
            /\ ~exporting /\ downloads = 0 /\ flashing = 0)
=============================================================================
