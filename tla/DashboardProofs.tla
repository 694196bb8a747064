---------------------------- MODULE DashboardProofs ----------------------------
(***************************************************************************)
(* The table answers its address, for any number of reports, loads, places *)
(* and acts: the invariant ties the latest load, the screen and the search *)
(* box to the address shown.                                               *)
(***************************************************************************)
EXTENDS Dashboard, FiniteSetTheorems, WellFoundedInduction, TLAPS

Queries == [page : {"none", "dashboard", "table"}, status : Statuses \cup {""}, q : Texts, offset : Nat]
LoadType == [stage : {"none", "asked", "counted", "answered", "failed"}, answer : Views]
ScreenType == [loading : BOOLEAN, error : BOOLEAN, view : Views]

(* The load that counts is for the address, the page that waits waits for  *)
(* it, and the box has passed on what the address holds.                   *)
LatestInv ==
    latest # None => /\ at.page # "report" /\ loads[latest] # NoLoad
                     /\ loads[latest].answer.of = Query(at)
ScreenInv ==
    /\ at.page # "report" /\ screen.loading => latest # None
    /\ Shown => screen.view.of = Query(at)
BoxInv == at.page # "report" => box.committed = at.q

IInv == TypeOK /\ LatestInv /\ ScreenInv /\ BoxInv

-----------------------------------------------------------------------------
LEMMA Bounds ==
    MaxReports \in Nat /\ PageSize \in Nat \ {0} /\ MaxDownloads \in Nat /\ MaxActs \in Nat /\ None \notin Requests
  BY Zenon, DashboardAssumption

LEMMA ViewsAre == Views = [of : Queries, total : 0..MaxReports, rows : SUBSET Ids, whole : BOOLEAN]
  BY DEF Views, Queries

LEMMA PlaceType ==
  ASSUME NEW page \in {"dashboard", "table", "report"}, NEW report \in 0..MaxReports
  PROVE  Place(page, report) \in Places
  BY DEF Place, Places, Texts

LEMMA QueryType == ASSUME NEW place \in Places, place.page # "report" PROVE Query(place) \in Queries
  BY DEF Query, Places, Queries

LEMMA NoViewType == NoView \in Views /\ NoLoad \in LoadType /\ Blank \in ScreenType
  BY Bounds DEF NoView, NoQuery, NoLoad, Blank, Views, LoadType, ScreenType, Texts

LEMMA IdsCounted == ASSUME NEW S, S \subseteq Ids PROVE Cardinality(S) \in 0..MaxReports
  <1>1. IsFiniteSet(Ids) /\ Cardinality(Ids) = MaxReports
    BY FS_Interval, Bounds DEF Ids
  <1> QED
    BY <1>1, FS_Subset, FS_CardinalityType, Bounds

LEMMA FoundCounted ==
  ASSUME NEW query
  PROVE  /\ Matching(query) \subseteq Ids /\ Cardinality(Matching(query)) \in 0..MaxReports
         /\ \A offset : Window(Matching(query), offset) \subseteq Ids
  BY IdsCounted DEF Matching, Window

LEMMA FlashType == ASSUME NEW view, NEW report PROVE Flash(view, report) \in view.rows \cup {0}
  BY DEF Flash

LEMMA FreshIsFree == ASSUME Free # {} PROVE Fresh \in Requests /\ loads[Fresh] = NoLoad
  BY DEF Fresh, Free

(* A load for a page.                                                      *)
LEMMA AskType ==
  ASSUME TypeOK, NEW place \in Places, place.page # "report", Ask(place)
  PROVE  /\ latest' \in Requests /\ latest' # None /\ loads' \in [Requests -> LoadType]
         /\ loads'[latest'] # NoLoad /\ loads'[latest'].answer.of = Query(place)
  <1> DEFINE view == [NoView EXCEPT !.of = Query(place)]
             load == [stage |-> "asked", answer |-> view]
  <1>1. view \in Views /\ view.of = Query(place)
    BY QueryType, NoViewType, ViewsAre DEF NoView
  <1>2. load \in LoadType /\ load # NoLoad /\ load.answer.of = Query(place)
    BY <1>1 DEF LoadType, NoLoad
  <1>3. Fresh \in Requests
    BY FreshIsFree DEF Ask
  <1>4. loads' = [loads EXCEPT ![Fresh] = load] /\ latest' = Fresh
    BY DEF Ask
  <1>5. loads \in [Requests -> LoadType]
    BY DEF TypeOK, LoadType
  <1> QED
    BY <1>2, <1>3, <1>4, <1>5, Bounds

(* What the variables that no address depends on keep.                     *)
SidesOK ==
    /\ status \in [Ids -> Statuses \cup {"absent"}] /\ past \in Seq(Places) /\ acts \in 0..MaxActs

LEMMA ArriveKeeps ==
  ASSUME IInv, NEW place \in Places, Arrive(place), SidesOK'
  PROVE  IInv'
  <1>1. at' = place /\ screen' = Blank /\ box' = [draft |-> place.q, committed |-> place.q]
        /\ flashing' = 0 /\ exporting' = FALSE /\ downloads' = 0 /\ exportError' = FALSE
    BY DEF Arrive
  <1>2. box' \in [draft : Texts, committed : Texts] /\ box'.committed = place.q
    BY <1>1 DEF Places
  <1>3. screen' \in ScreenType /\ screen'.loading
    BY <1>1, NoViewType DEF Blank
  <1>a. /\ flashing' \in Rows' \cup {0} /\ exporting' \in BOOLEAN /\ exportError' \in BOOLEAN
        /\ downloads' \in 0..MaxDownloads
    <2>1. downloads' \in 0..MaxDownloads /\ flashing' \in Rows' \cup {0}
      BY <1>1, Bounds
    <2> QED
      BY <1>1, <2>1, Zenon
  <1>4. CASE place.page = "report"
    <2>1. latest' = None /\ loads' = loads
      BY <1>4 DEF Arrive
    <2>2. TypeOK'
      BY <1>1, <1>2, <1>3, <1>a, <2>1 DEF IInv, TypeOK, SidesOK, ScreenType
    <2> QED
      BY <1>1, <1>4, <2>1, <2>2 DEF IInv, LatestInv, ScreenInv, BoxInv, Shown
  <1>5. CASE place.page # "report"
    <2>1. Ask(place)
      BY <1>5 DEF Arrive
    <2>2. /\ latest' \in Requests /\ latest' # None /\ loads' \in [Requests -> LoadType]
          /\ loads'[latest'] # NoLoad /\ loads'[latest'].answer.of = Query(at')
      BY <1>1, <1>5, <2>1, AskType DEF IInv
    <2>3. TypeOK'
      BY <1>1, <1>2, <1>3, <1>a, <2>2 DEF TypeOK, SidesOK, ScreenType, LoadType
    <2> QED
      BY <1>1, <1>2, <1>3, <1>5, <2>2, <2>3 DEF IInv, LatestInv, ScreenInv, BoxInv, Shown
  <1> QED
    BY <1>4, <1>5

LEMMA TurnKeeps ==
  ASSUME IInv, NEW place \in Places, place.page = at.page, at.page # "report",
         NEW b \in [draft : Texts, committed : Texts], Turn(place, b), SidesOK'
  PROVE  IInv'
  <1>1. at' = place /\ box' = Resync(b, place.q) /\ UNCHANGED export
    BY DEF Turn
  <1>2. box' \in [draft : Texts, committed : Texts] /\ box'.committed = place.q
    BY <1>1 DEF Resync, Places
  <1>3. CASE Query(place) = Query(at)
    <2>1. UNCHANGED <<latest, loads, screen>>
      BY <1>3 DEF Turn
    <2>2. Rows' = Rows
      BY <1>1, <2>1 DEF Rows, Shown
    <2>3. flashing' \in Rows' \cup {0}
      BY <1>3, <2>2, FlashType DEF Turn, Rows, IInv, TypeOK
    <2>4. TypeOK'
      BY <1>1, <1>2, <2>1, <2>3 DEF IInv, TypeOK, SidesOK, export
    <2> QED
      BY <1>1, <1>2, <1>3, <2>1, <2>4 DEF IInv, LatestInv, ScreenInv, BoxInv, Shown
  <1>4. CASE Query(place) # Query(at)
    <2>1. Ask(place) /\ screen' = [screen EXCEPT !.loading = TRUE, !.error = FALSE] /\ flashing' = 0
      BY <1>4 DEF Turn
    <2>2. /\ latest' \in Requests /\ latest' # None /\ loads' \in [Requests -> LoadType]
          /\ loads'[latest'] # NoLoad /\ loads'[latest'].answer.of = Query(at')
      BY <1>1, <2>1, AskType DEF IInv
    <2>3. screen' \in ScreenType /\ screen'.loading
      BY <2>1 DEF IInv, TypeOK, ScreenType
    <2>4. TypeOK'
      BY <1>1, <1>2, <2>1, <2>2, <2>3 DEF IInv, TypeOK, SidesOK, export, ScreenType, LoadType
    <2> QED
      BY <1>1, <1>2, <2>2, <2>3, <2>4 DEF IInv, LatestInv, ScreenInv, BoxInv, Shown
  <1> QED
    BY <1>3, <1>4

(* Steps that touch neither the page nor its load.                         *)
LEMMA PageKept ==
  ASSUME IInv, UNCHANGED <<at, latest, loads, screen>>, TypeOK', box'.committed = box.committed
  PROVE  IInv'
  BY DEF IInv, LatestInv, ScreenInv, BoxInv, Shown

LEMMA ActType == ASSUME TypeOK, Act PROVE acts' \in 0..MaxActs
  BY Bounds DEF TypeOK, Act

LEMMA PushType == ASSUME TypeOK, Push PROVE past' \in Seq(Places)
  BY DEF TypeOK, Push

-----------------------------------------------------------------------------
LEMMA FirstPageType ==
  ASSUME NEW place \in Places
  PROVE  /\ FirstPage(place) \in Places
         /\ FirstPage(place).page = place.page
  <1> DEFINE a == [place EXCEPT !.offset = 0]
             b == [a EXCEPT !.report = 0]
             c == [b EXCEPT !.counted = 0]
  <1>1. 0 \in Nat /\ 0 \in 0..MaxReports
    BY Bounds
  <1>2. a \in Places /\ a.page = place.page
    BY <1>1 DEF Places
  <1>3. b \in Places /\ b.page = place.page
    <2> HIDE DEF a
    <2> QED
      BY <1>1, <1>2 DEF Places
  <1>4. c \in Places /\ c.page = place.page
    <2> HIDE DEF b
    <2> QED
      BY <1>1, <1>3 DEF Places
  <1> QED
    BY <1>4 DEF FirstPage

LEMMA StatusType ==
  ASSUME NEW place \in Places, NEW s \in Statuses \cup {""}
  PROVE  /\ [place EXCEPT !.status = s] \in Places
         /\ [place EXCEPT !.status = s].page = place.page
  BY DEF Places

LEMMA TextType ==
  ASSUME NEW place \in Places, NEW q \in Texts
  PROVE  /\ [place EXCEPT !.q = q] \in Places
         /\ [place EXCEPT !.q = q].page = place.page
  BY DEF Places

LEMMA OffsetType ==
  ASSUME NEW place \in Places, NEW offset \in Nat, NEW counted \in Nat
  PROVE  /\ [place EXCEPT !.offset = offset, !.counted = counted] \in Places
         /\ [place EXCEPT !.offset = offset, !.counted = counted].page = place.page
  BY DEF Places

LEMMA RowsAreIds == ASSUME TypeOK PROVE Rows \subseteq Ids /\ screen.view.total \in 0..MaxReports
  BY DEF TypeOK, Rows, Views

(* A link to another page.                                                 *)
LEMMA FollowKeeps ==
  ASSUME IInv, NEW place \in Places, Follow(place)
  PROVE  IInv'
  <1>1. SidesOK'
    BY ActType, PushType DEF Follow, IInv, TypeOK, SidesOK
  <1> QED
    BY <1>1, ArriveKeeps DEF Follow

LEMMA PageKeeps == ASSUME IInv, DashboardPage PROVE IInv'
  <1>1. CASE ViewReports
    BY <1>1, FollowKeeps, PlaceType, Bounds DEF ViewReports
  <1>2. CASE AllTemplates
    BY <1>2, FollowKeeps, PlaceType, Bounds DEF AllTemplates
  <1>3. CASE NewReport
    BY <1>3, FollowKeeps, PlaceType, Bounds DEF NewReport
  <1>4. CASE OpenReport
    <2>1. PICK i \in Rows : Follow(Place("report", i))
      BY <1>4 DEF OpenReport
    <2>2. i \in 0..MaxReports
      BY <2>1, RowsAreIds, Bounds DEF IInv, Ids
    <2> QED
      BY <2>1, <2>2, FollowKeeps, PlaceType
  <1>5. CASE Back
    <2> DEFINE place == past[Len(past)]
    <2>1. place \in Places /\ past' \in Seq(Places) /\ acts' \in 0..MaxActs
      <3>1. past \in Seq(Places) /\ past # << >>
        BY <1>5 DEF Back, IInv, TypeOK
      <3>2. past' = SubSeq(past, 1, Len(past) - 1) /\ Act
        BY <1>5 DEF Back
      <3> QED
        BY <3>1, <3>2, ActType DEF IInv
    <2>2. SidesOK'
      BY <1>5, <2>1 DEF Back, IInv, TypeOK, SidesOK
    <2>3. CASE place.page = at.page /\ at.page # "report"
      <3>1. Turn(place, box) /\ box \in [draft : Texts, committed : Texts]
        BY <1>5, <2>3 DEF Back, IInv, TypeOK
      <3> QED
        BY <2>1, <2>2, <2>3, <3>1, TurnKeeps
    <2>4. CASE ~(place.page = at.page /\ at.page # "report")
      <3>1. Arrive(place)
        BY <1>5, <2>4 DEF Back
      <3> QED
        BY <2>1, <2>2, <3>1, ArriveKeeps
    <2> QED
      BY <2>3, <2>4
  <1>6. CASE reload
    <2>1. Ask(at) /\ at.page # "report" /\ flashing' = 0 /\ UNCHANGED <<status, at, past, box, export>>
          /\ screen' = [screen EXCEPT !.loading = TRUE, !.error = FALSE]
      BY <1>6 DEF reload
    <2>2. /\ latest' \in Requests /\ latest' # None /\ loads' \in [Requests -> LoadType]
          /\ loads'[latest'] # NoLoad /\ loads'[latest'].answer.of = Query(at')
      BY <2>1, AskType DEF IInv, TypeOK
    <2>3. screen' \in ScreenType /\ screen'.loading
      BY <2>1 DEF IInv, TypeOK, ScreenType
    <2>4. acts' \in 0..MaxActs
      BY <1>6, ActType DEF reload, IInv
    <2>5. TypeOK'
      BY <2>1, <2>2, <2>3, <2>4 DEF IInv, TypeOK, export, ScreenType, LoadType
    <2> QED
      BY <2>1, <2>2, <2>3, <2>5 DEF IInv, LatestInv, ScreenInv, BoxInv, Shown
  <1> QED
    BY <1>1, <1>2, <1>3, <1>4, <1>5, <1>6 DEF DashboardPage

(* A filter, on the table.                                                 *)
LEMMA FilterKeeps ==
  ASSUME IInv, OnTable, NEW place \in Places, FirstPage(place) \in Places,
         FirstPage(place).page = at.page,
         NEW b \in [draft : Texts, committed : Texts], setFilters(place, b), acts' \in 0..MaxActs
  PROVE  IInv'
  <1>1. SidesOK' /\ Turn(FirstPage(place), b)
    BY DEF setFilters, IInv, TypeOK, SidesOK
  <1> QED
    BY <1>1, TurnKeeps DEF OnTable

LEMMA FiltersKeep == ASSUME IInv, ReportFilters PROVE IInv'
  <1>1. at \in Places /\ box \in [draft : Texts, committed : Texts] /\ acts \in 0..MaxActs /\ "" \in Texts
    BY DEF IInv, TypeOK, Texts
  <1>2. CASE PickStatus
    <2>1. PICK s \in Statuses \cup {""} : setFilters([at EXCEPT !.status = s], box)
      BY <1>2 DEF PickStatus
    <2>2. OnTable /\ acts' \in 0..MaxActs
      BY <1>2, ActType DEF PickStatus, IInv
    <2> QED
      BY <1>1, <2>1, <2>2, StatusType, FirstPageType, FilterKeeps
  <1>3. CASE Type
    <2>1. PICK text \in Texts : box' = [box EXCEPT !.draft = text]
      BY <1>3 DEF Type, Texts
    <2>2. box' \in [draft : Texts, committed : Texts] /\ box'.committed = box.committed
      BY <1>1, <2>1
    <2>3. acts' \in 0..MaxActs
      BY <1>3, ActType DEF Type, IInv
    <2>4. TypeOK'
      BY <1>3, <2>2, <2>3 DEF Type, IInv, TypeOK, export, Rows, Shown
    <2> QED
      BY <1>3, <2>2, <2>4, PageKept DEF Type
  <1>4. CASE Debounce
    <2> DEFINE b == [box EXCEPT !.committed = box.draft]
    <2>1. b \in [draft : Texts, committed : Texts] /\ box.draft \in Texts
      BY <1>1
    <2>2. OnTable /\ acts' \in 0..MaxActs /\ setFilters([at EXCEPT !.q = box.draft], b)
      BY <1>1, <1>4 DEF Debounce, Armed
    <2> QED
      BY <1>1, <2>1, <2>2, TextType, FirstPageType, FilterKeeps
  <1>5. CASE clearFilters
    <2> DEFINE place == [at EXCEPT !.status = "", !.q = ""]
    <2>1. place \in Places /\ place.page = at.page
      BY <1>1 DEF Places
    <2>2. OnTable /\ acts' \in 0..MaxActs /\ setFilters(place, box)
      BY <1>5, ActType DEF clearFilters, IInv
    <2> QED
      BY <1>1, <2>1, <2>2, FirstPageType, FilterKeeps
  <1> QED
    BY <1>2, <1>3, <1>4, <1>5 DEF ReportFilters

LEMMA PaginationKeeps == ASSUME IInv, Pagination PROVE IInv'
  <1>1. PICK offset \in Nat : goToOffset(offset)
    <2>1. at.offset \in Nat
      BY DEF IInv, TypeOK, Places
    <2>2. Before(at.offset) \in Nat /\ at.offset + PageSize \in Nat
      BY <2>1, Bounds DEF Before
    <2> QED
      BY <2>1, <2>2, Zenon DEF Pagination
  <1>2. at.page # "report" /\ at \in Places /\ box \in [draft : Texts, committed : Texts]
    BY DEF Pagination, Paged, Rows, Shown, IInv, TypeOK
  <1>3. SidesOK'
    BY <1>1, ActType, PushType DEF goToOffset, IInv, TypeOK, SidesOK
  <1> DEFINE counted == IF offset = 0 THEN 0 ELSE Seen
             place == [FirstPage(at) EXCEPT !.offset = offset, !.counted = counted]
  <1>4. counted \in Nat
    <2>1. Rows \subseteq Ids /\ screen.view.total \in 0..MaxReports /\ at.offset \in Nat
      BY <1>2, RowsAreIds DEF IInv, Places
    <2>2. Cardinality(Rows) \in Nat /\ screen.view.total \in Nat
      BY <2>1, IdsCounted, Bounds
    <2> QED
      BY <2>1, <2>2 DEF Seen
  <1>5. place \in Places /\ place.page = at.page
    <2>1. FirstPage(at) \in Places /\ FirstPage(at).page = at.page
      BY <1>2, FirstPageType
    <2> HIDE DEF counted
    <2> QED
      BY <2>1, <1>4, OffsetType
  <1>6. Turn(place, box)
    BY <1>1 DEF goToOffset
  <1> QED
    BY <1>2, <1>3, <1>5, <1>6, TurnKeeps

(* Downloads, and the flash that ends.                                     *)
LEMMA SidesKeep == ASSUME IInv, Downloads \/ FlashEnds PROVE IInv'
  <1>1. UNCHANGED <<status, at, past, box, latest, loads, screen>>
    BY DEF Downloads, FlashEnds, exportCsv, exportRow, dismissExportError, downloadAsFile, rest
  <1>2. flashing' \in Rows' \cup {0}
    BY <1>1 DEF Downloads, FlashEnds, exportCsv, exportRow, dismissExportError, downloadAsFile, rest,
              IInv, TypeOK, Rows, Shown
  <1>3. acts' \in 0..MaxActs
    BY ActType DEF Downloads, FlashEnds, exportCsv, exportRow, dismissExportError, downloadAsFile, IInv, TypeOK
  <1>4. downloads' \in 0..MaxDownloads
    <2>1. downloads \in 0..MaxDownloads
      BY DEF IInv, TypeOK
    <2>2. \/ downloads' = downloads
          \/ downloads < MaxDownloads /\ downloads' = downloads + 1
          \/ downloads > 0 /\ downloads' = downloads - 1
      BY DEF Downloads, FlashEnds, exportCsv, exportRow, dismissExportError, downloadAsFile, export
    <2> QED
      BY <2>1, <2>2, Bounds
  <1>5. exporting' \in BOOLEAN /\ exportError' \in BOOLEAN
    BY Zenon DEF Downloads, FlashEnds, exportCsv, exportRow, dismissExportError, downloadAsFile, export,
              IInv, TypeOK
  <1>6. TypeOK'
    BY <1>1, <1>2, <1>3, <1>4, <1>5 DEF IInv, TypeOK
  <1> QED
    BY <1>1, <1>6, PageKept

-----------------------------------------------------------------------------
(* The server's steps change an answer's rows and count, not what it is to.*)
LEMMA LoadsKeep ==
  ASSUME IInv, NEW r \in Requests, UNCHANGED Served,
         NEW load \in LoadType, loads' = [loads EXCEPT ![r] = load],
         load # NoLoad, load.answer.of = loads[r].answer.of
  PROVE  IInv'
  <1>1. loads \in [Requests -> LoadType]
    BY DEF IInv, TypeOK, LoadType
  <1>2. loads' \in [Requests -> LoadType]
    BY <1>1
  <1>3. UNCHANGED <<status, at, past, box, latest, screen, exporting, downloads, exportError, flashing, acts>>
    BY DEF Served, export
  <1>4. TypeOK'
    BY <1>2, <1>3 DEF IInv, TypeOK, Rows, Shown, LoadType
  <1>5. LatestInv'
    <2> SUFFICES ASSUME latest # None
                 PROVE  /\ at.page # "report" /\ loads'[latest] # NoLoad
                        /\ loads'[latest].answer.of = Query(at)
      BY <1>3 DEF LatestInv, Query
    <2>1. latest \in Requests /\ at.page # "report" /\ loads[latest] # NoLoad /\ loads[latest].answer.of = Query(at)
      BY DEF IInv, TypeOK, LatestInv
    <2>2. loads'[latest] = IF latest = r THEN load ELSE loads[latest]
      BY <1>1, <2>1
    <2> QED
      BY <2>1, <2>2
  <1> QED
    BY <1>3, <1>4, <1>5 DEF IInv, ScreenInv, BoxInv, Shown, Query

LEMMA ServerKeeps == ASSUME IInv, NEW r \in Requests, Server(r) PROVE IInv'
  <1> DEFINE old == loads[r]
             found == Matching(old.answer.of)
  <1>1. old \in LoadType /\ old.answer \in Views /\ UNCHANGED Served
    BY DEF IInv, TypeOK, LoadType, Server, countReports, reports, rollups, Fail
  <1>2. found \subseteq Ids /\ Cardinality(found) \in 0..MaxReports /\ 0 \in 0..MaxReports
        /\ Window(found, old.answer.of.offset) \subseteq Ids
    BY FoundCounted, Bounds
  <1>3. CASE countReports(r)
    <2> DEFINE load == [old EXCEPT !.stage = "counted", !.answer.total = Cardinality(found)]
    <2>1. loads' = [loads EXCEPT ![r] = load]
      BY <1>3 DEF countReports
    <2>2. load \in LoadType /\ load # NoLoad /\ load.answer.of = old.answer.of
      BY <1>1, <1>2 DEF LoadType, Views, NoLoad
    <2> QED
      BY <1>1, <2>1, <2>2, LoadsKeep
  <1>4. CASE reports(r)
    <2> DEFINE load == [old EXCEPT !.stage = "answered",
                          !.answer.rows = Window(found, old.answer.of.offset),
                          !.answer.whole = old.answer.total = Cardinality(found)]
    <2>1. loads' = [loads EXCEPT ![r] = load]
      BY <1>4 DEF reports
    <2>2. load \in LoadType /\ load # NoLoad /\ load.answer.of = old.answer.of
      BY <1>1, <1>2 DEF LoadType, Views, NoLoad
    <2> QED
      BY <1>1, <2>1, <2>2, LoadsKeep
  <1>5. CASE rollups(r)
    <2> DEFINE load == [old EXCEPT !.stage = "answered", !.answer.total = Cardinality(found),
                          !.answer.rows = {i \in found : status[i] = "draft"}]
    <2>1. loads' = [loads EXCEPT ![r] = load]
      BY <1>5 DEF rollups
    <2>2. load \in LoadType /\ load # NoLoad /\ load.answer.of = old.answer.of
      BY <1>1, <1>2 DEF LoadType, Views, NoLoad
    <2> QED
      BY <1>1, <2>1, <2>2, LoadsKeep
  <1>6. CASE Fail(r)
    <2> DEFINE load == [old EXCEPT !.stage = "failed", !.answer.total = 0]
    <2>1. loads' = [loads EXCEPT ![r] = load]
      BY <1>6 DEF Fail
    <2>2. load \in LoadType /\ load # NoLoad /\ load.answer.of = old.answer.of
      BY <1>1, <1>2 DEF LoadType, Views, NoLoad
    <2> QED
      BY <1>1, <2>1, <2>2, LoadsKeep
  <1> QED
    BY <1>3, <1>4, <1>5, <1>6 DEF Server

(* An answer arrives: the last load's is shown, another's is dropped.      *)
LEMMA DeliverKeeps == ASSUME IInv, NEW r \in Requests, Deliver(r) PROVE IInv'
  <1>1. loads \in [Requests -> LoadType] /\ loads[r].answer \in Views
    BY DEF IInv, TypeOK, LoadType
  <1>2. loads' = [loads EXCEPT ![r] = NoLoad]
        /\ UNCHANGED <<status, at, past, box, exporting, downloads, exportError, acts>>
    BY DEF Deliver, export
  <1>3. loads' \in [Requests -> LoadType]
    BY <1>1, <1>2, NoViewType
  <1>4. CASE r # latest
    <2>1. UNCHANGED <<latest, screen, flashing>>
      BY <1>4 DEF Deliver, IsLatest
    <2>2. TypeOK'
      BY <1>2, <1>3, <2>1 DEF IInv, TypeOK, Rows, Shown, LoadType
    <2>3. LatestInv'
      <3> SUFFICES ASSUME latest # None
                   PROVE  /\ at.page # "report" /\ loads'[latest] # NoLoad
                          /\ loads'[latest].answer.of = Query(at)
        BY <1>2, <2>1 DEF LatestInv, Query
      <3>1. latest \in Requests /\ at.page # "report" /\ loads[latest] # NoLoad /\ loads[latest].answer.of = Query(at)
        BY DEF IInv, TypeOK, LatestInv
      <3>2. loads'[latest] = loads[latest]
        BY <1>1, <1>2, <1>4, <3>1
      <3> QED
        BY <3>1, <3>2
    <2> QED
      BY <1>2, <2>1, <2>2, <2>3 DEF IInv, ScreenInv, BoxInv, Shown, Query
  <1>5. CASE r = latest
    <2>1. latest' = None /\ latest # None
      BY <1>5, Bounds DEF Deliver, IsLatest
    <2>2. loads[r].answer.of = Query(at) /\ at.page # "report"
      BY <1>5, <2>1 DEF IInv, LatestInv
    <2>3. \/ screen' = Failed(screen)
          \/ screen' = [loading |-> FALSE, error |-> FALSE, view |-> loads[r].answer]
      BY <1>5 DEF Deliver, IsLatest
    <2>4. screen' \in ScreenType /\ ~screen'.loading
      <3>1. screen.view \in Views
        BY DEF IInv, TypeOK
      <3>2. CASE screen' = Failed(screen)
        <4>1. (IF OnTable THEN NoView ELSE screen.view) \in Views
          BY <3>1, NoViewType
        <4> QED
          BY <3>2, <4>1 DEF Failed, ScreenType
      <3>3. CASE screen' = [loading |-> FALSE, error |-> FALSE, view |-> loads[r].answer]
        BY <1>1, <3>3 DEF ScreenType
      <3> QED
        BY <2>3, <3>2, <3>3
    <2>5. screen'.error \/ screen'.view.of = Query(at)
      BY <2>2, <2>3 DEF Failed
    <2>6. flashing' \in Rows' \cup {0}
      <3>1. flashing' = IF OnTable THEN Flash(screen'.view, at.report) ELSE 0
        BY <1>5 DEF Deliver, IsLatest
      <3>2. CASE screen'.error
        <4>1. screen' = Failed(screen)
          BY <2>3, <3>2
        <4>2. OnTable => screen'.view.rows = {}
          BY <4>1 DEF Failed, NoView
        <4> QED
          BY <3>1, <4>2, FlashType
      <3>3. CASE ~screen'.error
        <4>1. OnTable => Rows' = screen'.view.rows
          BY <1>2, <2>4, <3>3 DEF Rows, Shown, OnTable
        <4> QED
          BY <3>1, <4>1, FlashType
      <3> QED
        BY <3>2, <3>3
    <2>7. TypeOK'
      BY <1>2, <1>3, <2>1, <2>4, <2>6 DEF IInv, TypeOK, ScreenType, LoadType
    <2> QED
      BY <1>2, <2>1, <2>4, <2>5, <2>7 DEF IInv, LatestInv, ScreenInv, BoxInv, Shown, Query
  <1> QED
    BY <1>4, <1>5

-----------------------------------------------------------------------------
(* Reports change.                                                         *)
LEMMA CreateType ==
  ASSUME TypeOK, Create
  PROVE  status' \in [Ids -> Statuses \cup {"absent"}] /\ Newest + 1 \in 0..MaxReports
  <1>1. Newest \in 0..MaxReports
    BY IdsCounted DEF Newest
  <1>2. Newest < MaxReports /\ status' = [status EXCEPT ![Newest + 1] = "draft"]
    BY DEF Create
  <1>3. Newest + 1 \in 0..MaxReports
    BY <1>1, <1>2, Bounds
  <1>4. status' \in [Ids -> Statuses \cup {"absent"}]
    <2>1. "draft" \in Statuses \cup {"absent"} /\ status \in [Ids -> Statuses \cup {"absent"}]
      BY DEF Statuses, TypeOK
    <2> QED
      BY <1>2, <2>1
  <1> QED
    BY <1>3, <1>4

LEMMA ChangesKeep == ASSUME IInv, Changes PROVE IInv'
  <1>1. CASE createReport
    <2>1. status' \in [Ids -> Statuses \cup {"absent"}] /\ Newest + 1 \in 0..MaxReports
      BY <1>1, CreateType DEF createReport, IInv
    <2>2. at' \in Places /\ at'.page = "report" /\ at.page = "report"
      BY <1>1, <2>1 DEF createReport, IInv, TypeOK, Places
    <2>3. acts' \in 0..MaxActs /\ UNCHANGED <<past, box, latest, loads, screen, export, flashing>>
      BY <1>1, ActType DEF createReport, IInv
    <2>4. Rows' = {} /\ Rows = {}
      BY <2>2 DEF Rows, Shown
    <2>5. TypeOK'
      BY <2>1, <2>2, <2>3, <2>4 DEF IInv, TypeOK, export
    <2> QED
      BY <2>2, <2>3, <2>5 DEF IInv, LatestInv, ScreenInv, BoxInv, Shown
  <1>2. CASE saveAndExportReport
    <2>1. status' \in [Ids -> Statuses \cup {"absent"}]
      BY <1>2 DEF saveAndExportReport, IInv, TypeOK, Statuses
    <2>2. Place("table", at.report) \in Places
      BY PlaceType DEF IInv, TypeOK, Places
    <2>3. SidesOK'
      BY <1>2, <2>1, ActType, PushType DEF saveAndExportReport, IInv, SidesOK
    <2> QED
      BY <1>2, <2>2, <2>3, ArriveKeeps DEF saveAndExportReport
  <1>3. CASE OtherTab
    <2>1. status' \in [Ids -> Statuses \cup {"absent"}]
      BY <1>3, CreateType DEF OtherTab, IInv, TypeOK, Statuses
    <2>2. acts' \in 0..MaxActs /\ UNCHANGED <<at, past, box, latest, loads, screen, export, flashing>>
      BY <1>3, ActType DEF OtherTab, IInv
    <2>3. TypeOK'
      BY <2>1, <2>2 DEF IInv, TypeOK, export, Rows, Shown
    <2> QED
      BY <2>2, <2>3, PageKept
  <1> QED
    BY <1>1, <1>2, <1>3 DEF Changes

LEMMA InitHolds == Init => IInv
  <1> SUFFICES ASSUME Init PROVE IInv
    OBVIOUS
  <1>1. at \in Places /\ at.page # "report" /\ status \in [Ids -> Statuses \cup {"absent"}]
    BY InitialAssumption DEF Init
  <1>2. box = [draft |-> at.q, committed |-> at.q] /\ past = << >> /\ screen = Blank /\ exporting = FALSE
        /\ downloads = 0 /\ exportError = FALSE /\ flashing = 0 /\ acts = 0
    BY DEF Init
  <1> DEFINE load == [stage |-> "asked", answer |-> [NoView EXCEPT !.of = Query(at)]]
  <1>3. load \in LoadType /\ load # NoLoad /\ load.answer.of = Query(at)
    <2>1. [NoView EXCEPT !.of = Query(at)] \in Views /\ [NoView EXCEPT !.of = Query(at)].of = Query(at)
      BY <1>1, QueryType, NoViewType, ViewsAre DEF NoView
    <2> QED
      BY <2>1 DEF LoadType, NoLoad
  <1>4. /\ latest \in Requests /\ latest # None /\ loads \in [Requests -> LoadType]
        /\ loads[latest] = load
    <2>1. PICK r \in {CHOOSE r \in Requests : TRUE} :
            latest = r /\ loads = [q \in Requests |-> IF q # r THEN NoLoad ELSE load]
      BY DEF Init
    <2>2. r \in Requests
      BY Zenon, DashboardAssumption
    <2> QED
      BY <1>3, <2>1, <2>2, NoViewType, Bounds
  <1>5. box \in [draft : Texts, committed : Texts] /\ box.committed = at.q
    BY <1>1, <1>2 DEF Places
  <1>6. screen \in ScreenType /\ screen.loading
    BY <1>2, NoViewType DEF Blank
  <1>7. downloads \in 0..MaxDownloads /\ acts \in 0..MaxActs
    BY <1>2, Bounds
  <1>8. TypeOK
    <2>1. past \in Seq(Places)
      BY <1>2
    <2>3. exporting \in BOOLEAN /\ exportError \in BOOLEAN
      BY <1>2, Zenon
    <2>4. flashing \in Rows \cup {0}
      BY <1>2
    <2>2. loads \in [Requests -> LoadType] /\ screen \in ScreenType /\ latest \in Requests \cup {None}
      BY <1>4, <1>6
    <2> QED
      BY <1>1, <1>5, <1>7, <2>1, <2>2, <2>3, <2>4 DEF TypeOK, ScreenType, LoadType
  <1> QED
    BY <1>1, <1>3, <1>4, <1>5, <1>6, <1>8 DEF IInv, LatestInv, ScreenInv, BoxInv, Shown

LEMMA StepKeeps == IInv /\ [Next]_vars => IInv'
  <1> SUFFICES ASSUME IInv, [Next]_vars PROVE IInv'
    OBVIOUS
  <1>1. CASE Next
    BY <1>1, PageKeeps, FiltersKeep, PaginationKeeps, SidesKeep, ChangesKeep, ServerKeeps, DeliverKeeps DEF Next
  <1>2. CASE UNCHANGED vars
    BY <1>2 DEF vars, IInv, TypeOK, LatestInv, ScreenInv, BoxInv, Rows, Shown
  <1> QED
    BY <1>1, <1>2

LEMMA AlwaysIInv == Spec => []IInv
  <1> QED
    BY InitHolds, StepKeeps, PTL DEF Spec

-----------------------------------------------------------------------------
(* Every variable of the pages keeps its shape: no page is ever at a       *)
(* negative offset, and only a row that is shown flashes.                  *)
THEOREM TypeCorrect == Spec => []TypeOK
  <1>1. IInv => TypeOK
    BY DEF IInv
  <1> QED
    BY <1>1, AlwaysIInv, PTL

(* However many loads overlap and however their answers arrive, the screen *)
(* answers the address, a page that waits waits for a load that is under   *)
(* way, and a search box at rest holds what the address says               *)
(* (useDashboard.ts:240, ReportFilters.tsx:71).                            *)
THEOREM TableAnswersTheAddress == Spec => []TableAnswersTheUrl
  <1>1. IInv => TableAnswersTheUrl
    <2> SUFFICES ASSUME IInv PROVE TableAnswersTheUrl
      OBVIOUS
    <2>1. Shown => screen.view.of = Query(at)
      BY DEF IInv, ScreenInv
    <2>2. at.page # "report" /\ screen.loading =>
            latest # None /\ loads[latest] # NoLoad /\ loads[latest].answer.of = Query(at)
      BY DEF IInv, ScreenInv, LatestInv
    <2>3. at.page # "report" /\ box.draft = box.committed => box.draft = at.q
      BY DEF IInv, BoxInv
    <2> QED
      BY <2>1, <2>2, <2>3 DEF TableAnswersTheUrl
  <1> QED
    BY <1>1, AlwaysIInv, PTL

-----------------------------------------------------------------------------
(* A page beyond the last report.                                          *)
LEMMA Least ==
  ASSUME NEW S, S \subseteq Nat, S # {}
  PROVE  \E m \in S : \A n \in S : m <= n
  <1> DEFINE R == StrictSubsetOrdering(Nat)
             T == {1..n : n \in S}
  <1>1. IsWellFoundedOn(R, FiniteSubsetsOf(Nat))
    BY FS_StrictSubsetOrderingWellFounded
  <1>2. T \subseteq FiniteSubsetsOf(Nat) /\ T # {}
    <2>1. \A n \in S : 1..n \in SUBSET Nat /\ IsFiniteSet(1..n)
      BY FS_Interval
    <2>2. \A n \in S : 1..n \in FiniteSubsetsOf(Nat)
      BY <2>1, Zenon DEF FiniteSubsetsOf
    <2> QED
      BY <2>2
  <1>3. \A m, n \in S : n < m => <<1..n, 1..m>> \in R
    BY DEF StrictSubsetOrdering
  <1>4. PICK t \in T : \A u \in T : ~(<<u, t>> \in R)
    <2> HIDE DEF R, T
    <2> QED
      BY <1>1, <1>2, WFMin
  <1>5. PICK m \in S : t = 1..m
    BY <1>4
  <1>6. \A n \in S : ~(n < m)
    <2> HIDE DEF R
    <2> QED
      BY <1>3, <1>4, <1>5
  <1> QED
    BY <1>6

LEMMA Greatest ==
  ASSUME NEW S, S \subseteq Ids, S # {}
  PROVE  \E m \in S : \A n \in S : n <= m
  <1> DEFINE T == {MaxReports - i : i \in S}
  <1>1. T \subseteq Nat /\ T # {}
    <2>1. \A i \in S : MaxReports - i \in Nat
      BY Bounds DEF Ids
    <2> QED
      BY <2>1
  <1>2. PICK t \in T : \A u \in T : t <= u
    BY <1>1, Least
  <1>3. PICK m \in S : t = MaxReports - m
    BY <1>2
  <1>4. \A n \in S : MaxReports - m <= MaxReports - n
    BY <1>2, <1>3
  <1> QED
    BY <1>4, Bounds DEF Ids

Newer(found, i) == {j \in found : j > i}

(* Of more than k reports one has k newer ones.                            *)
LEMMA Ranked ==
  ASSUME NEW found, found \subseteq Ids, NEW k \in Nat, k < Cardinality(found)
  PROVE  \E i \in found : Cardinality(Newer(found, i)) = k
  <1> DEFINE Missed == {n \in Nat : n < Cardinality(found)
                                    /\ ~ \E i \in found : Cardinality(Newer(found, i)) = n}
  <1>1. found \subseteq Nat /\ IsFiniteSet(found) /\ Cardinality(found) \in Nat
    <2>1. IsFiniteSet(Ids) /\ Ids \subseteq Nat
      BY FS_Interval, Bounds DEF Ids
    <2>2. IsFiniteSet(found)
      BY <2>1, FS_Subset
    <2> QED
      BY <2>1, <2>2, FS_CardinalityType
  <1>2. Missed = {}
    <2> SUFFICES ASSUME Missed # {} PROVE FALSE
      OBVIOUS
    <2>1. PICK n \in Missed : \A m \in Missed : n <= m
      BY Least
    <2>2. n \in Nat /\ n < Cardinality(found) /\ \A i \in found : Cardinality(Newer(found, i)) # n
      BY <2>1
    <2>3. CASE n = 0
      <3>1. found # {}
        BY <1>1, <2>2, <2>3, FS_EmptySet
      <3>2. PICK m \in found : \A j \in found : j <= m
        BY <3>1, Greatest
      <3>3. Newer(found, m) = {}
        <4>1. \A j \in found : ~(j > m)
          BY <1>1, <3>2
        <4> QED
          BY <4>1 DEF Newer
      <3> QED
        BY <2>2, <2>3, <3>3, FS_EmptySet
    <2>4. CASE n # 0
      <3>1. n - 1 \in Nat /\ n - 1 < Cardinality(found) /\ n - 1 \notin Missed
        <4>1. n - 1 \in Nat /\ n - 1 < Cardinality(found) /\ ~(n <= n - 1)
          BY <1>1, <2>2, <2>4
        <4> QED
          BY <2>1, <4>1
      <3>2. PICK i \in found : Cardinality(Newer(found, i)) = n - 1
        BY <3>1
      <3> DEFINE above == Newer(found, i) \cup {i}
                 below == found \ above
      <3>3. IsFiniteSet(Newer(found, i)) /\ i \notin Newer(found, i)
        BY <1>1, FS_Subset DEF Newer
      <3>4. Cardinality(above) = n
        <4>1. Cardinality(above) = Cardinality(Newer(found, i)) + 1
          BY <3>3, FS_AddElement
        <4> QED
          BY <2>2, <3>2, <4>1
      <3>5. below # {}
        <4>1. above \subseteq found
          BY DEF Newer
        <4>2. above # found
          BY <1>1, <2>2, <3>4
        <4> QED
          BY <4>1, <4>2
      <3>6. PICK m \in below : \A j \in below : j <= m
        BY <3>5, Greatest
      <3>7. Newer(found, m) = above
        <4>1. \A j \in found : j \in above <=> j >= i
          BY <1>1 DEF Newer
        <4>2. m < i
          BY <1>1, <3>6, <4>1
        <4>3. \A j \in found : j > m <=> j \in above
          BY <1>1, <3>6, <4>1, <4>2
        <4> QED
          BY <4>3 DEF Newer
      <3> QED
        BY <2>2, <3>4, <3>6, <3>7
    <2> QED
      BY <2>3, <2>4
  <1> QED
    BY <1>2

(* A page of the list is empty only if its offset is at or past the number *)
(* of reports that match, whatever the page size (dashboard/store.go, LIMIT*)
(* and OFFSET over a full order).                                          *)
THEOREM WindowHolds ==
  ASSUME NEW found, found \subseteq Ids, NEW offset \in Nat, Window(found, offset) = {}
  PROVE  Cardinality(found) <= offset
  <1> SUFFICES ASSUME offset < Cardinality(found) PROVE FALSE
    BY IdsCounted
  <1>1. PICK i \in found : Cardinality(Newer(found, i)) = offset
    BY Ranked
  <1>2. offset \in offset..(offset + PageSize - 1)
    BY Bounds
  <1> QED
    BY <1>1, <1>2 DEF Window, Newer

(* A page was turned to where a report was seen to be, or the address is   *)
(* one a run began with; an answer that is whole and empty is beyond the   *)
(* last report.                                                            *)
Turned(place) == place.offset > 0 => place.offset < place.counted \/ MaxReports < place.counted

Beyond(view) ==
    view.of.page = "table" /\ view.whole /\ view.rows = {} => view.total <= view.of.offset

TurnedInv ==
    /\ Turned(at) /\ \A i \in DOMAIN past : Turned(past[i])
    /\ \A r \in Requests : loads[r].stage = "answered" => Beyond(loads[r].answer)
    /\ Beyond(screen.view)

LEMMA NothingBeyond == Beyond(NoView)
  BY DEF Beyond, NoView, NoQuery

LEMMA PastTurned ==
  ASSUME IInv, TurnedInv
  PROVE  /\ \A i \in DOMAIN Append(past, at) : Turned(Append(past, at)[i])
         /\ past # << >> =>
               /\ Turned(past[Len(past)])
               /\ \A i \in DOMAIN SubSeq(past, 1, Len(past) - 1) :
                     Turned(SubSeq(past, 1, Len(past) - 1)[i])
  <1>1. past \in Seq(Places) /\ at \in Places /\ Turned(at) /\ \A i \in DOMAIN past : Turned(past[i])
    BY DEF IInv, TypeOK, TurnedInv
  <1>2. \A i \in DOMAIN Append(past, at) : Append(past, at)[i] = at \/
            (i \in DOMAIN past /\ Append(past, at)[i] = past[i])
    BY <1>1
  <1>3. ASSUME past # << >>
        PROVE  /\ Len(past) \in DOMAIN past
               /\ \A i \in DOMAIN SubSeq(past, 1, Len(past) - 1) :
                     i \in DOMAIN past /\ SubSeq(past, 1, Len(past) - 1)[i] = past[i]
    BY <1>1, <1>3
  <1> QED
    BY <1>1, <1>2, <1>3

(* A load that is asked for, and a page that takes its place.              *)
LEMMA AskTurned ==
  ASSUME IInv, TurnedInv, NEW place, Ask(place)
  PROVE  \A r \in Requests : loads'[r].stage = "answered" => Beyond(loads'[r].answer)
  <1>1. loads \in [Requests -> LoadType]
    BY DEF IInv, TypeOK, LoadType
  <1>2. \A r \in Requests : loads'[r] = loads[r] \/ loads'[r].stage = "asked"
    BY <1>1 DEF Ask
  <1> QED
    BY <1>2 DEF TurnedInv

LEMMA ArriveTurned ==
  ASSUME IInv, TurnedInv, NEW place, Turned(place), Arrive(place),
         \A i \in DOMAIN past' : Turned(past'[i])
  PROVE  TurnedInv'
  <1>1. at' = place /\ screen'.view = NoView
    BY DEF Arrive, Blank
  <1>2. \A r \in Requests : loads'[r].stage = "answered" => Beyond(loads'[r].answer)
    BY AskTurned DEF Arrive, TurnedInv
  <1> QED
    BY <1>1, <1>2, NothingBeyond DEF TurnedInv, Turned, Beyond

LEMMA TurnTurned ==
  ASSUME IInv, TurnedInv, NEW place, NEW b, Turned(place), Turn(place, b),
         \A i \in DOMAIN past' : Turned(past'[i])
  PROVE  TurnedInv'
  <1>1. screen.view = screen'.view
    BY DEF Turn, IInv, TypeOK
  <1>2. \A r \in Requests : loads'[r].stage = "answered" => Beyond(loads'[r].answer)
    BY AskTurned DEF Turn, TurnedInv
  <1> QED
    BY <1>1, <1>2 DEF TurnedInv, Turned, Beyond, Turn

LEMMA PageTurned == ASSUME IInv, TurnedInv, DashboardPage PROVE TurnedInv'
  <1>1. ASSUME NEW page, NEW report, Follow(Place(page, report)) PROVE TurnedInv'
    <2>1. Turned(Place(page, report))
      BY DEF Turned, Place
    <2> QED
      BY <1>1, <2>1, PastTurned, ArriveTurned DEF Follow, Push
  <1>2. CASE Back
    <2> DEFINE place == past[Len(past)]
    <2>1. Turned(place) /\ \A i \in DOMAIN past' : Turned(past'[i])
      BY <1>2, PastTurned DEF Back
    <2>2. Arrive(place) \/ Turn(place, box)
      BY <1>2 DEF Back
    <2> QED
      BY <2>1, <2>2, ArriveTurned, TurnTurned
  <1>3. CASE reload
    <2>1. \A r \in Requests : loads'[r].stage = "answered" => Beyond(loads'[r].answer)
      BY <1>3, AskTurned DEF reload
    <2>2. screen'.view = screen.view /\ UNCHANGED <<at, past>>
      BY <1>3 DEF reload, IInv, TypeOK
    <2> QED
      BY <2>1, <2>2 DEF TurnedInv, Turned, Beyond
  <1> QED
    BY <1>1, <1>2, <1>3 DEF DashboardPage, ViewReports, AllTemplates, NewReport, OpenReport

LEMMA FiltersTurned == ASSUME IInv, TurnedInv, ReportFilters PROVE TurnedInv'
  <1>1. ASSUME NEW place, NEW b, place \in Places, setFilters(place, b) PROVE TurnedInv'
    <2>1. FirstPage(place).offset = 0
      BY <1>1 DEF FirstPage, Places
    <2>2. Turned(FirstPage(place)) /\ \A i \in DOMAIN past' : Turned(past'[i])
      BY <1>1, <2>1 DEF Turned, setFilters, TurnedInv
    <2> QED
      BY <1>1, <2>2, TurnTurned DEF setFilters
  <1>2. CASE Type
    BY <1>2 DEF Type, TurnedInv, Turned, Beyond
  <1>3. CASE PickStatus
    <2>1. PICK s \in Statuses \cup {""} : setFilters([at EXCEPT !.status = s], box)
      BY <1>3 DEF PickStatus
    <2> QED
      BY <1>1, <2>1, StatusType DEF IInv, TypeOK
  <1>4. CASE Debounce
    BY <1>1, <1>4, TextType DEF Debounce, IInv, TypeOK
  <1>5. CASE clearFilters
    <2>1. [at EXCEPT !.status = "", !.q = ""] \in Places
      BY DEF IInv, TypeOK, Places, Texts
    <2> QED
      BY <1>1, <1>5, <2>1 DEF clearFilters
  <1> QED
    BY <1>2, <1>3, <1>4, <1>5 DEF ReportFilters

LEMMA PaginationTurned == ASSUME IInv, TurnedInv, Pagination PROVE TurnedInv'
  <1>1. /\ at \in Places /\ at.offset \in Nat /\ Rows \subseteq Ids /\ Rows # {}
        /\ screen.view.total \in 0..MaxReports
    BY RowsAreIds DEF IInv, TypeOK, Places, Pagination, Paged
  <1>2. Cardinality(Rows) \in Nat /\ Cardinality(Rows) > 0
    <2>1. IsFiniteSet(Ids)
      BY FS_Interval, Bounds DEF Ids
    <2>2. IsFiniteSet(Rows)
      BY <1>1, <2>1, FS_Subset
    <2>3. Cardinality(Rows) \in Nat /\ Cardinality(Rows) # 0
      BY <1>1, <2>2, FS_EmptySet, FS_CardinalityType
    <2> QED
      BY <2>3
  <1>3. PICK offset \in Nat : goToOffset(offset) /\ (offset < Seen)
    <2>1. CASE at.offset > 0 /\ goToOffset(Before(at.offset))
      <3>1. Before(at.offset) \in Nat /\ Before(at.offset) <= at.offset
        BY <1>1, Bounds DEF Before
      <3>2. at.offset < Seen
        BY <1>1, <1>2, Bounds DEF Seen
      <3>3. Seen \in Nat
        BY <1>1, <1>2, Bounds DEF Seen
      <3> QED
        BY <1>1, <2>1, <3>1, <3>2, <3>3
    <2>2. CASE ~atEnd /\ goToOffset(at.offset + PageSize)
      <3>1. at.offset + PageSize \in Nat /\ at.offset + PageSize < Seen
        BY <1>1, <2>2, Bounds DEF atEnd, Seen
      <3> QED
        BY <2>2, <3>1
    <2> QED
      BY <2>1, <2>2 DEF Pagination
  <1> DEFINE place == [FirstPage(at) EXCEPT !.offset = offset,
                                            !.counted = IF offset = 0 THEN 0 ELSE Seen]
  <1>4. FirstPage(at) \in Places
    BY <1>1, FirstPageType
  <1>5. place.offset = offset /\ place.counted = IF offset = 0 THEN 0 ELSE Seen
    BY <1>4 DEF Places
  <1>6. Turned(place)
    BY <1>3, <1>5 DEF Turned
  <1>7. Turn(place, box) /\ \A i \in DOMAIN past' : Turned(past'[i])
    BY <1>3, PastTurned DEF goToOffset, Push
  <1> QED
    BY <1>6, <1>7, TurnTurned

LEMMA ServerTurned == ASSUME IInv, TurnedInv, NEW r \in Requests, Server(r) PROVE TurnedInv'
  <1>1. UNCHANGED <<at, past, screen>>
    BY DEF Server, countReports, reports, rollups, Fail, Served
  <1>2. loads[r] \in LoadType /\ loads[r].answer \in Views
    BY DEF IInv, TypeOK, LoadType
  <1>3. /\ \A q \in Requests \ {r} : loads'[q] = loads[q]
        /\ loads'[r].stage = "answered" => Beyond(loads'[r].answer)
    <2>1. loads \in [Requests -> LoadType]
      BY DEF IInv, TypeOK, LoadType
    <2>2. CASE countReports(r)
      BY <2>1, <2>2 DEF countReports, LoadType
    <2>3. CASE reports(r)
      <3> DEFINE found == Matching(loads[r].answer.of)
                 offset == loads[r].answer.of.offset
      <3>1. /\ loads'[r].answer.of = loads[r].answer.of
            /\ loads'[r].answer.total = loads[r].answer.total
            /\ loads'[r].answer.rows = Window(found, offset)
            /\ loads'[r].answer.whole => loads[r].answer.total = Cardinality(found)
            /\ \A q \in Requests \ {r} : loads'[q] = loads[q]
        <4> DEFINE load == [loads[r] EXCEPT !.stage = "answered", !.answer.rows = Window(found, offset),
                              !.answer.whole = loads[r].answer.total = Cardinality(found)]
        <4>1. loads' = [loads EXCEPT ![r] = load]
          BY <2>3 DEF reports
        <4>2. loads'[r] = load /\ \A q \in Requests \ {r} : loads'[q] = loads[q]
          BY <2>1, <4>1
        <4>3. /\ load.answer.of = loads[r].answer.of /\ load.answer.total = loads[r].answer.total
              /\ load.answer.rows = Window(found, offset)
              /\ load.answer.whole => loads[r].answer.total = Cardinality(found)
          BY <1>2 DEF LoadType, Views
        <4> QED
          BY <4>2, <4>3
      <3>2. found \subseteq Ids /\ offset \in Nat
        BY <2>1, FoundCounted DEF LoadType, Views
      <3>3. Window(found, offset) = {} => Cardinality(found) <= offset
        BY <3>2, WindowHolds
      <3> HIDE DEF found, offset
      <3> QED
        BY <3>1, <3>3 DEF Beyond, offset
    <2>4. CASE rollups(r)
      <3>1. /\ loads'[r].answer.of.page = "dashboard"
            /\ \A q \in Requests \ {r} : loads'[q] = loads[q]
        <4> DEFINE found == Matching(loads[r].answer.of)
                   load == [loads[r] EXCEPT !.stage = "answered", !.answer.total = Cardinality(found),
                              !.answer.rows = {i \in found : status[i] = "draft"}]
        <4>1. loads' = [loads EXCEPT ![r] = load] /\ loads[r].answer.of.page = "dashboard"
          BY <2>4 DEF rollups
        <4>2. loads'[r] = load /\ \A q \in Requests \ {r} : loads'[q] = loads[q]
          BY <2>1, <4>1
        <4>3. load.answer.of = loads[r].answer.of
          BY <1>2 DEF LoadType, Views
        <4> QED
          BY <4>1, <4>2, <4>3
      <3> QED
        BY <3>1 DEF Beyond
    <2>5. CASE Fail(r)
      BY <2>1, <2>5 DEF Fail, LoadType
    <2> QED
      BY <2>2, <2>3, <2>4, <2>5 DEF Server
  <1> QED
    BY <1>1, <1>3 DEF TurnedInv, Turned, Beyond

LEMMA DeliverTurned == ASSUME IInv, TurnedInv, NEW r \in Requests, Deliver(r) PROVE TurnedInv'
  <1>1. loads \in [Requests -> LoadType] /\ screen.view \in Views
    BY DEF IInv, TypeOK, LoadType
  <1>2. loads' = [loads EXCEPT ![r] = NoLoad] /\ UNCHANGED <<at, past>>
    BY DEF Deliver
  <1>3. \A q \in Requests : loads'[q] = loads[q] \/ loads'[q].stage = "none"
    BY <1>1, <1>2 DEF NoLoad
  <1>4. Beyond(screen'.view)
    <2>1. \/ screen'.view = screen.view
          \/ screen'.view = NoView
          \/ loads[r].stage = "answered" /\ screen'.view = loads[r].answer
      BY DEF Deliver, Failed
    <2> QED
      BY <2>1, NothingBeyond DEF TurnedInv
  <1> QED
    BY <1>2, <1>3, <1>4 DEF TurnedInv, Turned, Beyond

LEMMA SidesTurned == ASSUME IInv, TurnedInv, Downloads \/ FlashEnds \/ Changes PROVE TurnedInv'
  <1>1. CASE Downloads \/ FlashEnds \/ OtherTab
    <2>1. UNCHANGED <<at, past, loads, screen>>
      BY <1>1 DEF Downloads, FlashEnds, OtherTab, exportCsv, exportRow, dismissExportError, downloadAsFile, rest
    <2> QED
      BY <2>1 DEF TurnedInv, Turned, Beyond
  <1>2. CASE createReport
    <2>1. UNCHANGED <<past, loads, screen>> /\ at'.offset = at.offset /\ at'.counted = at.counted
      BY <1>2 DEF createReport, IInv, TypeOK, Places
    <2> QED
      BY <2>1 DEF TurnedInv, Turned, Beyond
  <1>3. CASE saveAndExportReport
    <2>1. Turned(Place("table", at.report))
      BY DEF Turned, Place
    <2> QED
      BY <1>3, <2>1, PastTurned, ArriveTurned DEF saveAndExportReport, Push
  <1> QED
    BY <1>1, <1>2, <1>3 DEF Changes

LEMMA InitTurned == Init => TurnedInv
  <1> SUFFICES ASSUME Init PROVE TurnedInv
    OBVIOUS
  <1>1. at \in Places /\ Turned(at)
    BY InitialAssumption DEF Init, Turned, Places
  <1>2. past = << >> /\ screen.view = NoView
    BY DEF Init, Blank
  <1>3. \A r \in Requests : loads[r].stage # "answered"
    BY DEF Init, NoLoad
  <1> QED
    BY <1>1, <1>2, <1>3, NothingBeyond DEF TurnedInv

(* However the user filters, turns pages, goes back and lands on a report, *)
(* a table says that nothing matches only when nothing does, or when fewer *)
(* reports match than the page before it had shown (useDashboard.ts:271).  *)
THEOREM EmptyTablesMeanNone == Spec => []EmptyMeansNone
  <1>1. IInv /\ TurnedInv /\ [Next]_vars => TurnedInv'
    <2> SUFFICES ASSUME IInv, TurnedInv, [Next]_vars PROVE TurnedInv'
      OBVIOUS
    <2>1. CASE Next
      BY <2>1, PageTurned, FiltersTurned, PaginationTurned, ServerTurned, DeliverTurned, SidesTurned DEF Next
    <2>2. CASE UNCHANGED vars
      BY <2>2 DEF vars, TurnedInv, Turned, Beyond
    <2> QED
      BY <2>1, <2>2
  <1>2. IInv /\ TurnedInv => EmptyMeansNone
    <2> SUFFICES ASSUME IInv, TurnedInv, OnTable, Shown, Rows = {}, screen.view.whole, screen.view.total > 0
                 PROVE  screen.view.total < at.counted
      BY DEF EmptyMeansNone
    <2>1. screen.view.of = Query(at) /\ at.page = "table"
      BY DEF IInv, ScreenInv, OnTable
    <2>2. screen.view.total <= at.offset
      BY <2>1 DEF TurnedInv, Beyond, Query, Rows
    <2>3. at.offset \in Nat /\ at.counted \in Nat /\ screen.view.total \in 0..MaxReports
      BY RowsAreIds DEF IInv, TypeOK, Places
    <2>4. Turned(at)
      BY DEF TurnedInv
    <2> QED
      BY <2>2, <2>3, <2>4, Bounds DEF Turned
  <1> QED
    BY <1>1, <1>2, AlwaysIInv, InitHolds, InitTurned, StepKeeps, PTL DEF Spec
=============================================================================
