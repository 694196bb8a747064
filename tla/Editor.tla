-------------------------------- MODULE Editor ---------------------------------
(***************************************************************************)
(* The report page of one tab: what /reports/new and /reports/<id> load,   *)
(* the form with its two save buttons, the print and the way back to the   *)
(* dashboard, the turns of the conversation panel and, from Dictation, its *)
(* composer.  Calls outlive the page that made them: a save goes on when   *)
(* the user leaves, and an export prints and navigates even then.          *)
(*                                                                         *)
(* A report's content is a number, new for each edit; 0 is a blank form,   *)
(* the one that lacks a required field.  The history: "asks" counts what   *)
(* the user did to have a report made, "stored" what the server has taken. *)
(***************************************************************************)
EXTENDS Dictation, Functions

CONSTANTS Existing, MaxIds,     \* reports there are at first; there may be
          MaxTexts, MaxActs

ASSUME EditorAssumption ==
    /\ Existing \in Nat /\ MaxIds \in Nat /\ Existing <= MaxIds
    /\ MaxTexts \in Nat /\ MaxActs \in Nat

VARIABLES row,          \* the reports, as the server has them
          at, route, form,
          calls,        \* under way, each under a number of its own
          asks, stored, texts, acts
editor == <<row, at, route, form, calls, asks, stored, texts, acts>>
vars == <<dictation, editor>>
server == <<row, stored>>
page == <<at, route, form>>

Ids == 1..MaxIds
Texts == 0..MaxTexts

Place(name, id) == [name |-> name, id |-> id]
Away == Place("away", 0)
Reports == {Place("report", i) : i \in DOMAIN row}

NoForm == [mode |-> "none", id |-> 0, text |-> 0, busy |-> "none", status |-> "idle", saved |-> 0]
Form(mode, id, text) == [NoForm EXCEPT !.mode = mode, !.id = id, !.text = text]

Call(kind, id, text) ==
    [kind |-> kind, id |-> id, text |-> text, stage |-> "asked", who |-> "here", shown |-> <<0, 0>>]

(* Required fields.                                                        *)
Complete(text) == text # 0

Init ==
    /\ DictationInit
    /\ row = [i \in 1..Existing |-> [text |-> 0, exported |-> FALSE]]
    /\ at = Away /\ form = NoForm /\ calls = [i \in {} |-> Away]
    /\ route = [kind |-> "none", attached |-> FALSE]
    /\ asks = 0 /\ stored = {} /\ texts = 0 /\ acts = 0

Act == acts < MaxActs /\ acts' = acts + 1
NewText == texts < MaxTexts /\ texts' = texts + 1

----------------------------------------------------------------------------
(* The calls under way: one more, under the least number free, and one     *)
(* less.                                                                   *)
Free(cs) == CHOOSE n \in 1..Cardinality(DOMAIN cs) + 1 : n \notin DOMAIN cs
Started(cs, call) == [i \in DOMAIN cs \cup {Free(cs)} |-> IF i \in DOMAIN cs THEN cs[i] ELSE call]
Ended(cs, i) == Restrict(cs, DOMAIN cs \ {i})

(* Going somewhere.  The effect's cleanup cancels what the page waited for;*)
(* nothing aborts the calls.                                               *)
Abandon(cs) ==
    [i \in {j \in DOMAIN cs : cs[j].stage = "asked" \/ cs[j].kind \in {"find", "export"}} |->
        [cs[i] EXCEPT !.who = IF @ = "here" THEN "left" ELSE @]]

(* A reload stops the handlers as well, not what the server was asked.     *)
Drop(cs) == [i \in {j \in DOMAIN cs : cs[j].stage = "asked"} |-> [cs[i] EXCEPT !.who = "gone"]]

(* Mutant: each run of the effect calls the server.                        *)
EffectRun_NoCache(run, call) ==
    [calls |-> Started(run.calls, call), inFlight |-> TRUE, attached |-> TRUE]

(* Mutant: a run that finds a load started leaves it to the run before.    *)
EffectRun_StartedFlag(run, call) ==
    IF run.inFlight THEN run
    ELSE [calls |-> Started(run.calls, call), inFlight |-> TRUE, attached |-> TRUE]

EffectRun(run, call) ==
    IF run.inFlight THEN [run EXCEPT !.attached = TRUE]
    ELSE [calls |-> Started(run.calls, call), inFlight |-> TRUE, attached |-> TRUE]

(* The effect for a new key.  StrictMode runs it twice, with the cleanup   *)
(* of the first run in between.                                            *)
Effect(cs, call, strict) ==
    LET first == EffectRun([calls |-> cs, inFlight |-> FALSE, attached |-> FALSE], call)
    IN IF strict THEN EffectRun([first EXCEPT !.attached = FALSE], call) ELSE first

(* Without a report: a bundled fixture, or the builder's live schema.       *)
Previews == {Form(mode, 0, 0) : mode \in {"fixture", "external"}}

Show(place, cs, strict) ==
    LET call == IF place.name = "new" THEN Call("new", 0, 0) ELSE Call("load", place.id, 0)
        run  == Effect(cs, call, strict)
    IN /\ at' = place
       /\ IF place.name \in {"new", "report"}
             THEN /\ calls' = run.calls
                  /\ route' = [kind |-> "loading", attached |-> run.attached]
                  /\ form' = NoForm
             ELSE /\ calls' = cs
                  /\ route' = [kind |-> "none", attached |-> FALSE]
                  /\ form' \in IF place = Away THEN {NoForm} ELSE Previews
       /\ asks' = IF place.name = "new" THEN asks + 1 ELSE asks
       /\ Become(Absent)
       /\ UNCHANGED <<server, texts>>

(* The places there are to go to.  No link leads straight from a report    *)
(* that is shown to a new one; a jump in the history could.                *)
Elsewhere ==
    ({Away, Place("new", 0), Place("generate", 0)} \cup Reports)
        \ ({at} \cup IF form.mode = "report" THEN {Place("new", 0)} ELSE {})

Go(place, strict) == Act /\ Show(place, Abandon(calls), strict)

Reload(strict) == Act /\ at # Away /\ Show(at, Drop(calls), strict)

(* Mutant: the address is made of the form as it was before.               *)
Deliver_StaleId(i) ==
    LET c == calls[i] IN
    /\ c.kind \in {"load", "new"} /\ c.who = "here" /\ c.stage = "answered"
    /\ route.attached
    /\ calls' = Ended(calls, i)
    /\ route' = [route EXCEPT !.kind = "ready"]
    /\ form' = Form("report", c.id, c.text)
    /\ at' = Place("report", form.id)
    /\ Become(Panel)
    /\ UNCHANGED <<server, asks, texts, acts>>

(* The load the page is attached to.  A draft just made takes the page's   *)
(* address, in place of /reports/new, and nothing is loaded again.         *)
Deliver(i) ==
    LET c == calls[i] IN
    /\ c.kind \in {"load", "new"} /\ c.who = "here" /\ c.stage # "asked"
    /\ route.attached
    /\ calls' = Ended(calls, i)
    /\ IF c.stage = "answered"
          THEN /\ route' = [route EXCEPT !.kind = "ready"]
               /\ form' = Form("report", c.id, c.text)
               /\ at' = Place("report", c.id)
               /\ Become(Panel)
          ELSE /\ route' = [route EXCEPT !.kind = "error"]
               /\ UNCHANGED <<form, at, dictation>>
    /\ UNCHANGED <<server, asks, texts, acts>>

----------------------------------------------------------------------------
(* The form.  Any edit clears what the toolbar says, save or no save.      *)
noteEdit == [form EXCEPT !.status = "idle"]

(* A field is filled, or a required one emptied.                           *)
setFieldValue ==
    /\ Act /\ form.mode # "none"
    /\ \/ NewText /\ form' = [noteEdit EXCEPT !.text = texts']
       \/ UNCHANGED texts /\ form' = [noteEdit EXCEPT !.text = 0]
    /\ UNCHANGED <<dictation, server, at, route, calls, asks>>

(* The parts, or the customer's name: neither fills a required field.      *)
setParts ==
    /\ Act /\ form.mode # "none"
    /\ IF Complete(form.text) THEN NewText /\ form' = [noteEdit EXCEPT !.text = texts']
                             ELSE UNCHANGED texts /\ form' = noteEdit
    /\ UNCHANGED <<dictation, server, at, route, calls, asks>>

loadFixture ==
    /\ Act /\ form.mode = "fixture"
    /\ form' = [form EXCEPT !.text = 0]
    /\ UNCHANGED <<dictation, server, at, route, calls, asks, texts>>

CanSave == form.mode = "report" /\ form.busy = "none"
CanExport == form.mode \in {"report", "fixture"} /\ form.busy = "none"

Begin(busy, call) ==
    /\ form' = [form EXCEPT !.busy = busy, !.status = "idle"]
    /\ calls' = Started(calls, call)

handleSaveDraft ==
    /\ Act /\ CanSave
    /\ Begin("draft", Call("draft", form.id, form.text))
    /\ UNCHANGED <<dictation, server, at, route, asks, texts>>

(* A fixture has no report yet: resolveExportTarget makes one, every time. *)
handleSaveAndExport ==
    /\ Act /\ CanExport
    /\ IF ~Complete(form.text)
          THEN form' = [form EXCEPT !.status = "error"] /\ UNCHANGED <<calls, asks>>
          ELSE IF form.mode = "report"
                  THEN Begin("export", Call("export", form.id, form.text)) /\ UNCHANGED asks
                  ELSE Begin("export", Call("find", 0, form.text)) /\ asks' = asks + 1
    /\ UNCHANGED <<dictation, server, at, route, texts>>

Idle(status, text) == [form EXCEPT !.busy = "none", !.status = status, !.saved = text]

(* Mutant: the saved line is set whether the save failed or not.           *)
DraftHeard_Finally(i) ==
    LET c == calls[i] IN
    /\ c.kind = "draft" /\ c.stage # "asked"
    /\ calls' = Ended(calls, i)
    /\ form' = Idle("saved", c.text)
    /\ UNCHANGED <<dictation, server, at, route, asks, texts, acts>>

DraftHeard(i) ==
    LET c == calls[i] IN
    /\ c.kind = "draft" /\ c.stage # "asked"
    /\ calls' = Ended(calls, i)
    /\ form' = IF c.stage = "answered" THEN Idle("saved", c.text) ELSE Idle("error", 0)
    /\ UNCHANGED <<dictation, server, at, route, asks, texts, acts>>

(* resolveExportTarget is back: the export itself.                         *)
Resolved(i) ==
    LET c == calls[i] IN
    /\ c.kind = "find" /\ c.stage = "answered"
    /\ calls' = [calls EXCEPT ![i].kind = "export", ![i].stage = "asked"]
    /\ UNCHANGED <<dictation, server, page, asks, texts, acts>>

(* Saved: window.print takes what is on the screen.                        *)
Exported(i) ==
    LET c == calls[i] IN
    /\ c.kind = "export" /\ c.stage = "answered"
    /\ calls' = [calls EXCEPT ![i].stage = "printing", ![i].shown = <<form.id, form.text>>]
    /\ UNCHANGED <<dictation, server, page, asks, texts, acts>>

ExportFailed(i) ==
    LET c == calls[i] IN
    /\ c.kind \in {"find", "export"} /\ c.stage = "failed"
    /\ calls' = Ended(calls, i)
    /\ form' = IF c.who = "here" THEN Idle("error", 0) ELSE form
    /\ UNCHANGED <<dictation, server, at, route, asks, texts, acts>>

(* The dialog closes, or a minute has passed: to the table, from whatever  *)
(* page is shown by now.                                                   *)
Printed(i) ==
    /\ calls[i].stage = "printing"
    /\ Show(Away, Abandon(Ended(calls, i)), FALSE)
    /\ UNCHANGED acts

----------------------------------------------------------------------------
(* The conversation panel of the form.                                     *)
Send ==
    /\ Act /\ handleSend
    /\ calls' = Started(calls, Call("turn", form.id, 0))
    /\ UNCHANGED <<server, page, asks, texts>>

(* handleAgentResult puts the draft in place of the form.                  *)
TurnHeard(i) ==
    LET c == calls[i] IN
    /\ c.kind = "turn" /\ c.stage # "asked"
    /\ calls' = Ended(calls, i)
    /\ \/ c.stage = "failed" /\ SendFailed /\ UNCHANGED form
       \/ c.stage = "answered" /\ Answered("awaiting") /\ UNCHANGED form
       \/ /\ c.stage = "answered" /\ Answered("done")
          /\ form' = [form EXCEPT !.text = c.text, !.status = "idle"]
    /\ UNCHANGED <<server, at, route, asks, texts, acts>>

Compose ==
    /\ TypeText \/ onresult \/ stop \/ onend \/ GrantMic \/ DenyMic
    /\ UNCHANGED editor

Record == Act /\ start /\ UNCHANGED <<server, page, calls, asks, texts>>

----------------------------------------------------------------------------
(* The server, and the network.  A call left is not heard, but for what an *)
(* export still does.                                                      *)
Reply(i, stage, id, text) ==
    LET c == calls[i] IN
    calls' = IF c.who = "here" \/ (c.who = "left" /\ c.kind \in {"find", "export"})
                THEN [calls EXCEPT ![i].stage = stage, ![i].id = id, ![i].text = text]
                ELSE Ended(calls, i)

getReport(i) ==
    /\ calls[i].kind = "load"
    /\ Reply(i, "answered", calls[i].id, row[calls[i].id].text)
    /\ UNCHANGED <<server, texts>>

createReport(i) ==
    /\ calls[i].kind \in {"new", "find"} /\ Len(row) < MaxIds
    /\ row' = Append(row, [text |-> 0, exported |-> FALSE])
    /\ \E stage \in {"answered", "failed"} : Reply(i, stage, Len(row'), calls[i].text)
    /\ UNCHANGED <<stored, texts>>

Take(c, text) ==
    /\ row' = [row EXCEPT ![c.id].text = text, ![c.id].exported = @ \/ c.kind = "export"]
    /\ stored' = stored \cup {<<c.id, text>>}

saveReport(i) ==
    LET c == calls[i] IN
    /\ c.kind = "draft" \/ (c.kind = "export" /\ Complete(c.text))
    /\ Take(c, c.text)
    /\ \E stage \in {"answered", "failed"} : Reply(i, stage, c.id, c.text)
    /\ UNCHANGED texts

(* A turn works on a draft; it answers with the draft read again.          *)
agentChat(i) ==
    LET c == calls[i] IN
    /\ c.kind = "turn" /\ ~row[c.id].exported
    /\ \/ NewText /\ Take(c, texts')
       \/ UNCHANGED <<server, texts>>
    /\ \E stage \in {"answered", "failed"} : Reply(i, stage, c.id, row'[c.id].text)

Refuse(i) ==
    /\ Reply(i, "failed", calls[i].id, calls[i].text)
    /\ UNCHANGED <<server, texts>>

Serve(i) ==
    /\ calls[i].stage = "asked"
    /\ getReport(i) \/ createReport(i) \/ saveReport(i) \/ agentChat(i) \/ Refuse(i)
    /\ UNCHANGED <<dictation, page, asks, acts>>

(* The same report, saved or exported in another tab.                      *)
OtherTab ==
    /\ Act /\ NewText
    /\ \E i \in DOMAIN row, kind \in {"draft", "export"} : Take(Call(kind, i, texts'), texts')
    /\ UNCHANGED <<dictation, page, calls, asks>>

----------------------------------------------------------------------------
Hear(i) ==
    \/ Deliver(i) \/ DraftHeard(i) \/ Resolved(i) \/ Exported(i) \/ ExportFailed(i)
    \/ Printed(i) \/ TurnHeard(i)
Network == \E i \in DOMAIN calls : Serve(i) \/ Hear(i)
Recogniser == voice.recogniser = "stopped" /\ onend /\ UNCHANGED editor

Next ==
    \/ \E place \in Elsewhere, strict \in BOOLEAN : Go(place, strict)
    \/ \E strict \in BOOLEAN : Reload(strict)
    \/ setFieldValue \/ setParts \/ loadFixture \/ handleSaveDraft \/ handleSaveAndExport
    \/ Send \/ Compose \/ Record \/ OtherTab
    \/ Network

Spec == Init /\ [][Next]_vars

(* A call is answered or fails, a handler runs when its answer is there, a *)
(* print ends within a minute, and a recogniser told to stop stops.        *)
FairSpec == Spec /\ WF_vars(Network) /\ WF_vars(Recogniser)

----------------------------------------------------------------------------
CallRecords ==
    [kind : {"load", "new", "draft", "find", "export", "turn"}, id : {0} \cup Ids, text : Texts,
     stage : {"asked", "answered", "failed", "printing"}, who : {"here", "left", "gone"},
     shown : ({0} \cup Ids) \X Texts]

TypeOK ==
    /\ DictationTypeOK
    /\ row \in Seq([text : Texts, exported : BOOLEAN]) /\ Len(row) <= MaxIds
    /\ at \in {Away, Place("new", 0), Place("generate", 0)} \cup Reports
    /\ route \in [kind : {"none", "loading", "ready", "error"}, attached : BOOLEAN]
    /\ form \in [mode : {"none", "report", "fixture", "external"}, id : {0} \cup Ids, text : Texts,
                 busy : {"none", "draft", "export"}, status : {"idle", "saved", "error"},
                 saved : Texts]
    /\ IsFiniteSet(DOMAIN calls) /\ DOMAIN calls \subseteq Nat \ {0}
    /\ calls \in [DOMAIN calls -> CallRecords]
    /\ asks \in 0..MaxActs /\ stored \subseteq Ids \X Texts
    /\ texts \in Texts /\ acts \in 0..MaxActs

Saving == {i \in DOMAIN calls : calls[i].who = "here" /\ calls[i].kind \in {"draft", "find", "export"}}

(* Whatever was left, reloaded, retried or answered late: the form is that *)
(* of the report in the address; "Draft saved" names a text the server took*)
(* for that report; one press is one save under way ("a double-tap cannot  *)
(* race two writes", ReportEditorPage.tsx:81); and no draft is made that   *)
(* nobody asked for ("leave an orphan row behind", ReportEditorRoute:76).  *)
PageIsTrue ==
    /\ form.mode = "report" => at = Place("report", form.id)
    /\ form.status = "saved" => <<form.id, form.saved>> \in stored
    /\ Cardinality(Saving) = (IF form.busy = "none" THEN 0 ELSE 1)
    /\ Len(row) <= Existing + asks

(* When the user pauses, all that is under way ends: the page shows a form *)
(* or an error, its buttons work again, a turn is over and a recording told*)
(* to stop has.  (The started flag "subtly broken", "the page hangs on     *)
(* Loading", ReportEditorRoute.tsx:79-83; the capped wait, the Page:755.)  *)
Settles ==
    <>[](/\ DOMAIN calls = {} /\ route.kind # "loading" /\ form.busy = "none"
         /\ composer.phase # "sending" /\ voice.recogniser # "stopped")

(* What is printed is the document that was exported.  ("Navigating first  *)
(* unmounts the document out from under the print preview and the user     *)
(* prints a blank dashboard", ReportEditorPage.tsx:351.)                   *)
PrintsWhatItExported ==
    \A i \in DOMAIN calls :
        calls[i].stage = "printing" => calls[i].shown[2] = calls[i].text
=============================================================================
