---------------------------- MODULE Conversation -----------------------------
(***************************************************************************)
(* Drafting a report by talking to the agent.  A technician has the report *)
(* open in the editor, where a form and a conversation panel work side by  *)
(* side: the form is edited and saved as a draft by hand, the panel sends  *)
(* the whole transcript for each turn of the conversation.  A turn runs on *)
(* the server: it loads the draft, lets the model fill fields in a copy of *)
(* its content, one tool call per answer of the gateway, and ends by       *)
(* saving the copy, by asking the technician, or by giving up.             *)
(*                                                                         *)
(* A turn whose connection broke goes on without anyone waiting, and the   *)
(* technician may have sent another; so there may be several at a time.    *)
(* Flags and tokens, which a turn only reports, are left out, and so are   *)
(* the parts, the customer name and the title; a tool call that does not   *)
(* change the copy of the content is just an iteration.                    *)
(***************************************************************************)
EXTENDS Naturals, Sequences, FiniteSets, FieldRules

CONSTANTS
    Fields, TypeOf,  \* the fields of the report's schema snapshot
    Proposals,       \* the JSON values the model may propose for a field
    Configs,         \* the caps the server may be configured with
    PanelCap,        \* TURN_CAP of the panel, which has no configuration
    MaxIters,        \* tool calls in a turn
    MaxSends,        \* messages sent, a bound for model checking
    MaxEdits,        \* edits of the form, a bound for model checking
    MaxSaves         \* saves of the draft by hand, a bound for model checking

Turns == 1 .. MaxSends

ASSUME FieldsAssumption == TypeOf \in [Fields -> Types] /\ Proposals \subseteq JSON
ASSUME CapsAssumption ==
    /\ Configs \subseteq [turn : Nat \ {0}, question : Nat \ {0}]
    /\ PanelCap \in Nat \ {0} /\ MaxIters \in Nat \ {0}
    /\ MaxSends \in Nat /\ MaxEdits \in Nat /\ MaxSaves \in Nat

VARIABLES
    caps,     \* turnCap and questionCap of the handler
    stored,   \* the content column of the report
    editor,   \* the form: its content, and the fields edited since it was loaded
    panel,    \* the conversation panel
    turns,    \* each turn on the server
    save,     \* the draft save under way
    edits, saves

vars == <<caps, stored, editor, panel, turns, save, edits, saves>>

Message == [role : {"technician", "agent"}, id : Turns]
Content == [values : [Fields -> JSON], filledBy : {"manual", "agent", "mixed"},
            ai : SUBSET Fields]   \* history: the fields whose value the agent proposed
EmptyContent == [values |-> [f \in Fields |-> None], filledBy |-> "manual", ai |-> {}]

Outcomes == {"none", "save_draft", "ask_technician", "iteration_cap", "parse_failure",
             "turn_cap", "refused", "unavailable", "rejected"}
Errors == {"refused", "unavailable", "rejected"}
Turn == [stage : {"unused", "sent", "loop", "persist", "reload", "answer", "over"},
         messages : Seq(Message), remaining : Nat, iters : 0 .. MaxIters,
         base : Content,             \* the content loaded as the turn began
         content : Content,          \* the copy the tool calls work on
         filled : SUBSET Fields,     \* the fields filled in it
         report : Content,           \* the content the answer carries
         outcome : Outcomes]
NoTurn == [stage |-> "unused", messages |-> <<>>, remaining |-> 0, iters |-> 0,
           base |-> EmptyContent, content |-> EmptyContent, filled |-> {},
           report |-> EmptyContent, outcome |-> "none"]

NoSave == [busy |-> FALSE, content |-> EmptyContent, touched |-> {}]

----------------------------------------------------------------------------
ValidateContent(c) ==
    /\ c.filledBy \in {"manual", "agent", "mixed"}
    /\ \A f \in Fields : Legal(TypeOf[f], c.values[f])

FilledByAfterAgent(prior) == IF prior = "agent" THEN "agent" ELSE "mixed"

(* Mutant: the form labels whatever it shows as filled by hand. *)
ContentFromWireByHand(c) ==
    [c EXCEPT !.values = [f \in Fields |-> FieldValueFromWire(TypeOf[f], c.values[f])],
              !.filledBy = "manual"]

ContentFromWire(c) ==
    [c EXCEPT !.values = [f \in Fields |-> FieldValueFromWire(TypeOf[f], c.values[f])],
              !.filledBy = IF @ \in {"agent", "mixed"} THEN @ ELSE "manual"]

QuestionsUsed(messages) == Cardinality({i \in DOMAIN messages : messages[i].role = "agent"})
TurnsUsed(messages) == QuestionsUsed(messages)

ValidateTranscript(messages) ==
    /\ messages # <<>>
    /\ messages[1].role = "technician"
    /\ messages[Len(messages)].role = "technician"

----------------------------------------------------------------------------
Init ==
    /\ caps \in Configs
    /\ stored = EmptyContent
    /\ editor = [content |-> ContentFromWire(EmptyContent), touched |-> {}]
    /\ panel = [phase |-> "idle", messages |-> <<>>, draft |-> 0, turn |-> 0]
    /\ turns = [t \in Turns |-> NoTurn]
    /\ save = NoSave
    /\ edits = 0 /\ saves = 0

(***************************************************************************)
(* The form.                                                               *)
(***************************************************************************)
SetFieldValue(f, value) ==
    /\ edits < MaxEdits
    /\ edits' = edits + 1
    /\ editor' = [content |-> [editor.content EXCEPT !.values[f] = value, !.ai = @ \ {f}],
                  touched |-> editor.touched \cup {f}]
    /\ UNCHANGED <<caps, stored, panel, turns, save, saves>>

SaveDraft ==
    /\ ~save.busy /\ saves < MaxSaves
    /\ saves' = saves + 1
    /\ save' = [busy |-> TRUE, content |-> editor.content, touched |-> editor.touched]
    /\ UNCHANGED <<caps, stored, editor, panel, turns, edits>>

(* handleUpdate; the write may have been made though the answer is lost. *)
DraftSaved ==
    /\ save.busy
    /\ ValidateContent(save.content)
    /\ stored' = save.content
    /\ save' = NoSave
    /\ UNCHANGED <<caps, editor, panel, turns, edits, saves>>

DraftNotSaved ==
    /\ save.busy
    /\ save' = NoSave
    /\ UNCHANGED <<caps, stored, editor, panel, turns, edits, saves>>

(***************************************************************************)
(* The panel.                                                              *)
(***************************************************************************)
(* A message is named after the turn it was first typed for: what a failed *)
(* send put back into the input keeps its name.                            *)
Send(t) ==
    /\ panel.phase # "sending"
    /\ TurnsUsed(panel.messages) < PanelCap
    /\ turns[t].stage = "unused" /\ \A u \in Turns : u < t => turns[u].stage # "unused"
    /\ LET message == [role |-> "technician", id |-> IF panel.draft = 0 THEN t ELSE panel.draft]
           transcript == Append(panel.messages, message)
       IN  /\ panel' = [phase |-> "sending", messages |-> transcript, draft |-> 0, turn |-> t]
           /\ turns' = [turns EXCEPT ![t].stage = "sent", ![t].messages = transcript]
    /\ UNCHANGED <<caps, stored, editor, save, edits, saves>>

(* Mutant: the input is restored, the transcript is not. *)
RevertedInputOnly == [phase |-> "error", messages |-> panel.messages,
             draft |-> panel.messages[Len(panel.messages)].id, turn |-> 0]

Reverted == [phase |-> "error", messages |-> SubSeq(panel.messages, 1, Len(panel.messages) - 1),
             draft |-> panel.messages[Len(panel.messages)].id, turn |-> 0]

Finished(t) == [turns EXCEPT ![t] = [NoTurn EXCEPT !.stage = "over", !.outcome = turns[t].outcome]]

(* What the server answers; a question is the last message it returns. *)
Answer(t) ==
    IF turns[t].outcome = "ask_technician"
    THEN Append(turns[t].messages, [role |-> "agent", id |-> t])
    ELSE turns[t].messages

Asked(t) ==
    /\ panel.turn = t /\ turns[t].stage = "answer" /\ turns[t].outcome = "ask_technician"
    /\ panel' = [phase |-> "awaiting", messages |-> Answer(t), draft |-> 0, turn |-> 0]
    /\ turns' = Finished(t)
    /\ UNCHANGED <<caps, stored, editor, save, edits, saves>>

Completed(t) ==
    /\ panel.turn = t /\ turns[t].stage = "answer"
    /\ turns[t].outcome \notin Errors \cup {"ask_technician"}
    /\ panel' = [phase |-> "done", messages |-> Answer(t), draft |-> 0, turn |-> 0]
    /\ editor' = [content |-> ContentFromWire(turns[t].report), touched |-> {}]
    /\ turns' = Finished(t)
    /\ UNCHANGED <<caps, stored, save, edits, saves>>

Failed(t) ==
    /\ panel.turn = t /\ turns[t].stage = "answer" /\ turns[t].outcome \in Errors
    /\ panel' = Reverted
    /\ turns' = Finished(t)
    /\ UNCHANGED <<caps, stored, editor, save, edits, saves>>

(* The connection breaks, before or after the server has its answer ready. *)
ConnectionLost(t) ==
    /\ panel.turn = t
    /\ panel' = Reverted
    /\ UNCHANGED <<caps, stored, editor, turns, save, edits, saves>>

Unheard(t) ==
    /\ panel.turn # t /\ turns[t].stage = "answer"
    /\ turns' = Finished(t)
    /\ UNCHANGED <<caps, stored, editor, panel, save, edits, saves>>

(***************************************************************************)
(* A turn on the server.                                                   *)
(***************************************************************************)
Only(t, turn) ==
    /\ turns' = [turns EXCEPT ![t] = turn]
    /\ UNCHANGED <<caps, stored, editor, panel, save, edits, saves>>

(* A turn that has its answer keeps nothing else; an error carries no report. *)
Answering(t, outcome, report) ==
    [NoTurn EXCEPT !.stage = "answer", !.messages = turns[t].messages,
                   !.outcome = outcome, !.report = report]

Fail(t, outcome) == Only(t, Answering(t, outcome, EmptyContent))

(* loadOwnedDraft, the body and the transcript, and the gateway there is. *)
Refuse(t) == turns[t].stage = "sent" /\ Fail(t, "refused")

Begin(t) ==
    LET messages == turns[t].messages
        loaded == [turns[t] EXCEPT !.base = stored, !.content = stored]
    IN  /\ turns[t].stage = "sent"
        /\ ValidateTranscript(messages)
        /\ IF TurnsUsed(messages) >= caps.turn
           THEN Only(t, [loaded EXCEPT !.stage = "reload", !.outcome = "turn_cap"])
           ELSE Only(t, [loaded EXCEPT !.stage = "loop",
                    !.remaining = IF QuestionsUsed(messages) > caps.question THEN 0
                                  ELSE caps.question - QuestionsUsed(messages)])

(* Mutant: the loop counts to its bound included. *)
LoopingOnceMore(t) == turns[t].stage = "loop" /\ turns[t].iters <= MaxIters

Looping(t) == turns[t].stage = "loop" /\ turns[t].iters < MaxIters

(* The turn as it is after one more answer of the gateway, and after the last. *)
Iterated(t) == [turns[t] EXCEPT !.iters = @ + 1]
Ending(t, stage, outcome) ==
    [turns[t] EXCEPT !.stage = stage, !.outcome = outcome, !.iters = 0, !.remaining = 0,
                     !.content = IF stage = "persist" THEN @ ELSE EmptyContent,
                     !.filled = IF stage = "persist" THEN @ ELSE {}]

GatewayFails(t) == Looping(t) /\ Fail(t, "unavailable")

ParseFailure(t) ==
    Looping(t) /\ Only(t, Ending(t, "reload", "parse_failure"))

FillField(t, f, raw) ==
    /\ Looping(t)
    /\ NormalizeAccepts(TypeOf[f], raw)
    /\ Only(t, [Iterated(t) EXCEPT
           !.content.values[f] = Normalized(TypeOf[f], raw),
           !.content.ai = @ \cup {f}, !.filled = @ \cup {f}])

(* flag_missing_field, the three get_ tools, an unknown tool or field, a   *)
(* value or a question that is refused: the model is told, and goes on.    *)
OtherTool(t) == Looping(t) /\ Only(t, Iterated(t))

(* A turn that pauses or runs out of iterations is written only if it has  *)
(* filled a field.                                                         *)
AfterLoop(t) == IF turns[t].filled # {} THEN "persist" ELSE "reload"

(* Mutant: whether a question is left is not looked at. *)
AskWhateverRemains(t) ==
    /\ Looping(t)
    /\ Only(t, Ending(t, AfterLoop(t), "ask_technician"))

AskTechnician(t) ==
    /\ Looping(t) /\ turns[t].remaining > 0
    /\ Only(t, Ending(t, AfterLoop(t), "ask_technician"))

CallSaveDraft(t) ==
    Looping(t) /\ Only(t, Ending(t, "persist", "save_draft"))

(* Mutant: falling out of the loop is handled for a turn with fills only. *)
IterationCapWithFills(t) ==
    /\ turns[t].stage = "loop" /\ turns[t].iters = MaxIters /\ turns[t].filled # {}
    /\ Only(t, Ending(t, "persist", "iteration_cap"))

IterationCap(t) ==
    /\ turns[t].stage = "loop" /\ turns[t].iters = MaxIters
    /\ Only(t, Ending(t, AfterLoop(t), "iteration_cap"))

(* Mutant: what is written is what the turn filled, not the whole copy. *)
PersistedFillsOnly(t) ==
    [turns[t].content EXCEPT
        !.values = [f \in Fields |-> IF f \in turns[t].filled THEN @[f] ELSE None],
        !.filledBy = FilledByAfterAgent(turns[t].base.filledBy)]

(* newPersistFunc: prior is what filledBy was when the turn began. *)
Persisted(t) ==
    [turns[t].content EXCEPT !.filledBy = FilledByAfterAgent(turns[t].base.filledBy)]

Persist(t) ==
    /\ turns[t].stage = "persist"
    /\ IF ValidateContent(Persisted(t))
       THEN /\ stored' = Persisted(t)
            /\ turns' = [turns EXCEPT ![t].stage = "reload",
                                     ![t].content = EmptyContent, ![t].filled = {}]
            /\ UNCHANGED <<caps, editor, panel, save, edits, saves>>
       ELSE Fail(t, "rejected")

(* Store.Update reports an error, before or after its commit took effect. *)
PersistFails(t) ==
    /\ turns[t].stage = "persist"
    /\ ValidateContent(Persisted(t))
    /\ stored' \in {stored, Persisted(t)}
    /\ turns' = [turns EXCEPT ![t] = Answering(t, "unavailable", EmptyContent)]
    /\ UNCHANGED <<caps, editor, panel, save, edits, saves>>

(* The answer carries the draft read again, or, if that fails, as it was *)
(* when the turn began.                                                  *)
Reload(t) ==
    /\ turns[t].stage = "reload"
    /\ \E report \in {stored, turns[t].base} :
           Only(t, Answering(t, turns[t].outcome, report))

----------------------------------------------------------------------------
Serve(t) ==
    \/ Refuse(t) \/ Begin(t)
    \/ GatewayFails(t) \/ ParseFailure(t) \/ OtherTool(t)
    \/ \E f \in Fields, raw \in Proposals : FillField(t, f, raw)
    \/ AskTechnician(t) \/ CallSaveDraft(t) \/ IterationCap(t)
    \/ Persist(t) \/ PersistFails(t) \/ Reload(t)

Hear(t) == Asked(t) \/ Completed(t) \/ Failed(t) \/ Unheard(t)

Form ==
    \/ \E f \in Fields : \E value \in Enterable(TypeOf[f]) : SetFieldValue(f, value)
    \/ SaveDraft \/ DraftSaved \/ DraftNotSaved

Next ==
    \/ Form
    \/ \E t \in Turns : Send(t) \/ ConnectionLost(t) \/ Hear(t) \/ Serve(t)

Spec == Init /\ [][Next]_vars

(* The server goes on with every turn it has begun, and its answers, or the *)
(* news of a broken connection, reach the browser.                          *)
Fairness ==
    /\ \A t \in Turns : WF_vars(Serve(t)) /\ WF_vars(Hear(t))
    /\ WF_vars(DraftSaved \/ DraftNotSaved)
FairSpec == Spec /\ Fairness

----------------------------------------------------------------------------
TypeOK ==
    /\ caps \in Configs
    /\ stored \in Content
    /\ editor \in [content : Content, touched : SUBSET Fields]
    /\ panel \in [phase : {"idle", "sending", "awaiting", "done", "error"},
                  messages : Seq(Message), draft : Turns \cup {0}, turn : Turns \cup {0}]
    /\ turns \in [Turns -> Turn]
    /\ save \in [busy : BOOLEAN, content : Content, touched : SUBSET Fields]
    /\ edits \in 0 .. MaxEdits /\ saves \in 0 .. MaxSaves

(* What fill_field accepted is never refused when the turn is saved, nor is *)
(* a draft the technician saves: the agent's rules, the form's and the      *)
(* server's agree, over everything already in the report as well            *)
(* (tools.go: "a fill_field write can never be rejected later").            *)
NothingIsRejected ==
    /\ \A t \in Turns : turns[t].outcome # "rejected"
    /\ save.busy => ValidateContent(save.content)

(* However the conversation goes, with sends that fail and answers that are *)
(* lost, the agent has asked no more questions than it may (Req 4.2).       *)
QuestionsWithinCap ==
    /\ QuestionsUsed(panel.messages) <= caps.question
    /\ \A t \in Turns : QuestionsUsed(turns[t].messages) <= caps.question

(* The transcript in the browser is the conversation: no message is in it  *)
(* twice ("a retry must not double the message"), a text put back into the *)
(* input is not in it any more, every question answers a message of the    *)
(* technician's, and what is sent is never a transcript the server refuses.*)
TranscriptIsTheConversation ==
    LET messages == panel.messages IN
    /\ \A i, j \in DOMAIN messages : messages[i] = messages[j] => i = j
    /\ panel.draft # 0 =>
           [role |-> "technician", id |-> panel.draft] \notin {messages[i] : i \in DOMAIN messages}
    /\ \A i \in DOMAIN messages : messages[i].role = "agent" =>
           i > 1 /\ messages[i - 1].role = "technician" /\ messages[i - 1].id <= messages[i].id
    /\ panel.phase = "sending" => ValidateTranscript(messages)

(* A report with a value the agent proposed in it is not labelled as filled *)
(* by hand alone, whatever order the two wrote it in.                       *)
FilledByIsHonest ==
    /\ stored.ai # {} => stored.filledBy # "manual"
    /\ editor.content.ai # {} => editor.content.filledBy # "manual"

(* When a turn is saved it changes the fields it filled and no others,     *)
(* except that it puts back what was written to the draft since it began.  *)
AgentWritesItsFills ==
    [][\A t \in Turns : turns[t].stage = "persist" /\ turns'[t].stage # "persist" =>
          \A f \in Fields : stored'.values[f] # stored.values[f] =>
             f \in turns[t].filled \/ stored.values[f] # turns[t].base.values[f]]_vars

(* Every message sent gets an answer or an error, and every draft save     *)
(* ends: the model cannot keep a turn going for ever.                      *)
EveryRequestEnds ==
    /\ panel.phase = "sending" ~> panel.phase # "sending"
    /\ save.busy ~> ~save.busy

(* A turn only goes forward, whatever the model answers, the technician    *)
(* does, or other turns write: each of its steps leaves fewer to come, and *)
(* the iterations left are among them ("Loop up to maxIters", runner.go).  *)
StepsLeft(turn) ==
    CASE turn.stage = "unused" -> MaxIters + 6
      [] turn.stage = "sent" -> MaxIters + 5
      [] turn.stage = "loop" -> MaxIters - turn.iters + 4
      [] turn.stage = "persist" -> 3
      [] turn.stage = "reload" -> 2
      [] turn.stage = "answer" -> 1
      [] OTHER -> 0

TurnsGoForward ==
    [][\A t \in Turns : turns'[t] = turns[t] \/ StepsLeft(turns'[t]) < StepsLeft(turns[t])]_vars

(* Requirement 4.1 of agent-conversation: "THE Agent SHALL enforce a       *)
(* configured Turn_Cap on the number of Conversation_Turns in one          *)
(* Conversation".  Each message of the technician's that stays in the      *)
(* transcript had a turn of its own, unless one was answered turn_cap.     *)
TurnsWithinCap ==
    (\A t \in Turns : turns[t].outcome # "turn_cap") /\ panel.phase # "sending" =>
        Cardinality({i \in DOMAIN panel.messages : panel.messages[i].role = "technician"})
            <= caps.turn
=============================================================================
