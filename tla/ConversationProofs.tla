--------------------------- MODULE ConversationProofs ---------------------------
(***************************************************************************)
(* Conversation, for any fields, caps, proposals and numbers of turns: that *)
(* the three pieces of code that judge a value agree, that the agent asks   *)
(* within its cap, that a label says who filled a report, and that the      *)
(* transcript is the conversation.  What holds of a turn is stated of its   *)
(* record alone, so that a step of one turn leaves the others as they were. *)
(***************************************************************************)
EXTENDS Conversation, FiniteSetTheorems, SequenceTheorems, TLAPS

(* A content the server would take, labelled truthfully.                   *)
Sound(c) == /\ c \in Content /\ ValidateContent(c)
            /\ c.ai # {} => c.filledBy # "manual"

Asks(messages) == QuestionsUsed(messages)

TurnInv(x) ==
    /\ x \in Turn
    /\ Sound(x.base) /\ Sound(x.report) /\ ValidateContent(x.content)
    /\ x.outcome # "rejected" /\ (x.stage = "unused" => x.outcome = "none")
    /\ x.stage \in {"loop", "persist"} =>
          \A f \in Fields \ x.filled : x.content.values[f] = x.base.values[f]
    /\ Asks(x.messages) <= caps.question
    /\ x.stage = "loop" => x.remaining + Asks(x.messages) <= caps.question
    /\ x.outcome = "ask_technician" => Asks(x.messages) < caps.question

TurnsInv == turns \in [Turns -> Turn] /\ \A t \in Turns : TurnInv(turns[t])

FormInv ==
    /\ caps \in Configs
    /\ Sound(stored)
    /\ editor \in [content : Content, touched : SUBSET Fields] /\ Sound(editor.content)
    /\ save \in [busy : BOOLEAN, content : Content, touched : SUBSET Fields] /\ Sound(save.content)
    /\ edits \in 0 .. MaxEdits /\ saves \in 0 .. MaxSaves

PanelInv ==
    /\ panel \in [phase : {"idle", "sending", "awaiting", "done", "error"},
                  messages : Seq(Message), draft : Turns \cup {0}, turn : Turns \cup {0}]
    /\ Asks(panel.messages) <= caps.question
    /\ panel.phase = "sending" <=> panel.turn # 0
    /\ panel.turn # 0 => /\ panel.messages # <<>>
                         /\ turns[panel.turn].messages = panel.messages
                         /\ turns[panel.turn].stage \notin {"unused", "over"}

(* No message twice, and each question after the message it answers.       *)
Proper(messages) ==
    /\ \A i, j \in DOMAIN messages : messages[i] = messages[j] => i = j
    /\ \A i \in DOMAIN messages : messages[i].role = "agent" =>
          i > 1 /\ messages[i - 1].role = "technician" /\ messages[i - 1].id <= messages[i].id

(* Turns are used in their order; a message or a draft has a turn that was *)
(* used, a question one that is over.                                      *)
TranscriptInv ==
    /\ Proper(panel.messages)
    /\ \A i \in DOMAIN panel.messages : LET e == panel.messages[i] IN
          /\ turns[e.id].stage # "unused"
          /\ IF e.role = "agent" THEN turns[e.id].stage = "over" ELSE e.id # panel.draft
    /\ panel.draft # 0 => turns[panel.draft].stage # "unused"
    /\ panel.turn # 0 => LET e == panel.messages[Len(panel.messages)] IN
          e.role = "technician" /\ e.id <= panel.turn
    /\ \A t, u \in Turns : u < t /\ turns[t].stage # "unused" => turns[u].stage # "unused"

IInv == FormInv /\ TurnsInv /\ PanelInv /\ TranscriptInv

-----------------------------------------------------------------------------
(* The rules for a value: the agent's, the form's and the server's agree.  *)
LEMMA ValueKinds ==
  ASSUME NEW j \in JSON
  PROVE  \/ \E s \in Texts : j = Str(s)
         \/ \E s \in {"digits", "huge"} : j = Number(s)
         \/ \E items \in SUBSET Texts : j = Array(items)
         \/ \E k \in {"none", "null", "mixed", "photo", "other"} : j = [kind |-> k]
  BY DEF JSON

(* A value fill_field accepts is, as it is written, one a save accepts: of *)
(* any type, whatever JSON the model proposed (agent/tools.go,             *)
(* normalizeFillValue; reports/validate.go).                               *)
THEOREM FillIsLegal ==
  ASSUME NEW type \in Types, NEW j \in JSON, NormalizeAccepts(type, j)
  PROVE  Normalized(type, j) \in JSON /\ Legal(type, Normalized(type, j))
  <1>1. CASE type = "checklist"
    <2>1. DecodesAsStrings(j) /\ StringsOf(j) \subseteq {"option"}
      BY <1>1 DEF NormalizeAccepts
    <2>2. Normalized(type, j) = Array(StringsOf(j))
      BY <1>1 DEF Normalized
    <2>3. Array(StringsOf(j)) \in JSON
      BY <2>1 DEF JSON, Texts
    <2>4. ValidateValue("checklist", Array(StringsOf(j)))
      BY <2>1 DEF ValidateValue, Array, DecodesAsStrings, StringsOf
    <2> QED
      BY <1>1, <2>2, <2>3, <2>4 DEF Legal
  <1>2. CASE type # "checklist"
    <2> DEFINE s == StringOf(j)
    <2>1. type \in {"text", "number", "select"} /\ (DecodesAsString(j) \/ j.kind = "number")
      BY <1>2 DEF NormalizeAccepts, DecodesAsNumber
    <2>2. s \in Texts
      <3>1. CASE \E r \in Texts : j = Str(r)
        <4>1. PICK r \in Texts : j = Str(r)
          BY <3>1
        <4>2. j.kind = "string" /\ j.text = r
          BY <4>1 DEF Str
        <4> QED
          BY <4>2 DEF StringOf
      <3>2. CASE \E r \in {"digits", "huge"} : j = Number(r)
        <4>1. PICK r \in {"digits", "huge"} : j = Number(r)
          BY <3>2
        <4>2. j.kind = "number" /\ j.text = r
          BY <4>1 DEF Number
        <4> QED
          BY <4>2 DEF StringOf, Texts
      <3>3. CASE \E items \in SUBSET Texts : j = Array(items)
        <4>1. j.kind = "array"
          BY <3>3 DEF Array
        <4> QED
          BY <2>1, <4>1 DEF DecodesAsString
      <3>4. CASE \E k \in {"none", "null", "mixed", "photo", "other"} : j = [kind |-> k]
        <4>1. j.kind \in {"none", "null", "mixed", "photo", "other"}
          BY <3>4
        <4>2. j.kind = "null"
          BY <2>1, <4>1 DEF DecodesAsString
        <4> QED
          BY <4>2 DEF StringOf, Texts
      <3> QED
        BY <3>1, <3>2, <3>3, <3>4, ValueKinds
    <2>3. Normalized(type, j) = Str(s)
      BY <1>2 DEF Normalized
    <2>4. Str(s) \in JSON
      BY <2>2 DEF JSON
    <2>5. (type = "number" => Numeric(s)) /\ (type = "select" => Offered(s))
      BY <1>2 DEF NormalizeAccepts
    <2>6. Str(s).kind = "string" /\ Str(s).text = s
      BY DEF Str
    <2>7. ValidateValue(type, Str(s))
      BY <2>1, <2>5, <2>6 DEF ValidateValue, DecodesAsString, StringOf
    <2> QED
      BY <2>3, <2>4, <2>7 DEF Legal
  <1> QED
    BY <1>1, <1>2

(* Whatever a person can put into one of the form's controls is a value a  *)
(* save accepts (FieldRenderer.tsx; reports/validate.go).                  *)
THEOREM EnteredIsLegal ==
  ASSUME NEW type \in Types, NEW j \in Enterable(type)
  PROVE  j \in JSON /\ Legal(type, j)
  <1>1. \A s \in Texts : Str(s) \in JSON /\ Str(s).kind = "string" /\ Str(s).text = s
    BY DEF JSON, Str
  <1>2. CASE type \in {"text", "number", "select"}
    <2>1. PICK s \in Texts : j = Str(s) /\ (type = "number" => Numeric(s)) /\ (type = "select" => Offered(s))
      BY <1>2 DEF Enterable, Numeric, Offered, Texts
    <2> QED
      BY <1>1, <1>2, <2>1 DEF Legal, ValidateValue, DecodesAsString, StringOf
  <1>3. CASE type = "checklist"
    <2>1. PICK items \in SUBSET {"option"} : j = Array(items)
      BY <1>3 DEF Enterable
    <2>2. j \in JSON /\ j.kind = "array" /\ j.items = items
      BY <2>1 DEF JSON, Array, Texts
    <2> QED
      BY <1>3, <2>2 DEF Legal, ValidateValue, DecodesAsStrings, StringsOf
  <1>4. CASE type = "photo"
    BY <1>4 DEF Enterable, Photo, JSON, Legal, ValidateValue
  <1>5. CASE type = "signature"
    <2>1. j = Null \/ j = Str("words")
      BY <1>5 DEF Enterable
    <2>2. Null \in JSON /\ Null.kind = "null"
      BY DEF JSON, Null
    <2> QED
      BY <1>1, <1>5, <2>1, <2>2 DEF Legal, ValidateValue, DecodesAsString, Texts
  <1> QED
    BY <1>2, <1>3, <1>4, <1>5 DEF Types

(* What the form makes of a stored value is again one a save accepts:      *)
(* opening a report and saving it as it is cannot be refused for a value   *)
(* (fieldValueFromWire).                                                   *)
THEOREM ShownIsLegal ==
  ASSUME NEW type \in Types, NEW j \in JSON, Legal(type, j)
  PROVE  FieldValueFromWire(type, j) \in JSON /\ Legal(type, FieldValueFromWire(type, j))
  <1>1. \A s \in Texts : Str(s) \in JSON /\ Str(s).kind = "string" /\ Str(s).text = s
    BY DEF JSON, Str
  <1>2. CASE type \in {"text", "select"}
    <2>1. FieldValueFromWire(type, j) = IF j.kind = "string" THEN j ELSE Str("")
      BY <1>2 DEF FieldValueFromWire
    <2>2. Str("") \in JSON /\ Legal(type, Str(""))
      BY <1>1, <1>2 DEF Texts, Legal, ValidateValue, DecodesAsString, StringOf, Offered
    <2> QED
      BY <2>1, <2>2
  <1>3. CASE type = "number"
    <2>1. FieldValueFromWire(type, j) = IF j.kind = "string" \/ j = Number("digits") THEN Str(j.text) ELSE Str("")
      BY <1>3 DEF FieldValueFromWire
    <2>2. \A s \in Texts : Numeric(s) => Str(s) \in JSON /\ Legal(type, Str(s))
      BY <1>1, <1>3 DEF Legal, ValidateValue, DecodesAsString, StringOf
    <2>3. j.kind = "string" => j.text \in Texts /\ Numeric(j.text)
      <3>1. j.kind = "string" => \E s \in Texts : j = Str(s)
        BY ValueKinds DEF Number, Array
      <3> QED
        BY <1>1, <1>3, <3>1 DEF Legal, ValidateValue, DecodesAsString, StringOf
    <2>4. Number("digits").text = "digits"
      BY DEF Number
    <2> QED
      BY <2>1, <2>2, <2>3, <2>4 DEF Numeric, Texts
  <1>4. CASE type = "checklist"
    <2>1. FieldValueFromWire(type, j) = IF j.kind = "array" THEN j ELSE Array({})
      BY <1>4 DEF FieldValueFromWire
    <2>2. Array({}) \in JSON /\ Array({}).kind = "array" /\ Array({}).items = {}
      BY DEF JSON, Array
    <2> QED
      BY <1>4, <2>1, <2>2 DEF Legal, ValidateValue, DecodesAsStrings, StringsOf
  <1>5. CASE type = "photo"
    BY <1>5 DEF FieldValueFromWire, Photo, JSON, Legal, ValidateValue
  <1>6. CASE type = "signature"
    <2>1. FieldValueFromWire(type, j) = IF j.kind = "string" /\ j.text # "" THEN j ELSE Null
      BY <1>6 DEF FieldValueFromWire
    <2>2. Null \in JSON /\ Null.kind = "null"
      BY DEF JSON, Null
    <2> QED
      BY <2>1, <2>2 DEF Legal
  <1> QED
    BY <1>2, <1>3, <1>4, <1>5, <1>6 DEF Types

(* A content with a legal value put in it, as it is shown, as it is saved. *)
LEMMA EmptyIsSound == Sound(EmptyContent)
  BY DEF Sound, EmptyContent, Content, JSON, None, ValidateContent, Legal

LEMMA PutIsLegal ==
  ASSUME NEW c \in Content, ValidateContent(c), NEW f \in Fields, NEW j \in JSON, Legal(TypeOf[f], j),
         NEW ai \in SUBSET Fields, NEW d,
         d = [values |-> [c.values EXCEPT ![f] = j], filledBy |-> c.filledBy, ai |-> ai]
  PROVE  /\ d \in Content /\ ValidateContent(d) /\ d.filledBy = c.filledBy /\ d.ai = ai
         /\ \A g \in Fields \ {f} : d.values[g] = c.values[g]
  <1>1. c = [values |-> c.values, filledBy |-> c.filledBy, ai |-> c.ai] /\ c.values \in [Fields -> JSON]
    BY DEF Content
  <1>3. d.values = [c.values EXCEPT ![f] = j] /\ d.filledBy = c.filledBy /\ d.ai = ai
    OBVIOUS
  <1>4. d.values \in [Fields -> JSON]
    BY <1>1, <1>3
  <1>5. d \in Content
    BY <1>1, <1>3, <1>4 DEF Content
  <1>6. \A g \in Fields : Legal(TypeOf[g], d.values[g])
    BY <1>1, <1>3 DEF ValidateContent
  <1> QED
    BY <1>1, <1>3, <1>5, <1>6 DEF ValidateContent

LEMMA ShownIsSound ==
  ASSUME NEW c, Sound(c)
  PROVE  Sound(ContentFromWire(c))
  <1> DEFINE d == ContentFromWire(c)
             shown == [f \in Fields |-> FieldValueFromWire(TypeOf[f], c.values[f])]
  <1>1. c \in Content /\ c.filledBy \in {"manual", "agent", "mixed"}
    BY DEF Sound, Content
  <1>2. d.values = shown /\ d.filledBy = c.filledBy /\ d.ai = c.ai
        /\ d = [values |-> shown, filledBy |-> c.filledBy, ai |-> c.ai]
    <2>1. PICK by : by = IF c.filledBy \in {"agent", "mixed"} THEN c.filledBy ELSE "manual"
      OBVIOUS
    <2>2. d = [c EXCEPT !.values = shown, !.filledBy = by]
      BY <2>1 DEF ContentFromWire
    <2>3. by = c.filledBy
      BY <1>1, <2>1
    <2> QED
      BY <1>1, <2>2, <2>3 DEF Content
  <1>3. ASSUME NEW f \in Fields PROVE shown[f] \in JSON /\ Legal(TypeOf[f], shown[f])
    <2>1. TypeOf[f] \in Types /\ c.values[f] \in JSON /\ Legal(TypeOf[f], c.values[f])
      BY FieldsAssumption DEF Sound, Content, ValidateContent
    <2> QED
      BY <2>1, ShownIsLegal
  <1>4. d \in Content
    BY <1>1, <1>2, <1>3 DEF Content
  <1> QED
    BY <1>1, <1>2, <1>3, <1>4 DEF Sound, ValidateContent

LEMMA PersistedIsSound ==
  ASSUME NEW t \in Turns, TurnInv(turns[t])
  PROVE  Sound(Persisted(t)) /\ Persisted(t).values = turns[t].content.values
  <1> DEFINE c == turns[t].content
             d == Persisted(t)
             by == FilledByAfterAgent(turns[t].base.filledBy)
  <1>1. c \in Content /\ ValidateContent(c) /\ by \in {"agent", "mixed"}
    BY DEF TurnInv, Turn, FilledByAfterAgent
  <1>2. d.values = c.values /\ d.filledBy = by /\ d = [values |-> c.values, filledBy |-> by, ai |-> c.ai]
    BY <1>1 DEF Persisted, Content
  <1> QED
    BY <1>1, <1>2 DEF Sound, Content, ValidateContent

-----------------------------------------------------------------------------
(* Questions in a transcript: none in an empty one, one more with each     *)
(* question, no more without the last message.                             *)
LEMMA AsksNat ==
  ASSUME NEW m \in Seq(Message)
  PROVE  IsFiniteSet({i \in DOMAIN m : m[i].role = "agent"}) /\ Asks(m) \in Nat
  <1>1. DOMAIN m = 1 .. Len(m) /\ Len(m) \in Nat
    OBVIOUS
  <1>2. IsFiniteSet(DOMAIN m)
    BY <1>1, FS_Interval
  <1> QED
    BY <1>2, FS_Subset, FS_CardinalityType DEF Asks, QuestionsUsed

LEMMA AsksEmpty == Asks(<< >>) = 0
  <1>1. {i \in DOMAIN << >> : << >>[i].role = "agent"} = {}
    OBVIOUS
  <1> QED
    BY <1>1, FS_EmptySet DEF Asks, QuestionsUsed

LEMMA AsksAppend ==
  ASSUME NEW m \in Seq(Message), NEW e \in Message
  PROVE  Asks(Append(m, e)) = IF e.role = "agent" THEN Asks(m) + 1 ELSE Asks(m)
  <1> DEFINE old == {i \in DOMAIN m : m[i].role = "agent"}
             n == Append(m, e)
             new == {i \in DOMAIN n : n[i].role = "agent"}
  <1>1. DOMAIN m = 1 .. Len(m) /\ Len(m) \in Nat /\ DOMAIN n = 1 .. Len(m) + 1
    OBVIOUS
  <1>2. n[Len(m) + 1] = e /\ \A i \in 1 .. Len(m) : n[i] = m[i]
    OBVIOUS
  <1>3. new = (IF e.role = "agent" THEN old \cup {Len(m) + 1} ELSE old) /\ Len(m) + 1 \notin old
    <2>1. \A i \in DOMAIN n : i \in DOMAIN m \/ i = Len(m) + 1
      BY <1>1
    <2>2. DOMAIN m \subseteq DOMAIN n /\ Len(m) + 1 \in DOMAIN n /\ Len(m) + 1 \notin DOMAIN m
      BY <1>1
    <2> HIDE DEF n
    <2> QED
      BY <1>1, <1>2, <2>1, <2>2
  <1>4. IsFiniteSet(old)
    BY AsksNat
  <1>5. Cardinality(old \cup {Len(m) + 1}) = Cardinality(old) + 1
    BY <1>3, <1>4, FS_AddElement
  <1> QED
    BY <1>3, <1>5 DEF Asks, QuestionsUsed

LEMMA FrontIs ==
  ASSUME NEW m \in Seq(Message), m # << >>, NEW n, n = SubSeq(m, 1, Len(m) - 1)
  PROVE  /\ n \in Seq(Message) /\ Len(n) = Len(m) - 1 /\ Len(m) \in Nat \ {0}
         /\ DOMAIN n = 1 .. Len(m) - 1 /\ \A i \in DOMAIN n : i \in DOMAIN m /\ n[i] = m[i]
  <1>1. Len(m) \in Nat /\ Len(m) # 0
    OBVIOUS
  <1> DEFINE l == Len(m) - 1
  <1>2. l \in Nat /\ \A i \in 1 .. l : i \in DOMAIN m /\ m[i] \in Message
    BY <1>1
  <1> HIDE DEF l
  <1>3. /\ SubSeq(m, 1, l) \in Seq(Message) /\ Len(SubSeq(m, 1, l)) = IF 1 <= l THEN l - 1 + 1 ELSE 0
        /\ \A i \in 1 .. l - 1 + 1 : SubSeq(m, 1, l)[i] = m[1 + i - 1]
    BY <1>2, SubSeqProperties
  <1>4. n = SubSeq(m, 1, l)
    BY DEF l
  <1>5. n \in Seq(Message) /\ Len(n) = l
    BY <1>2, <1>3, <1>4
  <1>6. DOMAIN n = 1 .. l
    BY <1>5
  <1>7. \A i \in 1 .. l : n[i] = m[i]
    BY <1>2, <1>3, <1>4
  <1> QED
    BY <1>1, <1>2, <1>5, <1>6, <1>7 DEF l

LEMMA AsksFront ==
  ASSUME NEW m \in Seq(Message), m # << >>
  PROVE  Asks(SubSeq(m, 1, Len(m) - 1)) <= Asks(m)
  <1> DEFINE n == SubSeq(m, 1, Len(m) - 1)
             old == {i \in DOMAIN m : m[i].role = "agent"}
             new == {i \in DOMAIN n : n[i].role = "agent"}
  <1>1. new \subseteq old
    BY FrontIs
  <1>2. IsFiniteSet(old)
    BY AsksNat
  <1> QED
    BY <1>1, <1>2, FS_Subset DEF Asks, QuestionsUsed

-----------------------------------------------------------------------------
(* A turn, step by step: the record it becomes is as sound as it was.      *)
LEMMA CapIs ==
  ASSUME FormInv
  PROVE  caps.question \in Nat \ {0} /\ caps.turn \in Nat \ {0}
  BY CapsAssumption DEF FormInv

LEMMA OnlyKeeps ==
  ASSUME TurnsInv, NEW t \in Turns, NEW x, TurnInv(x), turns' = [turns EXCEPT ![t] = x], caps' = caps
  PROVE  TurnsInv' /\ turns'[t] = x /\ \A u \in Turns \ {t} : turns'[u] = turns[u]
  <1>1. turns \in [Turns -> Turn] /\ x \in Turn
    BY DEF TurnsInv, TurnInv
  <1>2. turns' \in [Turns -> Turn] /\ turns'[t] = x /\ \A u \in Turns \ {t} : turns'[u] = turns[u]
    BY <1>1
  <1>3. ASSUME NEW u \in Turns PROVE TurnInv(turns[u])'
    <2>1. CASE u = t
      BY <1>2, <2>1 DEF TurnInv
    <2>2. CASE u # t
      BY <1>2, <2>2 DEF TurnsInv, TurnInv
    <2> QED
      BY <2>1, <2>2
  <1> QED
    BY <1>2, <1>3 DEF TurnsInv

LEMMA UntouchedTurns ==
  ASSUME TurnsInv, UNCHANGED <<caps, turns>>
  PROVE  TurnsInv'
  BY DEF TurnsInv, TurnInv

LEMMA FreshTurn ==
  ASSUME FormInv
  PROVE  TurnInv(NoTurn) /\ NoTurn.stage = "unused" /\ NoTurn.messages = << >>
  <1>1. EmptyContent \in Content /\ ValidateContent(EmptyContent) /\ Sound(EmptyContent)
    BY EmptyIsSound DEF Sound
  <1>2. 0 \in 0 .. MaxIters /\ << >> \in Seq(Message)
    BY CapsAssumption
  <1>3. NoTurn \in Turn
    BY <1>1, <1>2 DEF NoTurn, Turn, Outcomes
  <1> QED
    BY <1>1, <1>3, AsksEmpty, CapIs DEF TurnInv, NoTurn

LEMMA AnsweringIs ==
  ASSUME FormInv, TurnsInv, NEW t \in Turns, NEW o \in Outcomes \ {"rejected"}, NEW report, Sound(report),
         o = "ask_technician" => Asks(turns[t].messages) < caps.question,
         NEW x, x = Answering(t, o, report)
  PROVE  TurnInv(x) /\ x.stage = "answer" /\ x.messages = turns[t].messages /\ x.outcome = o
  <1>1. EmptyContent \in Content /\ ValidateContent(EmptyContent) /\ Sound(EmptyContent)
    BY EmptyIsSound DEF Sound
  <1>2. 0 \in 0 .. MaxIters
    BY CapsAssumption
  <1>3. turns[t].messages \in Seq(Message) /\ Asks(turns[t].messages) <= caps.question
    BY DEF TurnsInv, TurnInv, Turn
  <1>4. x = [stage |-> "answer", messages |-> turns[t].messages, remaining |-> 0, iters |-> 0,
             base |-> EmptyContent, content |-> EmptyContent, filled |-> {}, report |-> report, outcome |-> o]
    BY DEF Answering, NoTurn
  <1>5. x \in Turn
    BY <1>1, <1>2, <1>3, <1>4 DEF Turn, Sound
  <1> QED
    BY <1>1, <1>3, <1>4, <1>5 DEF TurnInv

LEMMA FinishedIs ==
  ASSUME FormInv, TurnsInv, NEW t \in Turns, turns' = Finished(t), caps' = caps
  PROVE  TurnsInv' /\ turns'[t].stage = "over" /\ \A u \in Turns \ {t} : turns'[u] = turns[u]
  <1> DEFINE x == [NoTurn EXCEPT !.stage = "over", !.outcome = turns[t].outcome]
  <1>1. turns[t].outcome \in Outcomes \ {"rejected"}
    BY DEF TurnsInv, TurnInv, Turn
  <1>2. NoTurn \in Turn /\ TurnInv(NoTurn) /\ NoTurn.messages = << >>
    BY FreshTurn DEF TurnInv
  <1>3. x \in Turn /\ x.stage = "over"
    BY <1>1, <1>2 DEF Turn
  <1>4. TurnInv(x)
    BY <1>1, <1>2, <1>3, AsksEmpty, CapIs DEF TurnInv, Turn
  <1> HIDE DEF x
  <1>5. turns' = [turns EXCEPT ![t] = x]
    BY DEF Finished, x
  <1> QED
    BY <1>3, <1>4, <1>5, OnlyKeeps

LEMMA EndingIs ==
  ASSUME FormInv, TurnsInv, NEW t \in Turns, turns[t].stage = "loop", NEW stage \in {"persist", "reload"},
         NEW o \in Outcomes \ {"rejected"}, o = "ask_technician" => turns[t].remaining > 0,
         NEW x, x = Ending(t, stage, o)
  PROVE  TurnInv(x) /\ x.stage = stage /\ x.messages = turns[t].messages /\ x.outcome = o
  <1>1. EmptyContent \in Content /\ ValidateContent(EmptyContent)
    BY EmptyIsSound DEF Sound
  <1>2. 0 \in 0 .. MaxIters
    BY CapsAssumption
  <1>3. turns[t] \in Turn /\ TurnInv(turns[t])
    BY DEF TurnsInv
  <1> DEFINE content == IF stage = "persist" THEN turns[t].content ELSE EmptyContent
             filled == IF stage = "persist" THEN turns[t].filled ELSE {}
  <1>4. x = [stage |-> stage, messages |-> turns[t].messages, remaining |-> 0, iters |-> 0,
             base |-> turns[t].base, content |-> content, filled |-> filled,
             report |-> turns[t].report, outcome |-> o]
    <2>1. turns[t] = [stage |-> turns[t].stage, messages |-> turns[t].messages, remaining |-> turns[t].remaining,
                      iters |-> turns[t].iters, base |-> turns[t].base, content |-> turns[t].content,
                      filled |-> turns[t].filled, report |-> turns[t].report, outcome |-> turns[t].outcome]
      BY <1>3 DEF Turn
    <2> QED
      BY <2>1 DEF Ending
  <1>5. content \in Content /\ ValidateContent(content) /\ filled \in SUBSET Fields
    BY <1>1, <1>3 DEF TurnInv, Turn
  <1>6. x \in Turn
    BY <1>2, <1>3, <1>4, <1>5 DEF Turn
  <1>7. Asks(turns[t].messages) \in Nat /\ turns[t].remaining \in Nat
    BY <1>3, AsksNat DEF Turn
  <1>8. o = "ask_technician" => Asks(turns[t].messages) < caps.question
    BY <1>3, <1>7, CapIs DEF TurnInv
  <1>9. stage = "persist" => \A f \in Fields \ filled : content.values[f] = turns[t].base.values[f]
    BY <1>3 DEF TurnInv
  <1> QED
    BY <1>3, <1>4, <1>5, <1>6, <1>8, <1>9 DEF TurnInv

LEMMA LoadedIs ==
  ASSUME NEW r \in Turn, NEW c, NEW x, x = [r EXCEPT !.base = c, !.content = c]
  PROVE  x = [stage |-> r.stage, messages |-> r.messages, remaining |-> r.remaining, iters |-> r.iters,
              base |-> c, content |-> c, filled |-> r.filled, report |-> r.report, outcome |-> r.outcome]
  BY DEF Turn

LEMMA RemainingIs ==
  ASSUME NEW r \in Turn, NEW s, NEW n, NEW x, x = [r EXCEPT !.stage = s, !.remaining = n]
  PROVE  x = [stage |-> s, messages |-> r.messages, remaining |-> n, iters |-> r.iters, base |-> r.base,
              content |-> r.content, filled |-> r.filled, report |-> r.report, outcome |-> r.outcome]
  BY DEF Turn

LEMMA OutcomeIs ==
  ASSUME NEW r \in Turn, NEW s, NEW o, NEW x, x = [r EXCEPT !.stage = s, !.outcome = o]
  PROVE  x = [stage |-> s, messages |-> r.messages, remaining |-> r.remaining, iters |-> r.iters, base |-> r.base,
              content |-> r.content, filled |-> r.filled, report |-> r.report, outcome |-> o]
  BY DEF Turn

LEMMA BeginIs ==
  ASSUME FormInv, TurnsInv, NEW t \in Turns, Begin(t)
  PROVE  \E x : /\ Only(t, x) /\ TurnInv(x) /\ x.messages = turns[t].messages
                /\ turns[t].stage = "sent" /\ x.stage \in {"reload", "loop"}
  <1> DEFINE m == turns[t].messages
             loaded == [turns[t] EXCEPT !.base = stored, !.content = stored]
             left == IF Asks(m) > caps.question THEN 0 ELSE caps.question - Asks(m)
  <1>1. turns[t] \in Turn /\ TurnInv(turns[t]) /\ m \in Seq(Message)
    BY DEF TurnsInv, TurnInv, Turn
  <1>2. stored \in Content /\ ValidateContent(stored) /\ Sound(stored)
    BY DEF FormInv, Sound
  <1>3. Asks(m) \in Nat /\ Asks(m) <= caps.question /\ caps.question \in Nat
    BY <1>1, AsksNat, CapIs DEF TurnInv
  <1>4. left \in Nat /\ left + Asks(m) <= caps.question
    BY <1>3
  <1>5. turns[t].stage = "sent"
    BY DEF Begin
  <1>6. loaded = [stage |-> turns[t].stage, messages |-> m, remaining |-> turns[t].remaining,
                  iters |-> turns[t].iters, base |-> stored, content |-> stored,
                  filled |-> turns[t].filled, report |-> turns[t].report, outcome |-> turns[t].outcome]
    BY <1>1, LoadedIs
  <1> HIDE DEF left, loaded
  <1>10. loaded \in Turn
    BY <1>1, <1>2, <1>6 DEF Turn
  <1>7. CASE Only(t, [loaded EXCEPT !.stage = "reload", !.outcome = "turn_cap"])
    <2> DEFINE x == [loaded EXCEPT !.stage = "reload", !.outcome = "turn_cap"]
    <2>1. x = [stage |-> "reload", messages |-> m, remaining |-> turns[t].remaining,
               iters |-> turns[t].iters, base |-> stored, content |-> stored,
               filled |-> turns[t].filled, report |-> turns[t].report, outcome |-> "turn_cap"]
      <3>1. x = [loaded EXCEPT !.stage = "reload", !.outcome = "turn_cap"]
        OBVIOUS
      <3> HIDE DEF x
      <3>2. x = [stage |-> "reload", messages |-> loaded.messages, remaining |-> loaded.remaining,
                 iters |-> loaded.iters, base |-> loaded.base, content |-> loaded.content,
                 filled |-> loaded.filled, report |-> loaded.report, outcome |-> "turn_cap"]
        BY <1>10, <3>1, OutcomeIs
      <3> QED
        BY <1>6, <3>2
    <2> HIDE DEF x
    <2>2. x \in Turn
      BY <1>1, <1>2, <2>1 DEF Turn, Outcomes
    <2>3. TurnInv(x) /\ x.messages = m /\ x.stage = "reload"
      BY <1>1, <1>2, <2>1, <2>2 DEF TurnInv
    <2> QED
      BY <1>5, <1>7, <2>3 DEF x
  <1>8. CASE Only(t, [loaded EXCEPT !.stage = "loop", !.remaining = left])
    <2> DEFINE x == [loaded EXCEPT !.stage = "loop", !.remaining = left]
    <2>1. x = [stage |-> "loop", messages |-> m, remaining |-> left,
               iters |-> turns[t].iters, base |-> stored, content |-> stored,
               filled |-> turns[t].filled, report |-> turns[t].report, outcome |-> turns[t].outcome]
      <3>1. x = [loaded EXCEPT !.stage = "loop", !.remaining = left]
        OBVIOUS
      <3> HIDE DEF x
      <3>2. x = [stage |-> "loop", messages |-> loaded.messages, remaining |-> left,
                 iters |-> loaded.iters, base |-> loaded.base, content |-> loaded.content,
                 filled |-> loaded.filled, report |-> loaded.report, outcome |-> loaded.outcome]
        BY <1>10, <3>1, RemainingIs
      <3> QED
        BY <1>6, <3>2
    <2> HIDE DEF x
    <2>2. x \in Turn
      BY <1>1, <1>2, <1>4, <2>1 DEF Turn
    <2>3. TurnInv(x) /\ x.messages = m /\ x.stage = "loop"
      BY <1>1, <1>2, <1>4, <2>1, <2>2 DEF TurnInv
    <2> QED
      BY <1>5, <1>8, <2>3 DEF x
  <1> QED
    BY <1>7, <1>8 DEF Begin, left, loaded, Asks

LEMMA IteratedIs ==
  ASSUME TurnsInv, NEW t \in Turns, Looping(t), NEW x, x = Iterated(t)
  PROVE  /\ TurnInv(x) /\ x.messages = turns[t].messages /\ x.stage = "loop"
         /\ x = [stage |-> turns[t].stage, messages |-> turns[t].messages, remaining |-> turns[t].remaining,
                 iters |-> turns[t].iters + 1, base |-> turns[t].base, content |-> turns[t].content,
                 filled |-> turns[t].filled, report |-> turns[t].report, outcome |-> turns[t].outcome]
  <1>1. turns[t] \in Turn /\ TurnInv(turns[t])
    BY DEF TurnsInv
  <1>2. turns[t].stage = "loop" /\ turns[t].iters + 1 \in 0 .. MaxIters
    BY <1>1, CapsAssumption DEF Looping, Turn
  <1>3. x = [stage |-> turns[t].stage, messages |-> turns[t].messages, remaining |-> turns[t].remaining,
             iters |-> turns[t].iters + 1, base |-> turns[t].base, content |-> turns[t].content,
             filled |-> turns[t].filled, report |-> turns[t].report, outcome |-> turns[t].outcome]
    <2>1. turns[t] = [stage |-> turns[t].stage, messages |-> turns[t].messages, remaining |-> turns[t].remaining,
                      iters |-> turns[t].iters, base |-> turns[t].base, content |-> turns[t].content,
                      filled |-> turns[t].filled, report |-> turns[t].report, outcome |-> turns[t].outcome]
      BY <1>1 DEF Turn
    <2>2. x = [turns[t] EXCEPT !.iters = turns[t].iters + 1]
      BY DEF Iterated
    <2> QED
      BY <2>1, <2>2
  <1>4. x \in Turn
    BY <1>1, <1>2, <1>3 DEF Turn
  <1> QED
    BY <1>1, <1>2, <1>3, <1>4 DEF TurnInv

LEMMA FillIs ==
  ASSUME TurnsInv, NEW t \in Turns, NEW f \in Fields, NEW raw \in Proposals, FillField(t, f, raw)
  PROVE  \E x : Only(t, x) /\ TurnInv(x) /\ x.messages = turns[t].messages /\ x.stage = "loop"
  <1> DEFINE v == Normalized(TypeOf[f], raw)
             c == turns[t].content
             d == [c EXCEPT !.values[f] = v, !.ai = c.ai \cup {f}]
             i == Iterated(t)
             x == [i EXCEPT !.content.values[f] = v, !.content.ai = @ \cup {f}, !.filled = @ \cup {f}]
  <1>1. turns[t] \in Turn /\ TurnInv(turns[t]) /\ c \in Content /\ ValidateContent(c)
        /\ c.ai \subseteq Fields /\ turns[t].filled \subseteq Fields
    BY DEF TurnsInv, TurnInv, Turn, Content
  <1>2. v \in JSON /\ Legal(TypeOf[f], v)
    <2>1. TypeOf[f] \in Types /\ raw \in JSON /\ NormalizeAccepts(TypeOf[f], raw)
      BY FieldsAssumption DEF FillField
    <2> QED
      BY <2>1, FillIsLegal
  <1>3. /\ d \in Content /\ ValidateContent(d)
        /\ \A g \in Fields \ {f} : d.values[g] = c.values[g]
    <2> DEFINE ai == c.ai \cup {f}
    <2>1. ai \in SUBSET Fields
      BY <1>1
    <2> HIDE DEF v, c
    <2>2. d = [values |-> [c.values EXCEPT ![f] = v], filledBy |-> c.filledBy, ai |-> ai]
      <3>1. PICK e : e = [c EXCEPT !.values[f] = v, !.ai = ai]
        OBVIOUS
      <3>2. c = [values |-> c.values, filledBy |-> c.filledBy, ai |-> c.ai]
        BY <1>1 DEF Content
      <3>3. e = [values |-> [c.values EXCEPT ![f] = v], filledBy |-> c.filledBy, ai |-> ai]
        BY <3>1, <3>2
      <3> QED
        BY <3>1, <3>3
    <2> HIDE DEF ai, d
    <2> QED
      BY <1>1, <1>2, <2>1, <2>2, PutIsLegal
  <1>4. /\ TurnInv(i) /\ i.messages = turns[t].messages /\ i.stage = "loop"
        /\ i = [stage |-> turns[t].stage, messages |-> turns[t].messages, remaining |-> turns[t].remaining,
                iters |-> turns[t].iters + 1, base |-> turns[t].base, content |-> c,
                filled |-> turns[t].filled, report |-> turns[t].report, outcome |-> turns[t].outcome]
    BY IteratedIs DEF FillField
  <1>5. Only(t, x)
    BY DEF FillField
  <1> HIDE DEF i, v
  <1>6. x = [i EXCEPT !.content = d, !.filled = turns[t].filled \cup {f}]
    <2>1. i.content = c /\ i.filled = turns[t].filled
      BY <1>4
    <2> QED
      BY <1>4, <2>1
  <1> HIDE DEF x, d
  <1>7. x = [stage |-> "loop", messages |-> i.messages, remaining |-> i.remaining,
             iters |-> i.iters, base |-> i.base, content |-> d,
             filled |-> turns[t].filled \cup {f}, report |-> i.report, outcome |-> i.outcome]
    BY <1>4, <1>6
  <1>8. x \in Turn
    BY <1>1, <1>3, <1>4, <1>7 DEF Turn, TurnInv
  <1>9. \A g \in Fields \ x.filled : x.content.values[g] = x.base.values[g]
    BY <1>3, <1>4, <1>7 DEF TurnInv
  <1>10. TurnInv(x)
    BY <1>3, <1>4, <1>7, <1>8, <1>9 DEF TurnInv
  <1> QED
    BY <1>4, <1>5, <1>7, <1>10

LEMMA OnlyIs ==
  ASSUME FormInv, TurnsInv, NEW t \in Turns, NEW x, TurnInv(x), Only(t, x)
  PROVE  FormInv' /\ TurnsInv' /\ panel' = panel /\ turns'[t] = x /\ \A u \in Turns \ {t} : turns'[u] = turns[u]
  <1>1. turns' = [turns EXCEPT ![t] = x] /\ UNCHANGED <<caps, stored, editor, panel, save, edits, saves>>
    BY DEF Only
  <1> QED
    BY <1>1, OnlyKeeps DEF FormInv

LEMMA ServeIs ==
  ASSUME FormInv, TurnsInv, NEW t \in Turns, Serve(t)
  PROVE  /\ FormInv' /\ TurnsInv' /\ panel' = panel
         /\ turns'[t].messages = turns[t].messages /\ \A u \in Turns \ {t} : turns'[u] = turns[u]
         /\ turns[t].stage \in {"sent", "loop", "persist", "reload"}
         /\ turns'[t].stage \in {"loop", "persist", "reload", "answer"}
  <1> DEFINE Served == /\ FormInv' /\ TurnsInv' /\ panel' = panel
                       /\ turns'[t].messages = turns[t].messages
                       /\ \A u \in Turns \ {t} : turns'[u] = turns[u]
                       /\ turns[t].stage \in {"sent", "loop", "persist", "reload"}
                       /\ turns'[t].stage \in {"loop", "persist", "reload", "answer"}
             Early == turns[t].stage \in {"sent", "loop", "persist", "reload"}
  <1>1. turns[t] \in Turn /\ TurnInv(turns[t]) /\ Sound(stored) /\ Sound(EmptyContent)
    BY EmptyIsSound DEF TurnsInv, FormInv
  <1>2. ASSUME NEW x, TurnInv(x), Only(t, x), x.messages = turns[t].messages, Early,
               x.stage \in {"loop", "persist", "reload", "answer"}
        PROVE  Served
    BY <1>2, OnlyIs
  <1>3. ASSUME NEW o \in Outcomes \ {"rejected", "ask_technician"}, Fail(t, o), Early
        PROVE  Served
    <2>1. PICK x : x = Answering(t, o, EmptyContent)
      OBVIOUS
    <2>2. TurnInv(x) /\ x.stage = "answer" /\ x.messages = turns[t].messages
      BY <1>1, <1>3, <2>1, AnsweringIs
    <2>3. Only(t, x)
      BY <1>3, <2>1 DEF Fail
    <2> QED
      BY <1>2, <1>3, <2>2, <2>3
  <1>4. ASSUME NEW stage \in {"persist", "reload"}, NEW o \in Outcomes \ {"rejected"}, turns[t].stage = "loop",
               o = "ask_technician" => turns[t].remaining > 0, Only(t, Ending(t, stage, o))
        PROVE  Served
    <2>1. PICK x : x = Ending(t, stage, o)
      OBVIOUS
    <2>2. TurnInv(x) /\ x.stage = stage /\ x.messages = turns[t].messages
      BY <1>4, <2>1, EndingIs
    <2>3. Only(t, x)
      BY <1>4, <2>1
    <2> QED
      BY <1>2, <1>4, <2>2, <2>3
  <1>5. CASE Refuse(t)
    BY <1>3, <1>5 DEF Refuse, Outcomes
  <1>6. CASE Begin(t)
    BY <1>2, <1>6, BeginIs
  <1>7. CASE GatewayFails(t)
    BY <1>3, <1>7 DEF GatewayFails, Looping, Outcomes
  <1>8. CASE ParseFailure(t)
    BY <1>4, <1>8 DEF ParseFailure, Looping, Outcomes
  <1>9. CASE OtherTool(t)
    <2>1. PICK x : x = Iterated(t)
      OBVIOUS
    <2>2. TurnInv(x) /\ x.messages = turns[t].messages /\ x.stage = "loop"
      BY <1>9, <2>1, IteratedIs DEF OtherTool
    <2> QED
      BY <1>2, <1>9, <2>1, <2>2 DEF OtherTool, Looping
  <1>10. CASE \E f \in Fields, raw \in Proposals : FillField(t, f, raw)
    <2>1. PICK f \in Fields, raw \in Proposals : FillField(t, f, raw)
      BY <1>10
    <2>2. PICK x : Only(t, x) /\ TurnInv(x) /\ x.messages = turns[t].messages /\ x.stage = "loop"
      BY <2>1, FillIs
    <2> QED
      BY <1>2, <2>1, <2>2 DEF FillField, Looping
  <1>11. AfterLoop(t) \in {"persist", "reload"}
    BY DEF AfterLoop
  <1>12. CASE AskTechnician(t)
    BY <1>4, <1>11, <1>12 DEF AskTechnician, Looping, Outcomes
  <1>13. CASE CallSaveDraft(t)
    BY <1>4, <1>13 DEF CallSaveDraft, Looping, Outcomes
  <1>14. CASE IterationCap(t)
    BY <1>4, <1>11, <1>14 DEF IterationCap, Outcomes
  <1>15. Sound(Persisted(t)) /\ (ValidateContent(Persisted(t)) <=> TRUE)
    BY <1>1, PersistedIsSound DEF Sound
  <1>16. CASE Persist(t)
    <2> DEFINE x == [turns[t] EXCEPT !.stage = "reload", !.content = EmptyContent, !.filled = {}]
    <2>1. /\ turns[t].stage = "persist" /\ stored' = Persisted(t) /\ UNCHANGED <<caps, editor, panel, save, edits, saves>>
          /\ turns' = [turns EXCEPT ![t].stage = "reload", ![t].content = EmptyContent, ![t].filled = {}]
      BY <1>15, <1>16 DEF Persist
    <2>2. turns' = [turns EXCEPT ![t] = x]
      BY <2>1 DEF TurnsInv
    <2>3. x.stage = "reload" /\ x.messages = turns[t].messages /\ x.content = EmptyContent
          /\ x.outcome = turns[t].outcome /\ x.base = turns[t].base /\ x.report = turns[t].report /\ x \in Turn
      BY <1>1 DEF Turn, Sound
    <2>4. TurnInv(x)
      BY <1>1, <2>3 DEF TurnInv, Sound
    <2> HIDE DEF x
    <2>5. /\ TurnsInv' /\ turns'[t] = x /\ \A u \in Turns \ {t} : turns'[u] = turns[u]
      BY <2>1, <2>2, <2>4, OnlyKeeps
    <2>6. FormInv'
      BY <1>15, <2>1 DEF FormInv
    <2> QED
      BY <2>1, <2>3, <2>5, <2>6
  <1>17. CASE PersistFails(t)
    <2>1. PICK x : x = Answering(t, "unavailable", EmptyContent)
      OBVIOUS
    <2>2. /\ turns[t].stage = "persist" /\ stored' \in {stored, Persisted(t)} /\ turns' = [turns EXCEPT ![t] = x]
          /\ UNCHANGED <<caps, editor, panel, save, edits, saves>>
      BY <1>17, <2>1 DEF PersistFails
    <2>3. TurnInv(x) /\ x.stage = "answer" /\ x.messages = turns[t].messages
      BY <1>1, <2>1, AnsweringIs DEF Outcomes
    <2>4. TurnsInv' /\ turns'[t] = x /\ \A u \in Turns \ {t} : turns'[u] = turns[u]
      BY <2>2, <2>3, OnlyKeeps
    <2>5. FormInv'
      BY <1>15, <2>2 DEF FormInv
    <2> QED
      BY <2>2, <2>3, <2>4, <2>5
  <1>18. CASE Reload(t)
    <2>1. PICK report \in {stored, turns[t].base} : Only(t, Answering(t, turns[t].outcome, report))
      BY <1>18 DEF Reload
    <2>2. PICK x : x = Answering(t, turns[t].outcome, report)
      OBVIOUS
    <2>3. Sound(report) /\ turns[t].outcome \in Outcomes \ {"rejected"}
          /\ (turns[t].outcome = "ask_technician" => Asks(turns[t].messages) < caps.question)
      BY <1>1, <2>1 DEF TurnInv, Turn
    <2>4. TurnInv(x) /\ x.stage = "answer" /\ x.messages = turns[t].messages
      BY <2>2, <2>3, AnsweringIs
    <2> QED
      BY <1>2, <1>18, <2>1, <2>2, <2>4 DEF Reload
  <1> QED
    BY <1>5, <1>6, <1>7, <1>8, <1>9, <1>10, <1>12, <1>13, <1>14, <1>16, <1>17, <1>18 DEF Serve

-----------------------------------------------------------------------------
(* A transcript with a message more, and with one less.                    *)
Longer(m, e, n) ==
    /\ Proper(n) /\ n \in Seq(Message) /\ n # << >> /\ n[Len(n)] = e
    /\ \A i \in DOMAIN n : n[i] = e \/ \E j \in DOMAIN m : n[i] = m[j]

LEMMA ProperAppend ==
  ASSUME NEW m \in Seq(Message), Proper(m), NEW e \in Message, \A i \in DOMAIN m : m[i] # e,
         e.role = "agent" => m # << >> /\ m[Len(m)].role = "technician" /\ m[Len(m)].id <= e.id
  PROVE  Longer(m, e, Append(m, e))
  <1> DEFINE n == Append(m, e)
  <1>1. DOMAIN m = 1 .. Len(m) /\ Len(m) \in Nat /\ DOMAIN n = 1 .. Len(m) + 1 /\ Len(n) = Len(m) + 1
        /\ n \in Seq(Message) /\ n # << >>
    OBVIOUS
  <1>2. n[Len(m) + 1] = e /\ \A i \in 1 .. Len(m) : n[i] = m[i]
    OBVIOUS
  <1>3. \A i \in DOMAIN n : i \in DOMAIN m \/ i = Len(m) + 1
    BY <1>1
  <1>4. ASSUME NEW i \in DOMAIN n, NEW j \in DOMAIN n, n[i] = n[j] PROVE i = j
    BY <1>1, <1>2, <1>3, <1>4 DEF Proper
  <1>5. ASSUME NEW i \in DOMAIN n, n[i].role = "agent"
        PROVE  i > 1 /\ n[i - 1].role = "technician" /\ n[i - 1].id <= n[i].id
    <2>1. CASE i = Len(m) + 1
      <3>1. Len(m) # 0 /\ Len(m) \in 1 .. Len(m)
        BY <1>1, <1>2, <1>5, <2>1
      <3> QED
        BY <1>1, <1>2, <1>5, <2>1, <3>1
    <2>2. CASE i \in DOMAIN m
      <3>1. i > 1 /\ m[i - 1].role = "technician" /\ m[i - 1].id <= m[i].id
        BY <1>1, <1>2, <1>5, <2>2 DEF Proper
      <3>2. i - 1 \in 1 .. Len(m)
        BY <1>1, <2>2, <3>1
      <3> QED
        BY <1>1, <1>2, <2>2, <3>1, <3>2
    <2> QED
      BY <1>3, <2>1, <2>2
  <1> HIDE DEF n
  <1>6. \A i \in DOMAIN n : n[i] = e \/ \E j \in DOMAIN m : n[i] = m[j]
    BY <1>1, <1>2, <1>3
  <1>7. Longer(m, e, n)
    BY <1>1, <1>2, <1>4, <1>5, <1>6 DEF Longer, Proper
  <1> QED
    BY <1>7 DEF n

Shorter(m, n) ==
    /\ Proper(n) /\ n \in Seq(Message)
    /\ \A i \in DOMAIN n : \E j \in DOMAIN m : n[i] = m[j]
    /\ \A i \in DOMAIN n : n[i].role = "technician" => n[i].id # m[Len(m)].id

LEMMA ProperFront ==
  ASSUME NEW m \in Seq(Message), m # << >>, Proper(m), m[Len(m)].role = "technician"
  PROVE  Shorter(m, SubSeq(m, 1, Len(m) - 1))
  <1> DEFINE n == SubSeq(m, 1, Len(m) - 1)
  <1>1. /\ n \in Seq(Message) /\ Len(n) = Len(m) - 1 /\ Len(m) \in Nat \ {0}
        /\ DOMAIN n = 1 .. Len(m) - 1 /\ \A i \in DOMAIN n : i \in DOMAIN m /\ n[i] = m[i]
    BY FrontIs
  <1> HIDE DEF n
  <1>2. Len(m) \in DOMAIN m /\ m[Len(m)] \in Message
    BY <1>1
  <1>3. ASSUME NEW i \in DOMAIN n, NEW j \in DOMAIN n, n[i] = n[j] PROVE i = j
    BY <1>1, <1>3 DEF Proper
  <1>4. ASSUME NEW i \in DOMAIN n, n[i].role = "agent"
        PROVE  i > 1 /\ n[i - 1].role = "technician" /\ n[i - 1].id <= n[i].id
    <2>1. i > 1 /\ m[i - 1].role = "technician" /\ m[i - 1].id <= m[i].id
      BY <1>1, <1>4 DEF Proper
    <2>2. i - 1 \in DOMAIN n
      BY <1>1, <2>1
    <2> QED
      BY <1>1, <2>1, <2>2
  <1>5. ASSUME NEW i \in DOMAIN n, n[i].role = "technician", n[i].id = m[Len(m)].id PROVE FALSE
    <2>1. n[i] \in Message /\ n[i] = m[i] /\ i # Len(m) /\ i \in DOMAIN m
      BY <1>1
    <2>2. m[i] = m[Len(m)]
      BY <1>2, <1>5, <2>1 DEF Message
    <2> QED
      BY <1>2, <2>1, <2>2 DEF Proper
  <1>6. Shorter(m, n)
    BY <1>1, <1>2, <1>3, <1>4, <1>5 DEF Proper, Shorter
  <1> QED
    BY <1>6 DEF n

-----------------------------------------------------------------------------
(* The steps, one by one.                                                  *)
LEMMA PanelIs ==
  ASSUME IInv
  PROVE  /\ panel.messages \in Seq(Message) /\ panel.draft \in Turns \cup {0} /\ panel.turn \in Turns \cup {0}
         /\ panel.phase \in {"idle", "sending", "awaiting", "done", "error"}
         /\ 0 \notin Turns /\ Turns \subseteq Nat
         /\ \A i \in DOMAIN panel.messages : panel.messages[i] \in Message /\ panel.messages[i].id \in Turns
         /\ \A t \in Turns : TurnInv(turns[t]) /\ turns[t] \in Turn
  <1>1. panel.messages \in Seq(Message)
    BY DEF IInv, PanelInv
  <1>2. \A i \in DOMAIN panel.messages : panel.messages[i] \in Message
    BY <1>1
  <1>3. 0 \notin Turns /\ Turns \subseteq Nat
    BY CapsAssumption DEF Turns
  <1>4. \A i \in DOMAIN panel.messages : panel.messages[i].id \in Turns
    BY <1>2 DEF Message
  <1>5. \A t \in Turns : TurnInv(turns[t]) /\ turns[t] \in Turn
    BY DEF IInv, TurnsInv
  <1> QED
    BY <1>1, <1>2, <1>3, <1>4, <1>5 DEF IInv, PanelInv

LEMMA ServeKeeps == ASSUME IInv, NEW t \in Turns, Serve(t) PROVE IInv'
  <1>1. /\ FormInv' /\ TurnsInv' /\ panel' = panel
        /\ turns'[t].messages = turns[t].messages /\ \A u \in Turns \ {t} : turns'[u] = turns[u]
        /\ turns[t].stage \in {"sent", "loop", "persist", "reload"}
        /\ turns'[t].stage \in {"loop", "persist", "reload", "answer"}
    BY ServeIs DEF IInv
  <1>2. caps' = caps
    BY DEF Serve, Refuse, Begin, GatewayFails, ParseFailure, OtherTool, FillField, AskTechnician, CallSaveDraft,
       IterationCap, Persist, PersistFails, Reload, Fail, Only
  <1>3. \A u \in Turns : /\ turns'[u].messages = turns[u].messages
                         /\ turns'[u].stage = "unused" <=> turns[u].stage = "unused"
                         /\ turns'[u].stage = "over" <=> turns[u].stage = "over"
    BY <1>1
  <1>4. PanelInv'
    BY <1>1, <1>2, <1>3, PanelIs DEF IInv, PanelInv
  <1>5. TranscriptInv'
    BY <1>1, <1>3, PanelIs DEF IInv, TranscriptInv
  <1> QED
    BY <1>1, <1>4, <1>5 DEF IInv

LEMMA FormKeeps == ASSUME IInv, Form \/ UNCHANGED vars PROVE IInv'
  <1>1. CASE \E f \in Fields : \E value \in Enterable(TypeOf[f]) : SetFieldValue(f, value)
    <2>1. PICK f \in Fields : \E value \in Enterable(TypeOf[f]) : SetFieldValue(f, value)
      BY <1>1
    <2>2. PICK value \in Enterable(TypeOf[f]) : SetFieldValue(f, value)
      BY <2>1
    <2> DEFINE c == editor.content
               ai == c.ai \ {f}
    <2>3. c \in Content /\ ValidateContent(c) /\ Sound(c) /\ ai \in SUBSET Fields /\ editor.touched \in SUBSET Fields
      BY DEF IInv, FormInv, Sound, Content
    <2>4. value \in JSON /\ Legal(TypeOf[f], value)
      <3>1. TypeOf[f] \in Types
        BY FieldsAssumption
      <3> QED
        BY <3>1, EnteredIsLegal
    <2>5. PICK d : d = [c EXCEPT !.values[f] = value, !.ai = ai]
      OBVIOUS
    <2>6. editor' = [content |-> d, touched |-> editor.touched \cup {f}]
          /\ UNCHANGED <<caps, stored, panel, turns, save, saves>> /\ edits < MaxEdits /\ edits' = edits + 1
      BY <2>2, <2>5 DEF SetFieldValue
    <2> HIDE DEF c, ai
    <2>7. d = [values |-> [c.values EXCEPT ![f] = value], filledBy |-> c.filledBy, ai |-> ai]
      <3>1. c = [values |-> c.values, filledBy |-> c.filledBy, ai |-> c.ai]
        BY <2>3 DEF Content
      <3> QED
        BY <2>5, <3>1
    <2>8. d \in Content /\ ValidateContent(d) /\ d.filledBy = c.filledBy /\ d.ai = ai
      BY <2>3, <2>4, <2>7, PutIsLegal
    <2>9. Sound(d)
      BY <2>3, <2>8 DEF Sound, ai
    <2>10. FormInv'
      BY <2>3, <2>6, <2>8, <2>9, CapsAssumption DEF IInv, FormInv
    <2> QED
      BY <2>6, <2>10, UntouchedTurns DEF IInv, PanelInv, TranscriptInv
  <1>2. CASE SaveDraft \/ DraftSaved \/ DraftNotSaved \/ UNCHANGED vars
    <2>1. UNCHANGED <<caps, panel, turns>>
      BY <1>2 DEF SaveDraft, DraftSaved, DraftNotSaved, vars
    <2>2. EmptyContent \in Content /\ Sound(EmptyContent)
      BY EmptyIsSound DEF Sound
    <2>3. FormInv'
      <3>1. CASE SaveDraft
        BY <3>1, CapsAssumption DEF SaveDraft, IInv, FormInv
      <3>2. CASE DraftSaved \/ DraftNotSaved
        <4>1. save' = NoSave /\ stored' \in {stored, save.content} /\ UNCHANGED <<caps, editor, edits, saves>>
          BY <3>2 DEF DraftSaved, DraftNotSaved
        <4>2. NoSave \in [busy : BOOLEAN, content : Content, touched : SUBSET Fields] /\ Sound(NoSave.content)
          BY <2>2 DEF NoSave
        <4> QED
          BY <4>1, <4>2 DEF IInv, FormInv
      <3>3. CASE UNCHANGED vars
        BY <3>3 DEF vars, IInv, FormInv
      <3> QED
        BY <1>2, <3>1, <3>2, <3>3
    <2> QED
      BY <2>1, <2>3, UntouchedTurns DEF IInv, PanelInv, TranscriptInv
  <1> QED
    BY <1>1, <1>2 DEF Form

LEMMA SendKeeps == ASSUME IInv, NEW t \in Turns, Send(t) PROVE IInv'
  <1> DEFINE e == [role |-> "technician", id |-> IF panel.draft = 0 THEN t ELSE panel.draft]
             m == panel.messages
             n == Append(m, e)
             x == [turns[t] EXCEPT !.stage = "sent", !.messages = n]
  <1>1. /\ turns[t].stage = "unused" /\ \A u \in Turns : u < t => turns[u].stage # "unused"
        /\ panel' = [phase |-> "sending", messages |-> n, draft |-> 0, turn |-> t]
        /\ turns' = [turns EXCEPT ![t].stage = "sent", ![t].messages = n]
        /\ UNCHANGED <<caps, stored, editor, save, edits, saves>>
    BY DEF Send
  <1>2. e \in Message /\ e.role = "technician" /\ e.id \in Turns
    BY PanelIs DEF Message
  <1>3. e.id <= t
    <2>1. panel.draft # 0 => panel.draft \in Turns /\ turns[panel.draft].stage # "unused"
      BY PanelIs DEF IInv, TranscriptInv
    <2>2. \A u \in Turns : turns[u].stage # "unused" => ~(t < u)
      BY <1>1 DEF IInv, TranscriptInv
    <2> QED
      BY <2>1, <2>2, PanelIs
  <1>4. \A i \in DOMAIN m : m[i] # e
    <2>1. ASSUME NEW i \in DOMAIN m, m[i] = e PROVE FALSE
      <3>1. turns[e.id].stage # "unused" /\ e.id # panel.draft
        BY <1>2, <2>1 DEF IInv, TranscriptInv
      <3>2. e.id = t
        BY <3>1
      <3> QED
        BY <1>1, <3>1, <3>2
    <2> QED
      BY <2>1
  <1>5. /\ Proper(n) /\ n \in Seq(Message) /\ n # << >> /\ n[Len(n)] = e
        /\ \A i \in DOMAIN n : n[i] = e \/ \E j \in DOMAIN m : n[i] = m[j]
    <2>1. m \in Seq(Message) /\ Proper(m) /\ e.role # "agent"
      BY <1>2, PanelIs DEF IInv, TranscriptInv
    <2>2. e.role = "agent" => m # << >> /\ m[Len(m)].role = "technician" /\ m[Len(m)].id <= e.id
      BY <2>1
    <2> HIDE DEF m, e, x
    <2>3. Longer(m, e, n)
      BY <1>2, <1>4, <2>1, <2>2, ProperAppend
    <2> HIDE DEF n
    <2> QED
      BY <2>3 DEF Longer
  <1>6. Asks(n) = Asks(m) /\ Asks(m) <= caps.question
    BY <1>2, AsksAppend, PanelIs DEF IInv, PanelInv
  <1> HIDE DEF e, n
  <1>7. x \in Turn /\ x.stage = "sent" /\ x.messages = n /\ x.outcome = "none"
        /\ x.base = turns[t].base /\ x.report = turns[t].report /\ x.content = turns[t].content
    BY <1>1, <1>5, PanelIs DEF Turn, TurnInv
  <1>8. TurnInv(x)
    <2>1. TurnInv(turns[t])
      BY PanelIs
    <2> HIDE DEF x
    <2> QED
      BY <1>6, <1>7, <2>1 DEF TurnInv
  <1>9. turns' = [turns EXCEPT ![t] = x]
    BY <1>1 DEF IInv, TurnsInv
  <1> HIDE DEF x
  <1>10. TurnsInv' /\ turns'[t] = x /\ \A u \in Turns \ {t} : turns'[u] = turns[u]
    BY <1>1, <1>8, <1>9, OnlyKeeps DEF IInv
  <1>11. FormInv'
    BY <1>1 DEF IInv, FormInv
  <1>12. PanelInv'
    BY <1>1, <1>5, <1>6, <1>7, <1>10, PanelIs DEF PanelInv
  <1>13. \A u \in Turns : /\ turns[u].stage # "unused" => turns'[u].stage # "unused"
                          /\ turns[u].stage = "over" => turns'[u].stage = "over"
                          /\ turns'[u].stage # "unused" => turns[u].stage # "unused" \/ u = t
    BY <1>1, <1>7, <1>10
  <1>14. turns'[e.id].stage # "unused"
    <2>1. e.id = t \/ (e.id \in Turns /\ turns[e.id].stage # "unused")
      BY PanelIs DEF e, IInv, TranscriptInv
    <2> QED
      BY <1>7, <1>10, <1>13, <2>1
  <1>15. TranscriptInv'
    <2>1. ASSUME NEW i \in DOMAIN n
          PROVE  /\ turns'[n[i].id].stage # "unused"
                 /\ IF n[i].role = "agent" THEN turns'[n[i].id].stage = "over" ELSE n[i].id # 0
      <3>1. CASE n[i] = e
        BY <1>2, <1>14, <3>1, PanelIs
      <3>2. CASE \E j \in DOMAIN m : n[i] = m[j]
        <4>1. PICK j \in DOMAIN m : n[i] = m[j]
          BY <3>2
        <4>2. m[j].id \in Turns /\ turns[m[j].id].stage # "unused" /\ (m[j].role = "agent" => turns[m[j].id].stage = "over")
          BY PanelIs DEF IInv, TranscriptInv
        <4> QED
          BY <1>13, <4>1, <4>2, PanelIs
      <3> QED
        BY <1>5, <3>1, <3>2
    <2>2. \A u, v \in Turns : v < u /\ turns'[u].stage # "unused" => turns'[v].stage # "unused"
      BY <1>1, <1>13 DEF IInv, TranscriptInv
    <2> QED
      BY <1>1, <1>2, <1>3, <1>5, <2>1, <2>2 DEF TranscriptInv
  <1> QED
    BY <1>10, <1>11, <1>12, <1>15 DEF IInv

(* What a failed send leaves: the transcript without its last message.     *)
LEMMA RevertedIs ==
  ASSUME IInv, panel.turn # 0, NEW r, r = Reverted
  PROVE  /\ r.phase = "error" /\ r.turn = 0 /\ r.draft \in Turns /\ turns[r.draft].stage # "unused"
         /\ r \in [phase : {"idle", "sending", "awaiting", "done", "error"},
                   messages : Seq(Message), draft : Turns \cup {0}, turn : Turns \cup {0}]
         /\ Proper(r.messages) /\ Asks(r.messages) <= caps.question
         /\ \A i \in DOMAIN r.messages : \E j \in DOMAIN panel.messages : r.messages[i] = panel.messages[j]
         /\ \A i \in DOMAIN r.messages : r.messages[i].role = "technician" => r.messages[i].id # r.draft
  <1> DEFINE m == panel.messages
             n == SubSeq(m, 1, Len(m) - 1)
             d == m[Len(m)].id
  <1>1. m \in Seq(Message) /\ m # << >> /\ Proper(m) /\ m[Len(m)].role = "technician"
    BY PanelIs DEF IInv, PanelInv, TranscriptInv
  <1>2. r = [phase |-> "error", messages |-> n, draft |-> d, turn |-> 0]
    BY DEF Reverted
  <1>3. Len(m) \in DOMAIN m
    BY <1>1
  <1>4. d \in Turns /\ turns[d].stage # "unused"
    <2>1. \A i \in DOMAIN m : m[i].id \in Turns
      BY PanelIs
    <2>2. \A i \in DOMAIN m : turns[m[i].id].stage # "unused"
      BY DEF IInv, TranscriptInv
    <2> HIDE DEF m
    <2> QED
      BY <1>3, <2>1, <2>2
  <1>5. /\ Proper(n) /\ n \in Seq(Message)
        /\ \A i \in DOMAIN n : \E j \in DOMAIN m : n[i] = m[j]
        /\ \A i \in DOMAIN n : n[i].role = "technician" => n[i].id # d
    <2>1. Shorter(m, n)
      <3> HIDE DEF m
      <3> QED
        BY <1>1, ProperFront
    <2> HIDE DEF m, n
    <2> QED
      BY <2>1 DEF Shorter
  <1>6. Asks(n) <= caps.question
    <2>1. Asks(n) <= Asks(m) /\ Asks(m) \in Nat /\ Asks(n) \in Nat
      BY <1>1, <1>5, AsksFront, AsksNat
    <2>2. Asks(m) <= caps.question /\ caps.question \in Nat
      BY CapIs DEF IInv, PanelInv
    <2> QED
      BY <2>1, <2>2
  <1> HIDE DEF n, d
  <1> QED
    BY <1>2, <1>4, <1>5, <1>6

LEMMA RevertedKeeps ==
  ASSUME IInv, panel.turn # 0, panel' = Reverted, caps' = caps,
         \A u \in Turns : /\ turns[u].stage # "unused" <=> turns'[u].stage # "unused"
                          /\ turns[u].stage = "over" => turns'[u].stage = "over"
  PROVE  PanelInv' /\ TranscriptInv'
  <1>1. /\ panel'.phase = "error" /\ panel'.turn = 0 /\ panel'.draft \in Turns /\ turns[panel'.draft].stage # "unused"
        /\ panel' \in [phase : {"idle", "sending", "awaiting", "done", "error"},
                       messages : Seq(Message), draft : Turns \cup {0}, turn : Turns \cup {0}]
        /\ Proper(panel'.messages) /\ Asks(panel'.messages) <= caps.question
        /\ \A i \in DOMAIN panel'.messages : \E j \in DOMAIN panel.messages : panel'.messages[i] = panel.messages[j]
        /\ \A i \in DOMAIN panel'.messages : panel'.messages[i].role = "technician" => panel'.messages[i].id # panel'.draft
    BY RevertedIs
  <1>2. PanelInv'
    BY <1>1 DEF PanelInv
  <1>3. \A j \in DOMAIN panel.messages :
          /\ panel.messages[j].role \in {"technician", "agent"} /\ panel.messages[j].id \in Turns
          /\ turns[panel.messages[j].id].stage # "unused"
          /\ panel.messages[j].role = "agent" => turns[panel.messages[j].id].stage = "over"
    BY PanelIs DEF IInv, TranscriptInv, Message
  <1>4. \A i \in DOMAIN panel'.messages : LET e == panel'.messages[i] IN
          /\ turns'[e.id].stage # "unused"
          /\ IF e.role = "agent" THEN turns'[e.id].stage = "over" ELSE e.id # panel'.draft
    BY <1>1, <1>3
  <1>5. \A t, u \in Turns : u < t /\ turns'[t].stage # "unused" => turns'[u].stage # "unused"
    BY DEF IInv, TranscriptInv
  <1>6. turns'[panel'.draft].stage # "unused"
    BY <1>1
  <1> QED
    BY <1>1, <1>2, <1>4, <1>5, <1>6 DEF TranscriptInv

LEMMA LostKeeps == ASSUME IInv, NEW t \in Turns, ConnectionLost(t) PROVE IInv'
  <1>1. panel.turn # 0 /\ panel' = Reverted /\ UNCHANGED <<caps, stored, editor, turns, save, edits, saves>>
    BY PanelIs DEF ConnectionLost
  <1>2. PanelInv' /\ TranscriptInv'
    BY <1>1, RevertedKeeps
  <1> QED
    BY <1>1, <1>2, UntouchedTurns DEF IInv, FormInv

LEMMA HearKeeps == ASSUME IInv, NEW t \in Turns, Hear(t) PROVE IInv'
  <1> DEFINE m == panel.messages
  <1>1. turns' = Finished(t) /\ UNCHANGED <<caps, stored, save, edits, saves>> /\ turns[t].stage = "answer"
    BY DEF Hear, Asked, Completed, Failed, Unheard
  <1>2. TurnsInv' /\ turns'[t].stage = "over" /\ \A u \in Turns \ {t} : turns'[u] = turns[u]
    BY <1>1, FinishedIs DEF IInv
  <1>3. \A u \in Turns : /\ turns[u].stage # "unused" <=> turns'[u].stage # "unused"
                         /\ turns[u].stage = "over" => turns'[u].stage = "over"
    BY <1>1, <1>2
  <1>4. \A u, v \in Turns : v < u /\ turns'[u].stage # "unused" => turns'[v].stage # "unused"
    BY <1>3 DEF IInv, TranscriptInv
  <1>5. \A j \in DOMAIN m : /\ m[j].role \in {"technician", "agent"} /\ m[j].id \in Turns
                            /\ turns'[m[j].id].stage # "unused" /\ m[j].id # 0
                            /\ m[j].role = "agent" => turns'[m[j].id].stage = "over" /\ m[j].id # t
    BY <1>1, <1>3, PanelIs DEF IInv, TranscriptInv, Message
  <1>6. CASE Asked(t)
    <2> DEFINE e == [role |-> "agent", id |-> t]
               n == Append(m, e)
    <2>1. panel.turn = t /\ turns[t].outcome = "ask_technician" /\ turns[t].messages = m /\ UNCHANGED editor
          /\ m # << >> /\ m[Len(m)].role = "technician" /\ m[Len(m)].id <= t
      BY <1>6, PanelIs DEF Asked, IInv, PanelInv, TranscriptInv
    <2>2. panel' = [phase |-> "awaiting", messages |-> n, draft |-> 0, turn |-> 0]
      BY <1>6, <2>1 DEF Asked, Answer
    <2>3. e \in Message /\ e.role = "agent" /\ e.id = t
      BY DEF Message
    <2>4. \A j \in DOMAIN m : m[j] # e
      BY <1>5, <2>3
    <2>5. m \in Seq(Message) /\ Proper(m)
      BY PanelIs DEF IInv, TranscriptInv
    <2>6. Asks(n) = Asks(m) + 1 /\ Asks(m) \in Nat
      BY <2>3, <2>5, AsksAppend, AsksNat
    <2>7. Asks(m) < caps.question /\ caps.question \in Nat
      BY <2>1, PanelIs, CapIs DEF IInv, TurnInv
    <2>8. Longer(m, e, n)
      <3> HIDE DEF e, m
      <3> QED
        BY <2>1, <2>3, <2>4, <2>5, ProperAppend
    <2> HIDE DEF n
    <2>9. PanelInv'
      BY <1>1, <2>2, <2>6, <2>7, <2>8 DEF PanelInv, Longer
    <2>10. ASSUME NEW i \in DOMAIN n
           PROVE  /\ turns'[n[i].id].stage # "unused"
                  /\ IF n[i].role = "agent" THEN turns'[n[i].id].stage = "over" ELSE n[i].id # 0
      <3>1. CASE n[i] = e
        BY <1>2, <2>3, <3>1
      <3>2. CASE \E j \in DOMAIN m : n[i] = m[j]
        BY <1>5, <3>2
      <3> QED
        BY <2>8, <3>1, <3>2 DEF Longer
    <2>11. TranscriptInv'
      BY <1>4, <2>2, <2>8, <2>10 DEF TranscriptInv, Longer
    <2>12. FormInv'
      BY <1>1, <2>1 DEF IInv, FormInv
    <2> QED
      BY <1>2, <2>9, <2>11, <2>12 DEF IInv
  <1>7. CASE Completed(t)
    <2>1. panel.turn = t /\ turns[t].messages = m
      BY <1>7, PanelIs DEF Completed, IInv, PanelInv
    <2>2. panel' = [phase |-> "done", messages |-> m, draft |-> 0, turn |-> 0]
      BY <1>7, <2>1 DEF Completed, Answer
    <2>3. editor' = [content |-> ContentFromWire(turns[t].report), touched |-> {}]
      BY <1>7 DEF Completed
    <2>4. Sound(ContentFromWire(turns[t].report))
      BY ShownIsSound, PanelIs DEF TurnInv
    <2>5. FormInv'
      BY <1>1, <2>3, <2>4 DEF IInv, FormInv, Sound
    <2>6. PanelInv'
      BY <1>1, <2>2, PanelIs DEF IInv, PanelInv
    <2>7. TranscriptInv'
      BY <1>4, <1>5, <2>2 DEF IInv, TranscriptInv
    <2> QED
      BY <1>2, <2>5, <2>6, <2>7 DEF IInv
  <1>8. CASE Failed(t)
    <2>1. panel.turn # 0 /\ panel' = Reverted /\ UNCHANGED editor
      BY <1>8, PanelIs DEF Failed
    <2>2. PanelInv' /\ TranscriptInv'
      BY <1>1, <1>3, <2>1, RevertedKeeps
    <2> QED
      BY <1>1, <1>2, <2>1, <2>2 DEF IInv, FormInv
  <1>9. CASE Unheard(t)
    <2>1. panel.turn # t /\ UNCHANGED <<editor, panel>>
      BY <1>9 DEF Unheard
    <2>2. PanelInv'
      BY <1>1, <1>2, <2>1, PanelIs DEF IInv, PanelInv
    <2>3. TranscriptInv'
      BY <1>3, <1>4, <1>5, <2>1, PanelIs DEF IInv, TranscriptInv
    <2> QED
      BY <1>1, <1>2, <2>1, <2>2, <2>3 DEF IInv, FormInv
  <1> QED
    BY <1>6, <1>7, <1>8, <1>9 DEF Hear

LEMMA InitHolds == Init => IInv
  <1> SUFFICES ASSUME Init PROVE IInv
    OBVIOUS
  <1>1. EmptyContent \in Content /\ Sound(EmptyContent) /\ Sound(ContentFromWire(EmptyContent))
    BY EmptyIsSound, ShownIsSound DEF Sound
  <1>2. NoSave \in [busy : BOOLEAN, content : Content, touched : SUBSET Fields] /\ Sound(NoSave.content)
    BY <1>1 DEF NoSave
  <1>3. FormInv
    BY <1>1, <1>2, CapsAssumption DEF Init, FormInv, Sound
  <1>4. TurnInv(NoTurn) /\ NoTurn.stage = "unused" /\ \A t \in Turns : turns[t] = NoTurn
    BY <1>3, FreshTurn DEF Init
  <1>5. TurnsInv
    BY <1>4 DEF Init, TurnsInv, TurnInv
  <1>6. << >> \in Seq(Message) /\ DOMAIN << >> = {}
    OBVIOUS
  <1>7. PanelInv
    BY <1>3, <1>6, AsksEmpty, CapIs DEF Init, PanelInv
  <1>8. TranscriptInv
    BY <1>4, <1>6 DEF Init, TranscriptInv, Proper
  <1> QED
    BY <1>3, <1>5, <1>7, <1>8 DEF IInv

LEMMA AlwaysIInv == Spec => []IInv
  <1>1. IInv /\ [Next]_vars => IInv'
    BY FormKeeps, SendKeeps, LostKeeps, HearKeeps, ServeKeeps DEF Next
  <1> QED
    BY <1>1, InitHolds, PTL DEF Spec

-----------------------------------------------------------------------------
(* The caps, the stored draft, the form, the panel, the turns and the save *)
(* under way keep their shape, for any fields, caps and numbers of turns.  *)
THEOREM TypeCorrect == Spec => []TypeOK
  <1>1. IInv => TypeOK
    BY DEF IInv, FormInv, TurnsInv, PanelInv, Sound, TypeOK
  <1> QED
    BY <1>1, AlwaysIInv, PTL

(* Nothing the agent filled and nothing the technician entered is refused  *)
(* when it is saved, whatever else the report holds: normalizeFillValue,   *)
(* the controls of the form, contentFromWire and validateValue agree.      *)
THEOREM NoFillIsRejected == Spec => []NothingIsRejected
  <1>1. IInv => NothingIsRejected
    BY DEF IInv, FormInv, TurnsInv, TurnInv, Sound, NothingIsRejected
  <1> QED
    BY <1>1, AlwaysIInv, PTL

(* However many turns run beside each other, are lost or sent again, no    *)
(* transcript has more questions of the agent's than the server allows.    *)
THEOREM QuestionsStayWithinCap == Spec => []QuestionsWithinCap
  <1>1. IInv => QuestionsWithinCap
    BY DEF IInv, PanelInv, TurnsInv, TurnInv, Asks, QuestionsWithinCap
  <1> QED
    BY <1>1, AlwaysIInv, PTL

(* A report or a form with a value the agent proposed in it is labelled so, *)
(* in whatever order the agent, the form and their saves came.             *)
THEOREM LabelsAreHonest == Spec => []FilledByIsHonest
  <1>1. IInv => FilledByIsHonest
    BY DEF IInv, FormInv, Sound, FilledByIsHonest
  <1> QED
    BY <1>1, AlwaysIInv, PTL

(* Through failed sends, lost answers and resends the panel's transcript   *)
(* is the conversation, and what is sent is one the server takes.          *)
THEOREM TranscriptHolds == Spec => []TranscriptIsTheConversation
  <1>1. ASSUME IInv PROVE TranscriptIsTheConversation
    <2> DEFINE m == panel.messages
    <2>1. m \in Seq(Message) /\ Proper(m) /\ \A i \in DOMAIN m : m[i] \in Message
      BY <1>1, PanelIs DEF IInv, TranscriptInv
    <2>2. ASSUME panel.draft # 0, NEW i \in DOMAIN m
          PROVE  m[i] # [role |-> "technician", id |-> panel.draft]
      BY <1>1, <2>2 DEF IInv, TranscriptInv
    <2>3. ASSUME panel.phase = "sending" PROVE ValidateTranscript(m)
      <3>1. m # << >> /\ m[Len(m)].role = "technician"
        BY <1>1, <2>3 DEF IInv, PanelInv, TranscriptInv
      <3>2. 1 \in DOMAIN m
        BY <2>1, <3>1
      <3>3. m[1].role \in {"technician", "agent"}
        BY <2>1, <3>2 DEF Message
      <3>4. m[1].role # "agent"
        BY <2>1, <3>2 DEF Proper
      <3> QED
        BY <3>1, <3>3, <3>4 DEF ValidateTranscript
    <2>4. panel.draft # 0 => [role |-> "technician", id |-> panel.draft] \notin {m[i] : i \in DOMAIN m}
      BY <2>2
    <2> QED
      BY <2>1, <2>3, <2>4 DEF Proper, TranscriptIsTheConversation
  <1> QED
    BY <1>1, AlwaysIInv, PTL

(* Whatever else happens to the draft meanwhile, the end of a turn changes *)
(* a field only if the turn filled it or the draft was changed under it.   *)
THEOREM TurnsWriteTheirFills == Spec => AgentWritesItsFills
  <1> DEFINE Writes == \A t \in Turns : turns[t].stage = "persist" /\ turns'[t].stage # "persist" =>
                         \A f \in Fields : stored'.values[f] # stored.values[f] =>
                            f \in turns[t].filled \/ stored.values[f] # turns[t].base.values[f]
  <1>1. ASSUME IInv, Next PROVE Writes
    <2>1. ASSUME NEW t \in Turns, Persist(t) \/ PersistFails(t),
                 NEW u \in Turns, turns[u].stage = "persist", turns'[u].stage # "persist",
                 NEW f \in Fields, stored'.values[f] # stored.values[f]
          PROVE  f \in turns[u].filled \/ stored.values[f] # turns[u].base.values[f]
      <3>1. turns \in [Turns -> Turn] /\ TurnInv(turns[t])
        BY <1>1 DEF IInv, TurnsInv
      <3>2. stored' = Persisted(t) /\ turns[t].stage = "persist"
        BY <2>1 DEF Persist, PersistFails, Fail, Only
      <3>3. \A v \in Turns \ {t} : turns'[v] = turns[v]
        BY <2>1, <3>1 DEF Persist, PersistFails, Fail, Only
      <3>4. u = t
        BY <2>1, <3>3
      <3>5. stored'.values = turns[t].content.values
        BY <3>1, <3>2, PersistedIsSound
      <3>6. f \notin turns[t].filled => turns[t].content.values[f] = turns[t].base.values[f]
        BY <3>1, <3>2 DEF TurnInv
      <3> QED
        BY <2>1, <3>4, <3>5, <3>6
    <2>2. CASE \E t \in Turns : Persist(t) \/ PersistFails(t)
      BY <2>1, <2>2
    <2>3. CASE UNCHANGED stored
      BY <2>3
    <2>4. CASE Form
      <3>1. stored' = stored \/ UNCHANGED turns
        BY <2>4 DEF Form, SetFieldValue, SaveDraft, DraftSaved, DraftNotSaved
      <3> QED
        BY <3>1
    <2>5. CASE \E t \in Turns : Send(t) \/ ConnectionLost(t) \/ Hear(t)
      <3>1. stored' = stored
        BY <2>5 DEF Send, ConnectionLost, Hear, Asked, Completed, Failed, Unheard
      <3> QED
        BY <3>1
    <2>6. ASSUME NEW t \in Turns, Serve(t) PROVE Persist(t) \/ PersistFails(t) \/ UNCHANGED stored
      BY <2>6 DEF Serve, Refuse, Begin, GatewayFails, ParseFailure, OtherTool, FillField, AskTechnician,
                  CallSaveDraft, IterationCap, Reload, Fail, Only
    <2> QED
      BY <1>1, <2>2, <2>3, <2>4, <2>5, <2>6 DEF Next
  <1>2. IInv /\ [Next]_vars => [Writes]_vars
    BY <1>1
  <1> QED
    BY <1>2, AlwaysIInv, PTL DEF Spec, AgentWritesItsFills

-----------------------------------------------------------------------------
(* A turn goes forward.  What each step of it leaves of its record.        *)
LEMMA StagesAre ==
  ASSUME NEW x \in Turn
  PROVE  /\ StepsLeft(x) \in Nat
         /\ x.stage = "unused" => StepsLeft(x) = MaxIters + 6
         /\ x.stage = "sent" => StepsLeft(x) = MaxIters + 5
         /\ x.stage = "loop" => StepsLeft(x) = MaxIters - x.iters + 4
         /\ x.stage = "persist" => StepsLeft(x) = 3
         /\ x.stage = "reload" => StepsLeft(x) = 2
         /\ x.stage = "answer" => StepsLeft(x) = 1
         /\ x.stage = "over" => StepsLeft(x) = 0
  <1>1. MaxIters \in Nat /\ x.iters \in 0 .. MaxIters
    BY CapsAssumption DEF Turn
  <1> QED
    BY <1>1 DEF StepsLeft

LEMMA ServeStage ==
  ASSUME FormInv, TurnsInv, NEW t \in Turns, Serve(t)
  PROVE  \/ turns[t].stage = "sent" /\ turns'[t].stage \in {"loop", "reload", "answer"}
         \/ turns[t].stage = "loop" /\ turns'[t].stage = "loop" /\ turns'[t].iters = turns[t].iters + 1
         \/ turns[t].stage = "loop" /\ turns'[t].stage \in {"persist", "reload", "answer"}
         \/ turns[t].stage = "persist" /\ turns'[t].stage \in {"reload", "answer"}
         \/ turns[t].stage = "reload" /\ turns'[t].stage = "answer"
  <1>1. turns \in [Turns -> Turn] /\ turns[t] \in Turn
    BY DEF TurnsInv
  <1>2. ASSUME NEW o, NEW report, turns' = [turns EXCEPT ![t] = Answering(t, o, report)]
        PROVE  turns'[t].stage = "answer"
    BY <1>1, <1>2 DEF Answering, NoTurn
  <1>3. ASSUME NEW stage, NEW o, Only(t, Ending(t, stage, o)) PROVE turns'[t].stage = stage
    <2>1. PICK x : x = Ending(t, stage, o)
      OBVIOUS
    <2>2. x.stage = stage
      BY <1>1, <2>1 DEF Ending, Turn
    <2> QED
      BY <1>1, <1>3, <2>1, <2>2 DEF Only
  <1>4. CASE Refuse(t)
    BY <1>2, <1>4 DEF Refuse, Fail, Only
  <1>5. CASE Begin(t)
    <2>1. PICK x : Only(t, x) /\ turns[t].stage = "sent" /\ x.stage \in {"reload", "loop"}
      BY <1>5, BeginIs
    <2> QED
      BY <1>1, <2>1 DEF Only
  <1>6. CASE GatewayFails(t)
    BY <1>2, <1>6 DEF GatewayFails, Looping, Fail, Only
  <1>7. CASE ParseFailure(t) \/ AskTechnician(t) \/ CallSaveDraft(t) \/ IterationCap(t)
    <2>1. AfterLoop(t) \in {"persist", "reload"}
      BY DEF AfterLoop
    <2>2. PICK stage, o : /\ stage \in {"persist", "reload"}
                           /\ turns[t].stage = "loop" /\ Only(t, Ending(t, stage, o))
      BY <1>7, <2>1 DEF ParseFailure, AskTechnician, CallSaveDraft, IterationCap, Looping
    <2> QED
      BY <1>3, <2>2
  <1>8. CASE OtherTool(t)
    <2>1. PICK x : x = Iterated(t)
      OBVIOUS
    <2>2. turns[t].stage = "loop" /\ x.stage = "loop" /\ x.iters = turns[t].iters + 1 /\ Only(t, x)
      BY <1>8, <2>1, IteratedIs DEF OtherTool, Looping
    <2> QED
      BY <1>1, <2>2 DEF Only
  <1>9. CASE \E f \in Fields, raw \in Proposals : FillField(t, f, raw)
    <2>1. PICK f \in Fields, raw \in Proposals : FillField(t, f, raw)
      BY <1>9
    <2>2. PICK i : i = Iterated(t)
      OBVIOUS
    <2>3. turns[t].stage = "loop" /\ i.stage = "loop" /\ i.iters = turns[t].iters + 1 /\ i \in Turn
      BY <2>1, <2>2, IteratedIs DEF FillField, Looping, TurnInv
    <2>4. PICK x : /\ Only(t, x)
                   /\ x = [i EXCEPT !.content.values[f] = Normalized(TypeOf[f], raw),
                                   !.content.ai = @ \cup {f}, !.filled = @ \cup {f}]
      BY <2>1, <2>2 DEF FillField
    <2>5. x.stage = "loop" /\ x.iters = i.iters
      BY <2>3, <2>4 DEF Turn
    <2> QED
      BY <1>1, <2>3, <2>4, <2>5 DEF Only
  <1>10. CASE Persist(t)
    <2>1. turns[t].stage = "persist"
      BY <1>10 DEF Persist
    <2>2. CASE Fail(t, "rejected")
      BY <1>2, <2>1, <2>2 DEF Fail, Only
    <2>3. CASE turns' = [turns EXCEPT ![t].stage = "reload", ![t].content = EmptyContent, ![t].filled = {}]
      BY <1>1, <2>1, <2>3 DEF Turn
    <2> QED
      BY <1>10, <2>2, <2>3 DEF Persist
  <1>11. CASE PersistFails(t)
    BY <1>2, <1>11 DEF PersistFails
  <1>12. CASE Reload(t)
    BY <1>2, <1>12 DEF Reload, Only
  <1> QED
    BY <1>4, <1>5, <1>6, <1>7, <1>8, <1>9, <1>10, <1>11, <1>12 DEF Serve

LEMMA ServeForward == ASSUME IInv, NEW t \in Turns, Serve(t) PROVE StepsLeft(turns'[t]) < StepsLeft(turns[t])
  <1>1. FormInv /\ TurnsInv /\ TurnsInv'
    BY ServeIs DEF IInv
  <1>2. turns[t] \in Turn /\ turns'[t] \in Turn
    BY <1>1 DEF TurnsInv
  <1>3. MaxIters \in Nat /\ turns[t].iters \in 0 .. MaxIters /\ turns'[t].iters \in 0 .. MaxIters
    BY <1>2, CapsAssumption DEF Turn
  <1> DEFINE n == StepsLeft(turns[t])
             m == StepsLeft(turns'[t])
  <1>4. /\ n \in Nat /\ m \in Nat
        /\ turns[t].stage = "sent" => n = MaxIters + 5
        /\ turns[t].stage = "loop" => n = MaxIters - turns[t].iters + 4
        /\ turns[t].stage = "persist" => n = 3
        /\ turns[t].stage = "reload" => n = 2
    BY <1>2, StagesAre
  <1>5. /\ turns'[t].stage = "loop" => m = MaxIters - turns'[t].iters + 4
        /\ turns'[t].stage = "persist" => m = 3
        /\ turns'[t].stage = "reload" => m = 2
        /\ turns'[t].stage = "answer" => m = 1
    BY <1>2, StagesAre
  <1> HIDE DEF n, m
  <1>6. m < n
    BY <1>1, <1>3, <1>4, <1>5, ServeStage
  <1> QED
    BY <1>6 DEF n, m

(* No turn goes on for ever, whatever the model answers: it takes at most  *)
(* one step for each iteration and a few more, and nothing that happens    *)
(* elsewhere gives it one back (runner.go:257, handler.go).                *)
THEOREM TurnsOnlyGoForward == Spec => TurnsGoForward
  <1>1. ASSUME IInv, IInv', [Next]_vars
        PROVE  [\A t \in Turns : turns'[t] = turns[t] \/ StepsLeft(turns'[t]) < StepsLeft(turns[t])]_vars
    <2>1. \A t \in Turns : turns[t] \in Turn /\ turns'[t] \in Turn
      BY <1>1 DEF IInv, TurnsInv
    <2>2. ASSUME NEW t \in Turns, StepsLeft(turns'[t]) < StepsLeft(turns[t]),
                 \A u \in Turns \ {t} : turns'[u] = turns[u]
          PROVE  \A u \in Turns : turns'[u] = turns[u] \/ StepsLeft(turns'[u]) < StepsLeft(turns[u])
      BY <2>2
    <2>3. CASE \E t \in Turns : Serve(t)
      <3>1. PICK t \in Turns : Serve(t)
        BY <2>3
      <3>2. StepsLeft(turns'[t]) < StepsLeft(turns[t]) /\ \A u \in Turns \ {t} : turns'[u] = turns[u]
        BY <1>1, <3>1, ServeForward, ServeIs DEF IInv
      <3> QED
        BY <2>2, <3>2
    <2>4. CASE \E t \in Turns : Hear(t)
      <3>1. PICK t \in Turns : Hear(t)
        BY <2>4
      <3>2. turns[t].stage = "answer" /\ turns' = Finished(t) /\ caps' = caps
        BY <3>1 DEF Hear, Asked, Completed, Failed, Unheard
      <3>3. turns'[t].stage = "over" /\ \A u \in Turns \ {t} : turns'[u] = turns[u]
        BY <1>1, <3>2, FinishedIs DEF IInv
      <3>4. StepsLeft(turns'[t]) = 0 /\ StepsLeft(turns[t]) = 1
        BY <2>1, <3>2, <3>3, StagesAre
      <3> QED
        BY <2>2, <3>3, <3>4
    <2>5. CASE \E t \in Turns : Send(t)
      <3>1. PICK t \in Turns : Send(t)
        BY <2>5
      <3>2. PICK transcript : /\ turns[t].stage = "unused"
                              /\ turns' = [turns EXCEPT ![t].stage = "sent", ![t].messages = transcript]
        BY <3>1 DEF Send
      <3>3. turns \in [Turns -> Turn]
        BY <1>1 DEF IInv, TurnsInv
      <3>4. turns'[t].stage = "sent" /\ \A u \in Turns \ {t} : turns'[u] = turns[u]
        BY <3>2, <3>3 DEF Turn
      <3>5. StepsLeft(turns'[t]) = MaxIters + 5 /\ StepsLeft(turns[t]) = MaxIters + 6 /\ MaxIters \in Nat
        BY <2>1, <3>2, <3>4, StagesAre, CapsAssumption
      <3>6. StepsLeft(turns'[t]) < StepsLeft(turns[t])
        BY <3>5
      <3> QED
        BY <2>2, <3>4, <3>6
    <2>6. CASE Form \/ \E t \in Turns : ConnectionLost(t)
      <3>1. turns' = turns
        BY <2>6 DEF Form, SetFieldValue, SaveDraft, DraftSaved, DraftNotSaved, ConnectionLost
      <3> QED
        BY <3>1
    <2> QED
      BY <1>1, <2>3, <2>4, <2>5, <2>6 DEF Next
  <1> QED
    BY <1>1, AlwaysIInv, PTL DEF Spec, TurnsGoForward
=============================================================================
