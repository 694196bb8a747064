------------------------------ MODULE EditorProofs ------------------------------
(***************************************************************************)
(* The report page, for any number of words, reports, calls and acts.      *)
(* First its composer: every step of Editor is a step of Dictation or none,*)
(* and moves whole texts between the recogniser, the input, a message on   *)
(* its way and the transcript.  Then the page itself: what each call under *)
(* way is about, and what the form and the address make of it.             *)
(***************************************************************************)
EXTENDS Editor, SequenceTheorems, FiniteSetTheorems, TLAPS

Heard == Elements(voice.heard)
Input == Elements(composer.input)
Sent == Elements(composer.sent)

Composer == [phase : {"absent", "idle", "sending", "awaiting", "done", "error"},
             input : Seq(Words), sent : Seq(Words)]
Voice == [recording : BOOLEAN, recogniser : {"off", "on", "stopped"}, heard : Seq(Words)]
Mic == [asked : Nat, orphaned : Nat, held : BOOLEAN, left : Nat]

Once(s) == \A i, j \in DOMAIN s : i # j => s[i] # s[j]

(* DictationIsKept, place by place.                                        *)
Kept ==
    /\ 1..spoken = Heard \cup Input \cup Sent \cup transcript \cup gone
    /\ Heard \cap Input = {} /\ Heard \cap Sent = {} /\ Heard \cap transcript = {}
    /\ Heard \cap gone = {} /\ Input \cap Sent = {} /\ Input \cap transcript = {}
    /\ Input \cap gone = {} /\ Sent \cap transcript = {} /\ Sent \cap gone = {}
    /\ transcript \cap gone = {}
    /\ Once(voice.heard) /\ Once(composer.input) /\ Once(composer.sent)

(* What is not recording has heard nothing, what is not sending has nothing*)
(* on its way.                                                             *)
RestInv ==
    /\ voice.recording <=> voice.recogniser # "off"
    /\ voice.recogniser = "off" => voice.heard = << >>
    /\ composer.phase # "sending" => composer.sent = << >>

Typed ==
    /\ composer \in Composer /\ voice \in Voice /\ mic \in Mic
    /\ transcript \subseteq Words /\ gone \subseteq Words /\ spoken \in 0..MaxWords

IInv == Typed /\ Kept /\ RestInv

-----------------------------------------------------------------------------
LEMMA Places == Kept => DictationIsKept
  <1> SUFFICES ASSUME Kept PROVE DictationIsKept
    OBVIOUS
  <1> DEFINE places == <<Heard, Input, Sent, transcript, gone>>
  <1>1. DOMAIN places = 1..5 /\ places[1] = Heard /\ places[2] = Input /\ places[3] = Sent
        /\ places[4] = transcript /\ places[5] = gone
    OBVIOUS
  <1>2. Elements(places) = {Heard, Input, Sent, transcript, gone}
    <2>1. 1..5 = {1, 2, 3, 4, 5}
      OBVIOUS
    <2> HIDE DEF places
    <2> QED
      BY <1>1, <2>1 DEF Elements
  <1>3. UNION Elements(places) = 1..spoken
    BY <1>2 DEF Kept
  <1>4. \A i, j \in 1..5 : i < j => places[i] \cap places[j] = {}
    <2>1. SUFFICES ASSUME NEW i \in 1..5, NEW j \in 1..5, i < j PROVE places[i] \cap places[j] = {}
      OBVIOUS
    <2>2. i \in {1, 2, 3, 4} /\ j \in {2, 3, 4, 5}
      BY <2>1
    <2> HIDE DEF places
    <2>3. CASE i = 1
      BY <1>1, <2>1, <2>2, <2>3 DEF Kept
    <2>4. CASE i = 2
      BY <1>1, <2>1, <2>2, <2>4 DEF Kept
    <2>5. CASE i = 3
      BY <1>1, <2>1, <2>2, <2>5 DEF Kept
    <2>6. CASE i = 4
      BY <1>1, <2>1, <2>2, <2>6 DEF Kept
    <2> QED
      BY <2>2, <2>3, <2>4, <2>5, <2>6
  <1>5. \A s \in {voice.heard, composer.input, composer.sent} :
            \A i, j \in DOMAIN s : i # j => s[i] # s[j]
    BY DEF Kept, Once
  <1> QED
    BY <1>3, <1>4, <1>5 DEF DictationIsKept, Heard, Input, Sent

LEMMA NothingIn == Elements(<< >>) = {} /\ Once(<< >>)
  BY DEF Elements, Once

LEMMA OneMore ==
  ASSUME NEW s \in Seq(Words), NEW w, w \notin Elements(s), Once(s)
  PROVE  Elements(Append(s, w)) = Elements(s) \cup {w} /\ Once(Append(s, w))
  <1> DEFINE t == Append(s, w)
  <1>1. Len(t) = Len(s) + 1 /\ DOMAIN t = 1..Len(s) + 1 /\ DOMAIN s = 1..Len(s) /\ Len(s) \in Nat
    OBVIOUS
  <1>2. \A i \in 1..Len(s) + 1 : t[i] = IF i <= Len(s) THEN s[i] ELSE w
    OBVIOUS
  <1> HIDE DEF t
  <1>3. Elements(t) = Elements(s) \cup {w}
    BY <1>1, <1>2 DEF Elements
  <1>4. Once(t)
    BY <1>1, <1>2 DEF Elements, Once
  <1> QED
    BY <1>3, <1>4 DEF t

LEMMA BothIn ==
  ASSUME NEW s \in Seq(Words), NEW t \in Seq(Words), Elements(s) \cap Elements(t) = {}, Once(s), Once(t)
  PROVE  Elements(s \o t) = Elements(s) \cup Elements(t) /\ Once(s \o t)
  <1> DEFINE u == s \o t
  <1>1. DOMAIN u = 1..Len(s) + Len(t) /\ DOMAIN s = 1..Len(s) /\ DOMAIN t = 1..Len(t)
        /\ Len(s) \in Nat /\ Len(t) \in Nat
    OBVIOUS
  <1>2. \A i \in 1..Len(s) + Len(t) : u[i] = IF i <= Len(s) THEN s[i] ELSE t[i - Len(s)]
    OBVIOUS
  <1> HIDE DEF u
  <1>3. \A i \in DOMAIN t : i + Len(s) \in DOMAIN u /\ u[i + Len(s)] = t[i]
    BY <1>1, <1>2
  <1>4. \A i \in DOMAIN u :
          \/ i \in DOMAIN s /\ u[i] = s[i]
          \/ i - Len(s) \in DOMAIN t /\ u[i] = t[i - Len(s)]
    <2> TAKE i \in DOMAIN u
    <2>1. i \in Int /\ 1 <= i /\ i <= Len(s) + Len(t) /\ u[i] = IF i <= Len(s) THEN s[i] ELSE t[i - Len(s)]
      BY <1>1, <1>2
    <2>2. CASE i <= Len(s)
      BY <1>1, <2>1, <2>2
    <2>3. CASE ~(i <= Len(s))
      <3>1. i - Len(s) \in 1..Len(t)
        BY <1>1, <2>1, <2>3
      <3> QED
        BY <1>1, <2>1, <2>3, <3>1
    <2> QED
      BY <2>2, <2>3
  <1>5. \A i \in DOMAIN s : i \in DOMAIN u /\ u[i] = s[i]
    BY <1>1, <1>2
  <1>6. Elements(u) = Elements(s) \cup Elements(t)
    <2>1. ASSUME NEW x \in Elements(u) PROVE x \in Elements(s) \cup Elements(t)
      BY <1>4 DEF Elements
    <2>2. ASSUME NEW x \in Elements(s) PROVE x \in Elements(u)
      BY <1>5 DEF Elements
    <2>3. ASSUME NEW x \in Elements(t) PROVE x \in Elements(u)
      <3>1. PICK i \in DOMAIN t : x = t[i]
        BY DEF Elements
      <3> QED
        BY <1>3, <3>1 DEF Elements
    <2> QED
      BY <2>1, <2>2, <2>3
  <1>7. Once(u)
    <2> SUFFICES ASSUME NEW i \in DOMAIN u, NEW j \in DOMAIN u, i # j PROVE u[i] # u[j]
      BY DEF Once
    <2>1. i \in Int /\ j \in Int /\ Len(s) \in Int
      BY <1>1
    <2>2. CASE i \in DOMAIN s /\ u[i] = s[i] /\ j \in DOMAIN s /\ u[j] = s[j]
      BY <2>2 DEF Once
    <2>3. CASE i - Len(s) \in DOMAIN t /\ u[i] = t[i - Len(s)] /\ j - Len(s) \in DOMAIN t /\ u[j] = t[j - Len(s)]
      BY <2>1, <2>3 DEF Once
    <2>4. CASE i \in DOMAIN s /\ u[i] = s[i] /\ j - Len(s) \in DOMAIN t /\ u[j] = t[j - Len(s)]
      BY <2>4 DEF Elements
    <2>5. CASE j \in DOMAIN s /\ u[j] = s[j] /\ i - Len(s) \in DOMAIN t /\ u[i] = t[i - Len(s)]
      BY <2>5 DEF Elements
    <2> QED
      BY <1>4, <2>2, <2>3, <2>4, <2>5
  <1> QED
    BY <1>6, <1>7 DEF u

-----------------------------------------------------------------------------
(* The steps of the composer.                                              *)
LEMMA SpeakType == ASSUME Typed, Speak PROVE spoken' \in Words /\ spoken' \in 0..MaxWords /\ spoken' = spoken + 1
                   /\ spoken \in Nat /\ 1..spoken' = (1..spoken) \cup {spoken'} /\ spoken' \notin 1..spoken
  BY DictationAssumption DEF Typed, Speak, Words

LEMMA EmptyType ==
    /\ << >> \in Seq(Words) /\ Silent \in Voice /\ Absent \in Composer /\ Panel \in Composer
    /\ NoMic \in Mic
  BY DEF Silent, Absent, Panel, NoMic, Composer, Voice, Mic

LEMMA ComposerType ==
  ASSUME NEW old \in Composer, NEW text \in Seq(Words),
         NEW phase \in {"absent", "idle", "sending", "awaiting", "done", "error"}
  PROVE  /\ old.input \in Seq(Words) /\ old.sent \in Seq(Words)
         /\ [old EXCEPT !.input = text] \in Composer /\ [old EXCEPT !.input = text].input = text
         /\ [old EXCEPT !.input = text].sent = old.sent /\ [old EXCEPT !.input = text].phase = old.phase
         /\ [old EXCEPT !.phase = phase, !.sent = text] \in Composer
  BY DEF Composer

LEMMA VoiceType ==
  ASSUME NEW old \in Voice, NEW text \in Seq(Words)
  PROVE  /\ old.heard \in Seq(Words)
         /\ [old EXCEPT !.heard = text] \in Voice /\ [old EXCEPT !.heard = text].heard = text
         /\ [old EXCEPT !.heard = text].recording = old.recording
         /\ [old EXCEPT !.heard = text].recogniser = old.recogniser
  BY DEF Voice

LEMMA MicType ==
  ASSUME Typed, GrantMic \/ DenyMic \/ start
  PROVE  mic' \in Mic
  <1>1. mic \in Mic /\ mic.asked \in Nat /\ mic.orphaned \in Nat /\ mic.left \in Nat
        /\ mic.left + 1 \in Nat /\ mic.asked + 1 \in Nat
        /\ (mic.asked > 0 => mic.asked - 1 \in Nat) /\ (mic.orphaned > 0 => mic.orphaned - 1 \in Nat)
    BY DEF Typed, Mic
  <1>2. CASE GrantMic
    <2>1. CASE mic.orphaned > 0 /\ mic' = [mic EXCEPT !.orphaned = mic.orphaned - 1, !.left = mic.left + 1]
      BY <1>1, <2>1 DEF Mic
    <2>2. CASE mic.asked > 0 /\ mic' = [mic EXCEPT !.asked = mic.asked - 1, !.held = TRUE,
                                          !.left = IF mic.held THEN mic.left + 1 ELSE mic.left]
      BY <1>1, <2>2 DEF Mic
    <2> QED
      BY <1>2, <2>1, <2>2 DEF GrantMic
  <1>3. CASE DenyMic
    BY <1>1, <1>3 DEF DenyMic, Mic
  <1>4. CASE start
    BY <1>1, <1>4 DEF start, Mic
  <1> QED
    BY <1>2, <1>3, <1>4

LEMMA MicKeeps == ASSUME IInv, GrantMic \/ DenyMic PROVE IInv'
  <1>1. UNCHANGED <<composer, voice, transcript, gone, spoken>>
    BY DEF GrantMic, DenyMic
  <1> QED
    BY <1>1, MicType DEF IInv, Typed, Kept, RestInv, Heard, Input, Sent

LEMMA TypeTextKeeps == ASSUME IInv, TypeText PROVE IInv'
  <1>1. composer.input \in Seq(Words) /\ UNCHANGED <<voice, mic, transcript, gone>> /\ Speak
        /\ composer' = [composer EXCEPT !.input = Append(composer.input, spoken')]
    BY DEF TypeText, IInv, Typed, Composer
  <1>2. spoken' \notin Heard \cup Input \cup Sent \cup transcript \cup gone
    BY <1>1, SpeakType DEF IInv, Kept
  <1>3. composer' \in Composer
        /\ composer'.input = Append(composer.input, spoken') /\ composer'.sent = composer.sent
        /\ composer'.phase = composer.phase
    <2>1. Append(composer.input, spoken') \in Seq(Words)
      BY <1>1, SpeakType DEF IInv
    <2> QED
      BY <1>1, <2>1, ComposerType DEF IInv, Typed
  <1>4. Input' = Input \cup {spoken'} /\ Once(composer'.input) /\ Heard' = Heard /\ Sent' = Sent
    BY <1>1, <1>2, <1>3, OneMore DEF Heard, Input, Sent, IInv, Kept
  <1>5. Typed' /\ RestInv'
    BY <1>1, <1>3, SpeakType DEF IInv, Typed, RestInv
  <1>6. Kept'
    BY <1>1, <1>2, <1>3, <1>4, SpeakType DEF IInv, Kept
  <1> QED
    BY <1>5, <1>6 DEF IInv

LEMMA onresultKeeps == ASSUME IInv, onresult PROVE IInv'
  <1>1. voice.heard \in Seq(Words) /\ UNCHANGED <<composer, mic, transcript, gone>> /\ Speak
        /\ voice' = [voice EXCEPT !.heard = Append(voice.heard, spoken')] /\ voice.recogniser # "off"
    BY DEF onresult, IInv, Typed, Voice
  <1>2. spoken' \notin Heard \cup Input \cup Sent \cup transcript \cup gone
    BY <1>1, SpeakType DEF IInv, Kept
  <1>3. voice' \in Voice
        /\ voice'.heard = Append(voice.heard, spoken') /\ voice'.recogniser = voice.recogniser
        /\ voice'.recording = voice.recording
    <2>1. Append(voice.heard, spoken') \in Seq(Words)
      BY <1>1, SpeakType DEF IInv
    <2> QED
      BY <1>1, <2>1, VoiceType DEF IInv, Typed
  <1>4. Heard' = Heard \cup {spoken'} /\ Once(voice'.heard) /\ Input' = Input /\ Sent' = Sent
    BY <1>1, <1>2, <1>3, OneMore DEF Heard, Input, Sent, IInv, Kept
  <1>5. Typed' /\ RestInv'
    BY <1>1, <1>3, SpeakType DEF IInv, Typed, RestInv
  <1>6. Kept'
    BY <1>1, <1>2, <1>3, <1>4, SpeakType DEF IInv, Kept
  <1> QED
    BY <1>5, <1>6 DEF IInv

LEMMA startKeeps == ASSUME IInv, start PROVE IInv'
  <1>1. voice.heard = << >> /\ voice'.heard = << >> /\ UNCHANGED <<composer, transcript, gone, spoken>>
        /\ voice' = [recording |-> TRUE, recogniser |-> "on", heard |-> << >>]
    BY DEF start, IInv, RestInv
  <1>2. Typed'
    BY <1>1, MicType, EmptyType DEF IInv, Typed, Voice
  <1>3. RestInv' /\ Kept'
    BY <1>1 DEF IInv, Kept, RestInv, Heard, Input, Sent
  <1> QED
    BY <1>2, <1>3 DEF IInv

LEMMA stopKeeps == ASSUME IInv, stop PROVE IInv'
  <1>1. UNCHANGED <<composer, mic, transcript, gone, spoken>> /\ voice.recogniser = "on"
        /\ voice' = [voice EXCEPT !.recogniser = "stopped"]
    BY DEF stop
  <1>2. voice'.heard = voice.heard /\ voice'.recording = voice.recording /\ voice'.recogniser = "stopped"
    BY <1>1 DEF IInv, Typed, Voice
  <1>3. Typed'
    BY <1>1 DEF IInv, Typed, Voice
  <1> QED
    BY <1>1, <1>2, <1>3 DEF IInv, Kept, RestInv, Heard, Input, Sent

LEMMA onendKeeps == ASSUME IInv, onend PROVE IInv'
  <1>1. composer.input \in Seq(Words) /\ voice.heard \in Seq(Words) /\ UNCHANGED <<mic, transcript, gone, spoken>>
        /\ composer' = [composer EXCEPT !.input = composer.input \o voice.heard] /\ voice' = Silent
    BY DEF onend, Reset, IInv, Typed, Composer, Voice
  <1>2. composer' \in Composer
        /\ composer'.input = composer.input \o voice.heard /\ composer'.sent = composer.sent
        /\ composer'.phase = composer.phase
    <2>1. composer.input \o voice.heard \in Seq(Words)
      BY <1>1
    <2> QED
      BY <1>1, <2>1, ComposerType DEF IInv, Typed
  <1>3. Input' = Input \cup Heard /\ Once(composer'.input) /\ Sent' = Sent
    BY <1>1, <1>2, BothIn DEF Heard, Input, Sent, IInv, Kept
  <1>4. Heard' = {} /\ Once(voice'.heard)
    BY <1>1, NothingIn DEF Heard, Silent
  <1>5. Typed' /\ RestInv'
    BY <1>1, <1>2, EmptyType DEF IInv, Typed, RestInv, Silent
  <1>6. Kept'
    BY <1>1, <1>2, <1>3, <1>4 DEF IInv, Kept
  <1> QED
    BY <1>5, <1>6 DEF IInv

LEMMA handleSendKeeps == ASSUME IInv, handleSend PROVE IInv'
  <1>1. composer' = [phase |-> "sending", input |-> << >>, sent |-> composer.input]
        /\ UNCHANGED <<voice, mic, transcript, gone, spoken>> /\ composer.sent = << >>
    BY DEF handleSend, Sending, IInv, RestInv
  <1>2. Input' = {} /\ Sent' = Input /\ Sent = {} /\ Heard' = Heard /\ Once(composer'.input) /\ Once(composer'.sent)
    BY <1>1, NothingIn DEF Heard, Input, Sent, IInv, Kept
  <1>3. Typed' /\ RestInv'
    BY <1>1, EmptyType DEF IInv, Typed, RestInv, Composer
  <1>4. Kept'
    BY <1>1, <1>2 DEF IInv, Kept
  <1> QED
    BY <1>3, <1>4 DEF IInv

LEMMA AnsweredKeeps == ASSUME IInv, NEW phase \in {"awaiting", "done"}, Answered(phase) PROVE IInv'
  <1>1. composer' = [composer EXCEPT !.phase = phase, !.sent = << >>] /\ transcript' = transcript \cup Sent
        /\ UNCHANGED <<voice, mic, gone, spoken>>
    BY DEF Answered, Sent
  <1>2. composer' \in Composer
        /\ composer'.input = composer.input /\ composer'.sent = << >>
    BY <1>1, EmptyType, ComposerType DEF IInv, Typed, Composer
  <1>3. Sent' = {} /\ Input' = Input /\ Heard' = Heard /\ Once(composer'.sent)
    BY <1>1, <1>2, NothingIn DEF Heard, Input, Sent
  <1>4. Sent \subseteq Words
    BY DEF IInv, Typed, Composer, Sent, Elements
  <1>5. Typed' /\ RestInv'
    BY <1>1, <1>2, <1>4 DEF IInv, Typed, RestInv
  <1>6. Kept'
    BY <1>1, <1>2, <1>3 DEF IInv, Kept
  <1> QED
    BY <1>5, <1>6 DEF IInv

LEMMA SendFailedKeeps == ASSUME IInv, SendFailed PROVE IInv'
  <1>1. composer' = [phase |-> "error", input |-> composer.sent, sent |-> << >>] /\ gone' = gone \cup Input
        /\ UNCHANGED <<voice, mic, transcript, spoken>>
    BY DEF SendFailed, Input
  <1>2. Sent' = {} /\ Input' = Sent /\ Heard' = Heard /\ Once(composer'.sent) /\ Once(composer'.input)
    BY <1>1, NothingIn DEF Heard, Input, Sent, IInv, Kept
  <1>3. Input \subseteq Words
    BY DEF IInv, Typed, Composer, Input, Elements
  <1>4. Typed' /\ RestInv'
    BY <1>1, <1>3, EmptyType DEF IInv, Typed, RestInv, Composer
  <1>5. Kept'
    BY <1>1, <1>2 DEF IInv, Kept
  <1> QED
    BY <1>4, <1>5 DEF IInv

LEMMA BecomeKeeps == ASSUME IInv, NEW panel \in {Absent, Panel}, Become(panel) PROVE IInv'
  <1>1. composer' = panel /\ voice' = Silent /\ transcript' = {} /\ gone' = 1..spoken /\ spoken' = spoken
        /\ mic' = [mic EXCEPT !.asked = 0, !.orphaned = mic.orphaned + mic.asked, !.held = FALSE]
    BY DEF Become
  <1>2. composer'.input = << >> /\ composer'.sent = << >> /\ voice'.heard = << >>
    BY <1>1 DEF Absent, Panel, Silent
  <1>3. composer' \in Composer
    BY <1>1, EmptyType
  <1>4. mic' \in Mic
    <2>1. mic \in Mic /\ mic.orphaned + mic.asked \in Nat
      BY DEF IInv, Typed, Mic
    <2> QED
      BY <1>1, <2>1 DEF Mic
  <1>5. 1..spoken \subseteq Words /\ spoken \in 0..MaxWords
    BY DictationAssumption DEF IInv, Typed, Words
  <1>6. Typed'
    BY <1>1, <1>3, <1>4, <1>5, EmptyType DEF Typed
  <1>7. RestInv'
    BY <1>1, <1>2 DEF RestInv, Silent
  <1>8. Kept'
    BY <1>1, <1>2, NothingIn DEF Kept, Heard, Input, Sent
  <1> QED
    BY <1>6, <1>7, <1>8 DEF IInv

LEMMA ComposerKeeps == ASSUME IInv, DictationNext \/ UNCHANGED dictation PROVE IInv'
  <1>1. CASE DictationNext
    BY <1>1, MicKeeps, TypeTextKeeps, onresultKeeps, startKeeps, stopKeeps, onendKeeps, handleSendKeeps,
       AnsweredKeeps, SendFailedKeeps, BecomeKeeps DEF DictationNext
  <1>2. CASE UNCHANGED dictation
    BY <1>2 DEF dictation, IInv, Typed, Kept, RestInv, Heard, Input, Sent
  <1> QED
    BY <1>1, <1>2

-----------------------------------------------------------------------------
(* Every step of the page is one of the composer's, or none.               *)
LEMMA PageSteps == [Next]_vars => DictationNext \/ UNCHANGED dictation
  <1> SUFFICES ASSUME [Next]_vars PROVE DictationNext \/ UNCHANGED dictation
    OBVIOUS
  <1>1. CASE UNCHANGED vars
    BY <1>1 DEF vars
  <1>2. ASSUME NEW place, NEW cs, NEW strict, Show(place, cs, strict) PROVE Become(Absent)
    BY <1>2 DEF Show
  <1>3. CASE \E place \in Elsewhere, strict \in BOOLEAN : Go(place, strict)
    BY <1>2, <1>3 DEF Go, DictationNext
  <1>4. CASE \E strict \in BOOLEAN : Reload(strict)
    BY <1>2, <1>4 DEF Reload, DictationNext
  <1>5. CASE setFieldValue \/ setParts \/ loadFixture \/ handleSaveDraft \/ handleSaveAndExport \/ OtherTab
    BY <1>5 DEF setFieldValue, setParts, loadFixture, handleSaveDraft, handleSaveAndExport, OtherTab
  <1>6. CASE Send \/ Compose \/ Record
    BY <1>6 DEF Send, Compose, Record, DictationNext
  <1>7. ASSUME NEW i \in DOMAIN calls, Serve(i) PROVE UNCHANGED dictation
    BY <1>7 DEF Serve
  <1>8. ASSUME NEW i \in DOMAIN calls, Hear(i) PROVE DictationNext \/ UNCHANGED dictation
    <2>1. CASE Deliver(i)
      BY <2>1 DEF Deliver, DictationNext
    <2>2. CASE DraftHeard(i) \/ Resolved(i) \/ Exported(i) \/ ExportFailed(i)
      BY <2>2 DEF DraftHeard, Resolved, Exported, ExportFailed
    <2>3. CASE Printed(i)
      BY <1>2, <2>3 DEF Printed, DictationNext
    <2>4. CASE TurnHeard(i)
      BY <2>4 DEF TurnHeard, DictationNext
    <2> QED
      BY <1>8, <2>1, <2>2, <2>3, <2>4 DEF Hear
  <1>9. CASE Network
    BY <1>7, <1>8, <1>9 DEF Network
  <1> QED
    BY <1>1, <1>3, <1>4, <1>5, <1>6, <1>9 DEF Next

LEMMA InitHolds == Init => IInv
  <1> SUFFICES ASSUME Init PROVE IInv
    OBVIOUS
  <1>1. composer = Absent /\ voice = Silent /\ mic = NoMic /\ transcript = {} /\ gone = {} /\ spoken = 0
    BY DEF Init, DictationInit
  <1>2. Typed
    BY <1>1, EmptyType, DictationAssumption DEF Typed, Absent, NoMic, Words
  <1>3. Kept
    BY <1>1, NothingIn DEF Kept, Heard, Input, Sent, Absent, Silent
  <1>4. RestInv
    BY <1>1 DEF RestInv, Absent, Silent
  <1> QED
    BY <1>2, <1>3, <1>4 DEF IInv

(* Every word typed or said on the report page is in one place, and in it  *)
(* once, whatever the recogniser, the mic button, failed sends, late       *)
(* answers, reloads and other pages do in between; only a failed send, over*)
(* what was dictated meanwhile, and leaving take words away                *)
(* (VoiceInput.tsx:14).                                                    *)
THEOREM WordsAreKept == Spec => []DictationIsKept
  <1>1. IInv /\ [Next]_vars => IInv'
    BY PageSteps, ComposerKeeps
  <1>2. IInv => DictationIsKept
    BY Places DEF IInv
  <1> QED
    BY <1>1, <1>2, InitHolds, PTL DEF Spec

-----------------------------------------------------------------------------
(* The page.  What is under way, whatever became of the page that began it.*)
CallsTyped(cs) ==
    /\ IsFiniteSet(DOMAIN cs) /\ DOMAIN cs \subseteq Nat \ {0}
    /\ cs \in [DOMAIN cs -> CallRecords]

PageTyped ==
    /\ row \in Seq([text : Texts, exported : BOOLEAN]) /\ Len(row) <= MaxIds
    /\ at \in {Away, Place("new", 0), Place("generate", 0)} \cup Reports
    /\ route \in [kind : {"none", "loading", "ready", "error"}, attached : BOOLEAN]
    /\ form \in [mode : {"none", "report", "fixture", "external"}, id : {0} \cup Ids, text : Texts,
                 busy : {"none", "draft", "export"}, status : {"idle", "saved", "error"},
                 saved : Texts]
    /\ CallsTyped(calls)
    /\ asks \in Nat /\ stored \subseteq Ids \X Texts
    /\ texts \in Texts /\ acts \in 0..MaxActs /\ asks <= acts

(* A form with a report is at its address, and the panel is that form's.   *)
FormInv ==
    /\ form.mode = "report" => at = Place("report", form.id) /\ form.id \in 1..Len(row)
    /\ form.status = "saved" => <<form.id, form.saved>> \in stored
    /\ Present => form.mode = "report"

(* A call names a report there is; only what somebody will hear has an     *)
(* answer; a draft that was answered was taken.                            *)
CallServed(c) ==
    /\ c.kind \notin {"new", "find"} \/ c.stage = "answered" => c.id \in 1..Len(row)
    /\ c.stage # "asked" => c.who = "here" \/ (c.who = "left" /\ c.kind \in {"find", "export"})
    /\ c.kind = "draft" /\ c.stage = "answered" => <<c.id, c.text>> \in stored

(* A call of this page is about the form it shows, or is what it waits for.*)
CallOfPage(c) ==
    c.who = "here" =>
        /\ c.kind \in {"draft", "turn"} => form.mode = "report" /\ form.id = c.id
        /\ c.kind \in {"load", "new"} => route.kind = "loading" /\ form = NoForm

CallsInv == \A i \in DOMAIN calls : CallServed(calls[i]) /\ CallOfPage(calls[i])

LoadInv ==
    \A i, j \in DOMAIN calls :
        /\ calls[i].who = "here" /\ calls[i].kind \in {"load", "new"}
        /\ calls[j].who = "here" /\ calls[j].kind \in {"load", "new"}
        => i = j

SavingInv == IF form.busy = "none" THEN Saving = {} ELSE \E i \in Saving : Saving = {i}

(* Drafts that were asked for and are still to be made.                    *)
AskedIn(cs) == {i \in DOMAIN cs : cs[i].kind \in {"new", "find"} /\ cs[i].stage = "asked"}
MadeInv == Len(row) + Cardinality(AskedIn(calls)) <= Existing + asks

PageInv == PageTyped /\ FormInv /\ CallsInv /\ LoadInv /\ SavingInv /\ MadeInv

LEMMA PageInvIsTrue == PageInv => PageIsTrue
  <1> SUFFICES ASSUME PageInv PROVE PageIsTrue
    OBVIOUS
  <1>1. Cardinality(Saving) = IF form.busy = "none" THEN 0 ELSE 1
    <2>1. CASE form.busy = "none"
      BY <2>1, FS_EmptySet DEF PageInv, SavingInv
    <2>2. CASE form.busy # "none"
      BY <2>2, FS_Singleton DEF PageInv, SavingInv
    <2> QED
      BY <2>1, <2>2
  <1>2. Len(row) <= Existing + asks
    <2>1. IsFiniteSet(AskedIn(calls))
      BY FS_Subset DEF PageInv, PageTyped, CallsTyped, AskedIn
    <2>2. Cardinality(AskedIn(calls)) \in Nat /\ Len(row) \in Nat /\ Existing \in Nat /\ asks \in Nat
      BY <2>1, FS_CardinalityType, EditorAssumption DEF PageInv, PageTyped
    <2> QED
      BY <2>2 DEF PageInv, MadeInv
  <1> QED
    BY <1>1, <1>2 DEF PageInv, FormInv, PageIsTrue

LEMMA PageTypes == PageInv /\ Typed => TypeOK
  <1> SUFFICES ASSUME PageInv, Typed PROVE TypeOK
    OBVIOUS
  <1>1. asks \in 0..MaxActs
    BY EditorAssumption DEF PageInv, PageTyped
  <1> QED
    BY <1>1 DEF PageInv, PageTyped, CallsTyped, Typed, TypeOK, DictationTypeOK, Composer, Voice, Mic

-----------------------------------------------------------------------------
(* Calls begun and calls ended.                                            *)
LEMMA FreeIs ==
  ASSUME NEW cs, IsFiniteSet(DOMAIN cs), DOMAIN cs \subseteq Nat \ {0}
  PROVE  Free(cs) \in Nat \ {0} /\ Free(cs) \notin DOMAIN cs
  <1> DEFINE n == Cardinality(DOMAIN cs)
  <1>1. n \in Nat
    BY FS_CardinalityType
  <1>2. \E k \in 1..n + 1 : k \notin DOMAIN cs
    <2> SUFFICES ASSUME 1..n + 1 \subseteq DOMAIN cs PROVE FALSE
      OBVIOUS
    <2>1. Cardinality(1..n + 1) = n + 1
      BY <1>1, FS_Interval
    <2>2. Cardinality(1..n + 1) <= n
      BY FS_Subset
    <2> QED
      BY <1>1, <2>1, <2>2
  <1>3. Free(cs) \in 1..n + 1 /\ Free(cs) \notin DOMAIN cs
    BY <1>2 DEF Free
  <1> QED
    BY <1>1, <1>3

LEMMA StartedIs ==
  ASSUME NEW cs, CallsTyped(cs), NEW call \in CallRecords
  PROVE  /\ CallsTyped(Started(cs, call))
         /\ Free(cs) \notin DOMAIN cs
         /\ DOMAIN Started(cs, call) = DOMAIN cs \cup {Free(cs)}
         /\ Started(cs, call)[Free(cs)] = call
         /\ \A i \in DOMAIN cs : Started(cs, call)[i] = cs[i]
  <1>1. Free(cs) \in Nat \ {0} /\ Free(cs) \notin DOMAIN cs
    BY FreeIs DEF CallsTyped
  <1>2. IsFiniteSet(DOMAIN cs \cup {Free(cs)})
    BY FS_AddElement DEF CallsTyped
  <1> QED
    BY <1>1, <1>2 DEF Started, CallsTyped

LEMMA EndedIs ==
  ASSUME NEW cs, CallsTyped(cs), NEW i
  PROVE  /\ CallsTyped(Ended(cs, i)) /\ DOMAIN Ended(cs, i) = DOMAIN cs \ {i}
         /\ \A j \in DOMAIN cs \ {i} : Ended(cs, i)[j] = cs[j]
  <1>1. IsFiniteSet(DOMAIN cs \ {i})
    BY FS_RemoveElement DEF CallsTyped
  <1> QED
    BY <1>1 DEF Ended, Restrict, CallsTyped

(* Whoever hears of it, it is the same call.                               *)
SameCall(c, d) == c.kind = d.kind /\ c.stage = d.stage /\ c.id = d.id /\ c.text = d.text

LEMMA AbandonIs ==
  ASSUME NEW cs, CallsTyped(cs)
  PROVE  /\ CallsTyped(Abandon(cs)) /\ AskedIn(Abandon(cs)) = AskedIn(cs)
         /\ DOMAIN Abandon(cs) = {j \in DOMAIN cs : cs[j].stage = "asked" \/ cs[j].kind \in {"find", "export"}}
         /\ \A i \in DOMAIN Abandon(cs) :
               /\ Abandon(cs)[i].who = IF cs[i].who = "here" THEN "left" ELSE cs[i].who
               /\ SameCall(Abandon(cs)[i], cs[i])
  <1> DEFINE kept == {j \in DOMAIN cs : cs[j].stage = "asked" \/ cs[j].kind \in {"find", "export"}}
             new == Abandon(cs)
  <1>1. /\ DOMAIN new = kept
        /\ \A i \in kept : new[i] = [cs[i] EXCEPT !.who = IF cs[i].who = "here" THEN "left" ELSE cs[i].who]
        /\ new = [i \in kept |-> new[i]]
    BY DEF Abandon
  <1>2. IsFiniteSet(kept)
    BY FS_Subset DEF CallsTyped
  <1> HIDE DEF new
  <1>3. \A i \in kept : /\ new[i] \in CallRecords /\ SameCall(new[i], cs[i])
                        /\ new[i].who = IF cs[i].who = "here" THEN "left" ELSE cs[i].who
    <2> TAKE i \in kept
    <2> DEFINE who == IF cs[i].who = "here" THEN "left" ELSE cs[i].who
    <2>1. cs[i] \in CallRecords
      BY DEF CallsTyped
    <2>2. who \in {"here", "left", "gone"}
      BY <2>1 DEF CallRecords
    <2>3. new[i] = [cs[i] EXCEPT !.who = who]
      BY <1>1
    <2> HIDE DEF who
    <2>4. new[i] \in CallRecords /\ SameCall(new[i], cs[i]) /\ new[i].who = who
      BY <2>1, <2>2, <2>3 DEF CallRecords, SameCall
    <2> QED
      BY <2>4 DEF who
  <1>4. CallsTyped(new)
    BY <1>1, <1>2, <1>3 DEF CallsTyped
  <1>5. AskedIn(new) = AskedIn(cs)
    BY <1>1, <1>3 DEF AskedIn, SameCall
  <1> QED
    BY <1>1, <1>3, <1>4, <1>5 DEF new

LEMMA DropIs ==
  ASSUME NEW cs, CallsTyped(cs)
  PROVE  /\ CallsTyped(Drop(cs)) /\ AskedIn(Drop(cs)) = AskedIn(cs)
         /\ DOMAIN Drop(cs) = {j \in DOMAIN cs : cs[j].stage = "asked"}
         /\ \A i \in DOMAIN Drop(cs) : Drop(cs)[i].who = "gone" /\ SameCall(Drop(cs)[i], cs[i])
  <1> DEFINE kept == {j \in DOMAIN cs : cs[j].stage = "asked"}
             new == Drop(cs)
  <1>1. /\ DOMAIN new = kept /\ \A i \in kept : new[i] = [cs[i] EXCEPT !.who = "gone"]
        /\ new = [i \in kept |-> new[i]]
    BY DEF Drop
  <1>2. IsFiniteSet(kept)
    BY FS_Subset DEF CallsTyped
  <1> HIDE DEF new
  <1>3. \A i \in kept : new[i] \in CallRecords /\ SameCall(new[i], cs[i]) /\ new[i].who = "gone"
    <2> TAKE i \in kept
    <2>1. cs[i] \in CallRecords
      BY DEF CallsTyped
    <2>2. new[i] = [cs[i] EXCEPT !.who = "gone"]
      BY <1>1
    <2> QED
      BY <2>1, <2>2 DEF CallRecords, SameCall
  <1>4. CallsTyped(new)
    BY <1>1, <1>2, <1>3 DEF CallsTyped
  <1>5. AskedIn(new) = AskedIn(cs)
    BY <1>1, <1>3 DEF AskedIn, SameCall
  <1> QED
    BY <1>1, <1>3, <1>4, <1>5 DEF new

LEMMA EffectIs ==
  ASSUME NEW cs, NEW call, NEW strict \in BOOLEAN
  PROVE  Effect(cs, call, strict) = [calls |-> Started(cs, call), inFlight |-> TRUE, attached |-> TRUE]
  BY DEF Effect, EffectRun

LEMMA CallIs ==
  ASSUME NEW kind \in {"load", "new", "draft", "find", "export", "turn"},
         NEW id \in {0} \cup Ids, NEW text \in Texts
  PROVE  /\ Call(kind, id, text) \in CallRecords
         /\ Call(kind, id, text).kind = kind /\ Call(kind, id, text).id = id
         /\ Call(kind, id, text).text = text /\ Call(kind, id, text).stage = "asked"
         /\ Call(kind, id, text).who = "here"
  <1>1. 0 \in Texts
    BY EditorAssumption DEF Texts
  <1> QED
    BY <1>1 DEF Call, CallRecords

LEMMA FormIs ==
    /\ NoForm \in [mode : {"none", "report", "fixture", "external"}, id : {0} \cup Ids, text : Texts,
                   busy : {"none", "draft", "export"}, status : {"idle", "saved", "error"}, saved : Texts]
    /\ NoForm.mode = "none" /\ NoForm.busy = "none" /\ NoForm.status = "idle"
    /\ \A mode \in {"report", "fixture", "external"}, id \in {0} \cup Ids, text \in Texts :
         /\ Form(mode, id, text) \in
              [mode : {"none", "report", "fixture", "external"}, id : {0} \cup Ids, text : Texts,
               busy : {"none", "draft", "export"}, status : {"idle", "saved", "error"}, saved : Texts]
         /\ Form(mode, id, text).mode = mode /\ Form(mode, id, text).id = id
         /\ Form(mode, id, text).busy = "none" /\ Form(mode, id, text).status = "idle"
  <1>1. 0 \in Texts
    BY EditorAssumption DEF Texts
  <1> QED
    BY <1>1 DEF NoForm, Form

LEMMA RowIs ==
  ASSUME PageInv
  PROVE  /\ Len(row) \in Nat /\ DOMAIN row = 1..Len(row) /\ 1..Len(row) \subseteq Ids
         /\ \A i \in 1..Len(row) : row[i] \in [text : Texts, exported : BOOLEAN] /\ row[i].text \in Texts
         /\ MaxIds \in Nat /\ MaxTexts \in Nat /\ Existing \in Nat /\ asks \in Nat
  <1>1. /\ row \in Seq([text : Texts, exported : BOOLEAN]) /\ Len(row) <= MaxIds /\ asks \in Nat
        /\ MaxIds \in Nat /\ MaxTexts \in Nat /\ Existing \in Nat
    BY EditorAssumption DEF PageInv, PageTyped
  <1>2. Len(row) \in Nat /\ DOMAIN row = 1..Len(row)
    BY <1>1
  <1>3. 1..Len(row) \subseteq Ids
    BY <1>1, <1>2 DEF Ids
  <1>4. \A i \in 1..Len(row) : row[i] \in [text : Texts, exported : BOOLEAN]
    <2> DEFINE R == [text : Texts, exported : BOOLEAN]
    <2>1. row \in Seq(R)
      BY <1>1
    <2> HIDE DEF R
    <2>2. \A i \in 1..Len(row) : row[i] \in R
      BY <2>1, <1>2
    <2> QED
      BY <2>2 DEF R
  <1> QED
    BY <1>1, <1>2, <1>3, <1>4

LEMMA AskedIsFinite ==
  ASSUME NEW cs, CallsTyped(cs)
  PROVE  IsFiniteSet(AskedIn(cs)) /\ Cardinality(AskedIn(cs)) \in Nat
  BY FS_Subset, FS_CardinalityType DEF CallsTyped, AskedIn

-----------------------------------------------------------------------------
(* Somewhere else: nothing under way is of the page that is shown then, but*)
(* the load it begins.                                                     *)
LEMMA ShowKeeps ==
  ASSUME PageInv,
         NEW place \in {Away, Place("new", 0), Place("generate", 0)} \cup Reports, NEW strict \in BOOLEAN,
         NEW cs, CallsTyped(cs), \A i \in DOMAIN cs : CallServed(cs[i]) /\ cs[i].who # "here",
         Len(row) + Cardinality(AskedIn(cs)) <= Existing + asks,
         Show(place, cs, strict), acts' \in 0..MaxActs, asks' <= acts'
  PROVE  PageInv'
  <1> DEFINE loads == place.name \in {"new", "report"}
             call == IF place.name = "new" THEN Call("new", 0, 0) ELSE Call("load", place.id, 0)
             new == Free(cs)
  <1>1. /\ at' = place /\ UNCHANGED <<row, stored, texts>> /\ composer' = Absent
        /\ asks' = IF place.name = "new" THEN asks + 1 ELSE asks
        /\ loads => calls' = Started(cs, call) /\ route' = [kind |-> "loading", attached |-> TRUE]
                    /\ form' = NoForm
        /\ ~loads => calls' = cs /\ route' = [kind |-> "none", attached |-> FALSE]
                     /\ form' \in {NoForm} \cup Previews
    BY EffectIs DEF Show, Become, server
  <1>2. /\ 0 \in Texts
        /\ place.name = "report" => place.id \in 1..Len(row)
    <2>1. 0 \in Texts
      BY EditorAssumption DEF Texts
    <2>2. CASE place \in {Away, Place("new", 0), Place("generate", 0)}
      BY <2>1, <2>2 DEF Place, Away
    <2>3. CASE place \in Reports
      BY <2>1, <2>3, RowIs DEF Place, Reports
    <2> QED
      BY <2>2, <2>3
  <1>3. loads => /\ call \in CallRecords /\ call.kind \in {"load", "new"} /\ call.stage = "asked"
                 /\ call.kind = "load" => call.id \in 1..Len(row)
                 /\ call.kind = "new" <=> place.name = "new"
    <2>1. CASE place.name = "new"
      BY <1>2, <2>1, CallIs
    <2>2. CASE place.name = "report"
      BY <1>2, <2>2, CallIs, RowIs
    <2> QED
      BY <2>1, <2>2
  <1> HIDE DEF call
  <1>4. loads => /\ CallsTyped(calls') /\ new \notin DOMAIN cs /\ DOMAIN calls' = DOMAIN cs \cup {new}
                 /\ calls'[new] = call /\ \A i \in DOMAIN cs : calls'[i] = cs[i]
    <2> SUFFICES ASSUME loads
                 PROVE  /\ CallsTyped(calls') /\ new \notin DOMAIN cs /\ DOMAIN calls' = DOMAIN cs \cup {new}
                        /\ calls'[new] = call /\ \A i \in DOMAIN cs : calls'[i] = cs[i]
      OBVIOUS
    <2>1. calls' = Started(cs, call) /\ call \in CallRecords
      BY <1>1, <1>3
    <2>2. CallsTyped(Started(cs, call)) /\ Free(cs) \notin DOMAIN cs
          /\ DOMAIN Started(cs, call) = DOMAIN cs \cup {Free(cs)} /\ Started(cs, call)[Free(cs)] = call
          /\ \A i \in DOMAIN cs : Started(cs, call)[i] = cs[i]
      BY <2>1, StartedIs
    <2> QED
      BY <2>1, <2>2
  <1> HIDE DEF new
  <1>5. CallsTyped(calls')
    BY <1>1, <1>4
  <1>6. form' \in [mode : {"none", "report", "fixture", "external"}, id : {0} \cup Ids, text : Texts,
                 busy : {"none", "draft", "export"}, status : {"idle", "saved", "error"}, saved : Texts]
        /\ form'.mode # "report" /\ form'.busy = "none" /\ form'.status = "idle"
    BY <1>1, <1>2, FormIs DEF Previews
  <1>7. PageTyped'
    <2>1. at' \in ({Away, Place("new", 0), Place("generate", 0)} \cup Reports)'
      BY <1>1 DEF Reports
    <2>2. route' \in [kind : {"none", "loading", "ready", "error"}, attached : BOOLEAN]
      <3>1. route' \in {[kind |-> "loading", attached |-> TRUE], [kind |-> "none", attached |-> FALSE]}
        BY <1>1
      <3>2. /\ [kind |-> "loading", attached |-> TRUE]
                  \in [kind : {"none", "loading", "ready", "error"}, attached : BOOLEAN]
            /\ [kind |-> "none", attached |-> FALSE]
                  \in [kind : {"none", "loading", "ready", "error"}, attached : BOOLEAN]
        OBVIOUS
      <3> QED
        BY <3>1, <3>2
    <2>3. asks' \in Nat
      BY <1>1, RowIs
    <2>4. row' = row /\ stored' = stored /\ texts' = texts
      BY <1>1
    <2> QED
      BY <1>5, <1>6, <2>1, <2>2, <2>3, <2>4 DEF PageInv, PageTyped
  <1>8. FormInv'
    BY <1>1, <1>6 DEF FormInv, Present, Absent
  <1>9. CallsInv'
    <2> SUFFICES ASSUME NEW i \in DOMAIN calls' PROVE (CallServed(calls[i]) /\ CallOfPage(calls[i]))'
      BY DEF CallsInv
    <2>1. CASE i \in DOMAIN cs
      BY <1>1, <1>4, <2>1 DEF CallServed, CallOfPage
    <2>2. CASE i \notin DOMAIN cs
      <3>1. loads /\ calls'[i] = call
        BY <1>1, <1>4, <2>2
      <3> QED
        BY <1>1, <1>3, <3>1 DEF CallServed, CallOfPage
    <2> QED
      BY <2>1, <2>2
  <1>10. LoadInv' /\ Saving' = {}
    <2>1. \A i \in DOMAIN calls' : calls'[i].who = "here" => loads /\ i = new /\ calls'[i].kind \in {"load", "new"}
      BY <1>1, <1>3, <1>4
    <2> QED
      BY <2>1 DEF LoadInv, Saving
  <1>11. MadeInv'
    <2>1. IsFiniteSet(AskedIn(cs)) /\ Cardinality(AskedIn(cs)) \in Nat
      BY AskedIsFinite
    <2>2. CASE place.name = "new"
      <3>1. AskedIn(calls') = AskedIn(cs) \cup {new} /\ new \notin AskedIn(cs)
        BY <1>1, <1>3, <1>4, <2>2 DEF AskedIn
      <3>2. Cardinality(AskedIn(calls')) = Cardinality(AskedIn(cs)) + 1
        BY <2>1, <3>1, FS_AddElement
      <3> QED
        BY <1>1, <2>1, <2>2, <3>2, RowIs DEF MadeInv
    <2>3. CASE place.name # "new"
      <3>1. AskedIn(calls') = AskedIn(cs)
        BY <1>1, <1>3, <1>4, <2>3 DEF AskedIn
      <3> QED
        BY <1>1, <2>3, <3>1 DEF MadeInv
    <2> QED
      BY <2>2, <2>3
  <1> QED
    BY <1>6, <1>7, <1>8, <1>9, <1>10, <1>11 DEF PageInv, SavingInv

LEMMA AwayFromIs ==
  ASSUME PageInv, NEW cs, CallsTyped(cs), \A i \in DOMAIN cs : CallServed(cs[i])
  PROVE  \A i \in DOMAIN Abandon(cs) : CallServed(Abandon(cs)[i]) /\ Abandon(cs)[i].who # "here"
  <1> SUFFICES ASSUME NEW i \in DOMAIN Abandon(cs)
               PROVE  CallServed(Abandon(cs)[i]) /\ Abandon(cs)[i].who # "here"
    OBVIOUS
  <1>1. i \in DOMAIN cs /\ (cs[i].stage = "asked" \/ cs[i].kind \in {"find", "export"})
        /\ SameCall(Abandon(cs)[i], cs[i])
        /\ Abandon(cs)[i].who = IF cs[i].who = "here" THEN "left" ELSE cs[i].who
    BY AbandonIs
  <1> QED
    BY <1>1 DEF CallServed, SameCall

LEMMA DroppedIs ==
  ASSUME PageInv
  PROVE  \A i \in DOMAIN Drop(calls) : CallServed(Drop(calls)[i]) /\ Drop(calls)[i].who # "here"
  <1> SUFFICES ASSUME NEW i \in DOMAIN Drop(calls)
               PROVE  CallServed(Drop(calls)[i]) /\ Drop(calls)[i].who # "here"
    OBVIOUS
  <1>1. CallsTyped(calls) /\ \A j \in DOMAIN calls : CallServed(calls[j])
    BY DEF PageInv, PageTyped, CallsInv
  <1>2. i \in DOMAIN calls /\ calls[i].stage = "asked"
        /\ SameCall(Drop(calls)[i], calls[i]) /\ Drop(calls)[i].who = "gone"
    BY <1>1, DropIs
  <1> QED
    BY <1>1, <1>2 DEF CallServed, SameCall

LEMMA GoKeeps ==
  ASSUME PageInv, NEW place \in Elsewhere, NEW strict \in BOOLEAN, Go(place, strict)
  PROVE  PageInv'
  <1>1. CallsTyped(calls) /\ \A i \in DOMAIN calls : CallServed(calls[i])
    BY DEF PageInv, PageTyped, CallsInv
  <1>2. acts' \in 0..MaxActs /\ asks' <= acts'
    BY EditorAssumption DEF Go, Act, Show, PageInv, PageTyped
  <1>3. Len(row) + Cardinality(AskedIn(Abandon(calls))) <= Existing + asks
    BY <1>1, AbandonIs DEF PageInv, MadeInv
  <1>4. CallsTyped(Abandon(calls))
        /\ \A i \in DOMAIN Abandon(calls) : CallServed(Abandon(calls)[i]) /\ Abandon(calls)[i].who # "here"
    BY <1>1, AbandonIs, AwayFromIs
  <1>5. place \in {Away, Place("new", 0), Place("generate", 0)} \cup Reports
        /\ Show(place, Abandon(calls), strict)
    BY DEF Go, Elsewhere
  <1> QED
    BY <1>2, <1>3, <1>4, <1>5, ShowKeeps

LEMMA ReloadKeeps ==
  ASSUME PageInv, NEW strict \in BOOLEAN, Reload(strict)
  PROVE  PageInv'
  <1>1. CallsTyped(calls) /\ at \in {Away, Place("new", 0), Place("generate", 0)} \cup Reports
    BY DEF PageInv, PageTyped
  <1>2. acts' \in 0..MaxActs /\ asks' <= acts'
    BY EditorAssumption DEF Reload, Act, Show, PageInv, PageTyped
  <1>3. Len(row) + Cardinality(AskedIn(Drop(calls))) <= Existing + asks
    BY <1>1, DropIs DEF PageInv, MadeInv
  <1> QED
    BY <1>1, <1>2, <1>3, DropIs, DroppedIs, ShowKeeps DEF Reload

LEMMA PrintedKeeps ==
  ASSUME PageInv, NEW i \in DOMAIN calls, Printed(i)
  PROVE  PageInv'
  <1> DEFINE cs == Ended(calls, i)
  <1>1. CallsTyped(calls) /\ \A j \in DOMAIN calls : CallServed(calls[j])
    BY DEF PageInv, PageTyped, CallsInv
  <1>2. CallsTyped(cs) /\ DOMAIN cs = DOMAIN calls \ {i} /\ \A j \in DOMAIN cs : cs[j] = calls[j]
    BY <1>1, EndedIs
  <1>3. AskedIn(cs) = AskedIn(calls)
    BY <1>2 DEF Printed, AskedIn
  <1> HIDE DEF cs
  <1>4. acts' \in 0..MaxActs /\ asks' <= acts'
    BY DEF Printed, Show, Away, Place, PageInv, PageTyped
  <1>5. Len(row) + Cardinality(AskedIn(Abandon(cs))) <= Existing + asks
    BY <1>2, <1>3, AbandonIs DEF PageInv, MadeInv
  <1>6. \A j \in DOMAIN cs : CallServed(cs[j])
    BY <1>1, <1>2
  <1>7. Show(Away, Abandon(cs), FALSE)
    BY DEF Printed, cs
  <1> QED
    BY <1>2, <1>4, <1>5, <1>6, <1>7, AbandonIs, AwayFromIs, ShowKeeps

-----------------------------------------------------------------------------
(* A call of the page begun, and one heard.                                *)
LEMMA BegunKeeps ==
  ASSUME PageInv, NEW kind \in {"draft", "export", "find", "turn"},
         NEW id \in {0} \cup Ids, NEW text \in Texts,
         kind # "find" => id \in 1..Len(row),
         kind \in {"draft", "turn"} => form.mode = "report" /\ form.id = id,
         calls' = Started(calls, Call(kind, id, text)), UNCHANGED <<server, at, route>>,
         form'.mode = form.mode, form'.id = form.id, form.mode # "none"
  PROVE  /\ CallsTyped(calls') /\ CallsInv' /\ LoadInv'
         /\ Saving' = (IF kind = "turn" THEN Saving ELSE Saving \cup {Free(calls)})
         /\ Free(calls) \in DOMAIN calls'
         /\ IF kind = "find"
               THEN Cardinality(AskedIn(calls')) = Cardinality(AskedIn(calls)) + 1
               ELSE AskedIn(calls') = AskedIn(calls)
  <1> DEFINE call == Call(kind, id, text)
             new == Free(calls)
  <1>1. call \in CallRecords /\ call.kind = kind /\ call.id = id /\ call.text = text
        /\ call.stage = "asked" /\ call.who = "here"
    BY CallIs
  <1>2. CallsTyped(calls) /\ calls' = Started(calls, call)
    BY DEF PageInv, PageTyped
  <1> HIDE DEF call
  <1>3. /\ CallsTyped(calls') /\ new \notin DOMAIN calls /\ DOMAIN calls' = DOMAIN calls \cup {new}
        /\ calls'[new] = call /\ \A i \in DOMAIN calls : calls'[i] = calls[i]
    <2>1. /\ CallsTyped(Started(calls, call)) /\ new \notin DOMAIN calls
          /\ DOMAIN Started(calls, call) = DOMAIN calls \cup {new} /\ Started(calls, call)[new] = call
          /\ \A i \in DOMAIN calls : Started(calls, call)[i] = calls[i]
      BY <1>1, <1>2, StartedIs
    <2> QED
      BY <1>2, <2>1
  <1> HIDE DEF new
  <1>4. \A i \in DOMAIN calls : ~(calls[i].who = "here" /\ calls[i].kind \in {"load", "new"})
    BY FormIs DEF PageInv, CallsInv, CallOfPage
  <1>5. CallsInv'
    <2> SUFFICES ASSUME NEW i \in DOMAIN calls' PROVE (CallServed(calls[i]) /\ CallOfPage(calls[i]))'
      BY DEF CallsInv
    <2>1. CASE i \in DOMAIN calls
      <3>1. CallServed(calls[i]) /\ CallOfPage(calls[i]) /\ calls'[i] = calls[i]
        BY <1>3, <2>1 DEF PageInv, CallsInv
      <3> QED
        BY <1>4, <2>1, <3>1 DEF CallServed, CallOfPage, server
    <2>2. CASE i \notin DOMAIN calls
      <3>1. calls'[i] = call
        BY <1>3, <2>2
      <3> QED
        BY <1>1, <3>1 DEF CallServed, CallOfPage, server
    <2> QED
      BY <2>1, <2>2
  <1>6. LoadInv'
    BY <1>1, <1>3, <1>4 DEF LoadInv
  <1>7. Saving' = IF kind = "turn" THEN Saving ELSE Saving \cup {new}
    BY <1>1, <1>3 DEF Saving
  <1>8. IF kind = "find"
           THEN Cardinality(AskedIn(calls')) = Cardinality(AskedIn(calls)) + 1
           ELSE AskedIn(calls') = AskedIn(calls)
    <2>1. CASE kind = "find"
      <3>1. AskedIn(calls') = AskedIn(calls) \cup {new} /\ new \notin AskedIn(calls)
        BY <1>1, <1>3, <2>1 DEF AskedIn
      <3>2. IsFiniteSet(AskedIn(calls))
        BY <1>2, AskedIsFinite
      <3> QED
        BY <2>1, <3>1, <3>2, FS_AddElement
    <2>2. CASE kind # "find"
      BY <1>1, <1>3, <2>2 DEF AskedIn
    <2> QED
      BY <2>1, <2>2
  <1> QED
    BY <1>3, <1>5, <1>6, <1>7, <1>8 DEF new

LEMMA HeardKeeps ==
  ASSUME PageInv, NEW i \in DOMAIN calls, calls' = Ended(calls, i), UNCHANGED <<row, stored, asks>>,
         route'.kind = route.kind \/ (calls[i].who = "here" /\ calls[i].kind \in {"load", "new"}),
         form' = form \/ (form # NoForm /\ form'.mode = form.mode /\ form'.id = form.id)
           \/ (calls[i].who = "here" /\ calls[i].kind \in {"load", "new"})
  PROVE  /\ CallsTyped(calls') /\ CallsInv' /\ LoadInv' /\ MadeInv' /\ Saving' = Saving \ {i}
         /\ AskedIn(calls') \subseteq AskedIn(calls)
  <1>1. CallsTyped(calls)
    BY DEF PageInv, PageTyped
  <1>2. /\ CallsTyped(calls') /\ DOMAIN calls' = DOMAIN calls \ {i}
        /\ \A j \in DOMAIN calls' : calls'[j] = calls[j]
    <2>1. /\ CallsTyped(Ended(calls, i)) /\ DOMAIN Ended(calls, i) = DOMAIN calls \ {i}
          /\ \A j \in DOMAIN calls \ {i} : Ended(calls, i)[j] = calls[j]
      BY <1>1, EndedIs
    <2> QED
      BY <2>1
  <1>3. CallsInv'
    <2> SUFFICES ASSUME NEW j \in DOMAIN calls' PROVE (CallServed(calls[j]) /\ CallOfPage(calls[j]))'
      BY DEF CallsInv
    <2>1. CallServed(calls[j]) /\ CallOfPage(calls[j]) /\ CallOfPage(calls[i])
          /\ calls'[j] = calls[j] /\ j \in DOMAIN calls /\ j # i
      BY <1>2 DEF PageInv, CallsInv
    <2>2. ~(calls[i].who = "here" /\ calls[i].kind \in {"load", "new"}
            /\ calls[j].who = "here" /\ calls[j].kind \in {"load", "new"})
      BY <2>1 DEF PageInv, LoadInv
    <2>3. CASE calls[i].who = "here" /\ calls[i].kind \in {"load", "new"}
      BY <2>1, <2>2, <2>3, FormIs DEF CallServed, CallOfPage
    <2>4. CASE ~(calls[i].who = "here" /\ calls[i].kind \in {"load", "new"})
      BY <2>1, <2>4 DEF CallServed, CallOfPage
    <2> QED
      BY <2>3, <2>4
  <1>4. LoadInv'
    BY <1>2 DEF PageInv, LoadInv
  <1>5. Saving' = Saving \ {i}
    BY <1>2 DEF Saving
  <1>6. AskedIn(calls') \subseteq AskedIn(calls)
    BY <1>2 DEF AskedIn
  <1>7. MadeInv'
    <2>1. Cardinality(AskedIn(calls')) <= Cardinality(AskedIn(calls))
          /\ Cardinality(AskedIn(calls')) \in Nat /\ Cardinality(AskedIn(calls)) \in Nat
      BY <1>1, <1>2, <1>6, AskedIsFinite, FS_Subset
    <2> QED
      BY <2>1, RowIs DEF PageInv, MadeInv
  <1> QED
    BY <1>2, <1>3, <1>4, <1>5, <1>6, <1>7

(* What is under way stays as it is: a step of the form, or of the server. *)
LEMMA FormKeeps ==
  ASSUME PageInv, UNCHANGED <<row, at, route, calls>>, form'.mode = form.mode, form'.id = form.id,
         form.mode # "none", stored \subseteq stored'
  PROVE  CallsInv' /\ LoadInv' /\ AskedIn(calls') = AskedIn(calls) /\ Saving' = Saving
  <1>1. \A i \in DOMAIN calls : ~(calls[i].who = "here" /\ calls[i].kind \in {"load", "new"})
    BY FormIs DEF PageInv, CallsInv, CallOfPage
  <1>2. CallsInv'
    BY <1>1 DEF PageInv, CallsInv, CallServed, CallOfPage
  <1> QED
    BY <1>2 DEF PageInv, LoadInv, Saving, AskedIn

-----------------------------------------------------------------------------
(* The form's own steps.                                                   *)
FormType == [mode : {"none", "report", "fixture", "external"}, id : {0} \cup Ids, text : Texts,
             busy : {"none", "draft", "export"}, status : {"idle", "saved", "error"}, saved : Texts]

LEMMA FormTypeIs ==
  ASSUME PageInv
  PROVE  /\ form \in FormType /\ texts \in Texts /\ 0 \in Texts
         /\ NewText => texts' \in Texts
  <1>1. texts \in Nat /\ texts <= MaxTexts /\ MaxTexts \in Nat
    BY EditorAssumption DEF PageInv, PageTyped, Texts
  <1>2. NewText => texts' \in Texts
    BY <1>1 DEF NewText, Texts
  <1> QED
    BY <1>1, <1>2 DEF PageInv, PageTyped, FormType, Texts

LEMMA EditKeeps ==
  ASSUME PageInv, setFieldValue \/ setParts \/ loadFixture
  PROVE  PageInv'
  <1>1. form \in FormType /\ texts \in Texts /\ 0 \in Texts /\ (NewText => texts' \in Texts)
    BY FormTypeIs
  <1>2. /\ UNCHANGED <<dictation, row, stored, at, route, calls, asks>> /\ form.mode # "none"
        /\ Act /\ (NewText \/ UNCHANGED texts)
        /\ \E text \in Texts : \/ form' = [form EXCEPT !.status = "idle", !.text = text]
                              \/ form' = [form EXCEPT !.text = text]
    <2>1. CASE setFieldValue
      <3>1. CASE NewText /\ form' = [noteEdit EXCEPT !.text = texts']
        BY <1>1, <2>1, <3>1 DEF setFieldValue, noteEdit, server
      <3>2. CASE UNCHANGED texts /\ form' = [noteEdit EXCEPT !.text = 0]
        BY <1>1, <2>1, <3>2 DEF setFieldValue, noteEdit, server
      <3> QED
        BY <2>1, <3>1, <3>2 DEF setFieldValue
    <2>2. CASE setParts
      <3>1. CASE NewText /\ form' = [noteEdit EXCEPT !.text = texts']
        BY <1>1, <2>2, <3>1 DEF setParts, noteEdit, server
      <3>2. CASE UNCHANGED texts /\ form' = noteEdit
        <4>1. form' = [form EXCEPT !.status = "idle", !.text = form.text] /\ form.text \in Texts
          BY <1>1, <3>2 DEF noteEdit, FormType
        <4> QED
          BY <2>2, <3>2, <4>1 DEF setParts, server
      <3> QED
        BY <2>2, <3>1, <3>2 DEF setParts
    <2>3. CASE loadFixture
      BY <1>1, <2>3 DEF loadFixture, server
    <2> QED
      BY <2>1, <2>2, <2>3
  <1>3. /\ form' \in FormType /\ form'.mode = form.mode /\ form'.id = form.id /\ form'.busy = form.busy
        /\ form'.status = "idle" \/ (form'.status = form.status /\ form'.saved = form.saved)
    BY <1>1, <1>2 DEF FormType
  <1>4. CallsInv' /\ LoadInv' /\ AskedIn(calls') = AskedIn(calls) /\ Saving' = Saving
    BY <1>2, <1>3, FormKeeps
  <1>5. texts' \in Texts /\ acts' \in 0..MaxActs /\ asks' <= acts'
    BY <1>1, <1>2, EditorAssumption DEF Act, PageInv, PageTyped
  <1>6. PageTyped'
    BY <1>2, <1>3, <1>5 DEF PageInv, PageTyped, Reports, FormType
  <1>7. FormInv'
    BY <1>2, <1>3 DEF PageInv, FormInv, Present, dictation
  <1>8. SavingInv' /\ MadeInv'
    BY <1>2, <1>3, <1>4 DEF PageInv, SavingInv, MadeInv
  <1> QED
    BY <1>4, <1>6, <1>7, <1>8 DEF PageInv

LEMMA SaveDraftKeeps ==
  ASSUME PageInv, handleSaveDraft
  PROVE  PageInv'
  <1>1. form \in FormType /\ texts \in Texts
    BY FormTypeIs
  <1>2. /\ UNCHANGED <<dictation, row, stored, at, route, asks, texts>> /\ Act
        /\ form.mode = "report" /\ form.busy = "none"
        /\ form' = [form EXCEPT !.busy = "draft", !.status = "idle"]
        /\ calls' = Started(calls, Call("draft", form.id, form.text))
    BY DEF handleSaveDraft, CanSave, Begin, server
  <1>3. form' \in FormType /\ form'.mode = form.mode /\ form'.id = form.id /\ form'.busy = "draft"
        /\ form'.status = "idle"
    BY <1>1, <1>2 DEF FormType
  <1>4. form.id \in {0} \cup Ids /\ form.text \in Texts /\ form.id \in 1..Len(row)
    BY <1>1, <1>2 DEF FormType, PageInv, FormInv
  <1>5. /\ CallsTyped(calls') /\ CallsInv' /\ LoadInv' /\ Saving' = Saving \cup {Free(calls)}
        /\ Free(calls) \in DOMAIN calls' /\ AskedIn(calls') = AskedIn(calls)
    BY <1>2, <1>3, <1>4, BegunKeeps DEF server
  <1>6. acts' \in 0..MaxActs /\ asks' <= acts'
    BY <1>2, EditorAssumption DEF Act, PageInv, PageTyped
  <1>7. PageTyped'
    BY <1>2, <1>3, <1>5, <1>6 DEF PageInv, PageTyped, Reports, FormType
  <1>8. FormInv'
    BY <1>2, <1>3 DEF PageInv, FormInv, Present, dictation
  <1>9. SavingInv' /\ MadeInv'
    BY <1>2, <1>3, <1>5 DEF PageInv, SavingInv, MadeInv
  <1> QED
    BY <1>5, <1>7, <1>8, <1>9 DEF PageInv

LEMMA SaveAndExportKeeps ==
  ASSUME PageInv, handleSaveAndExport
  PROVE  PageInv'
  <1>1. form \in FormType /\ texts \in Texts /\ 0 \in {0} \cup Ids
    BY FormTypeIs
  <1>2. /\ UNCHANGED <<dictation, row, stored, at, route, texts>> /\ Act
        /\ form.mode \in {"report", "fixture"} /\ form.busy = "none"
    BY DEF handleSaveAndExport, CanExport, server
  <1>3. acts' = acts + 1 /\ acts' \in 0..MaxActs /\ asks <= acts /\ asks \in Nat /\ acts \in Nat
    BY <1>2, EditorAssumption DEF Act, PageInv, PageTyped
  <1>4. CASE form' = [form EXCEPT !.status = "error"] /\ UNCHANGED <<calls, asks>>
    <2>1. form' \in FormType /\ form'.mode = form.mode /\ form'.id = form.id /\ form'.busy = form.busy
          /\ form'.status = "error"
      BY <1>1, <1>4 DEF FormType
    <2>2. CallsInv' /\ LoadInv' /\ AskedIn(calls') = AskedIn(calls) /\ Saving' = Saving
      BY <1>2, <1>4, <2>1, FormKeeps
    <2>3. PageTyped'
      BY <1>2, <1>3, <1>4, <2>1 DEF PageInv, PageTyped, Reports, FormType
    <2>4. FormInv' /\ SavingInv' /\ MadeInv'
      BY <1>2, <1>4, <2>1, <2>2 DEF PageInv, FormInv, Present, dictation, SavingInv, MadeInv
    <2> QED
      BY <2>2, <2>3, <2>4 DEF PageInv
  <1>5. CASE ~(form' = [form EXCEPT !.status = "error"] /\ UNCHANGED <<calls, asks>>)
    <2> DEFINE kind == IF form.mode = "report" THEN "export" ELSE "find"
               id == IF form.mode = "report" THEN form.id ELSE 0
    <2>1. /\ form' = [form EXCEPT !.busy = "export", !.status = "idle"]
          /\ calls' = Started(calls, Call(kind, id, form.text))
          /\ asks' = IF kind = "find" THEN asks + 1 ELSE asks
      BY <1>5 DEF handleSaveAndExport, Begin
    <2>2. form' \in FormType /\ form'.mode = form.mode /\ form'.id = form.id /\ form'.busy = "export"
          /\ form'.status = "idle"
      BY <1>1, <2>1 DEF FormType
    <2>3. id \in {0} \cup Ids /\ form.text \in Texts /\ kind \in {"export", "find"}
          /\ (kind # "find" => id \in 1..Len(row))
      BY <1>1 DEF FormType, PageInv, FormInv
    <2> HIDE DEF kind, id
    <2>4. /\ CallsTyped(calls') /\ CallsInv' /\ LoadInv'
          /\ Saving' = (IF kind = "turn" THEN Saving ELSE Saving \cup {Free(calls)})
          /\ Free(calls) \in DOMAIN calls'
          /\ IF kind = "find"
                THEN Cardinality(AskedIn(calls')) = Cardinality(AskedIn(calls)) + 1
                ELSE AskedIn(calls') = AskedIn(calls)
      BY <1>2, <2>1, <2>2, <2>3, BegunKeeps DEF server
    <2>5. asks' \in Nat /\ asks' <= acts'
      BY <1>3, <2>1
    <2>6. PageTyped'
      BY <1>2, <1>3, <2>2, <2>4, <2>5 DEF PageInv, PageTyped, Reports, FormType
    <2>7. FormInv'
      BY <1>2, <2>2 DEF PageInv, FormInv, Present, dictation
    <2>8. SavingInv'
      BY <1>2, <2>2, <2>3, <2>4 DEF PageInv, SavingInv
    <2>9. MadeInv'
      <3>1. CallsTyped(calls) /\ Cardinality(AskedIn(calls)) \in Nat
        BY AskedIsFinite DEF PageInv, PageTyped
      <3>2. Len(row) + Cardinality(AskedIn(calls)) <= Existing + asks
        BY DEF PageInv, MadeInv
      <3> QED
        BY <1>2, <2>1, <2>4, <3>1, <3>2, RowIs DEF MadeInv
    <2> QED
      BY <2>4, <2>6, <2>7, <2>8, <2>9 DEF PageInv
  <1> QED
    BY <1>4, <1>5

LEMMA SendKeeps ==
  ASSUME PageInv, Send
  PROVE  PageInv'
  <1>1. form \in FormType /\ 0 \in Texts
    BY FormTypeIs
  <1>2. /\ UNCHANGED <<row, stored, at, route, form, asks, texts>> /\ Act /\ Present
        /\ calls' = Started(calls, Call("turn", form.id, 0))
    BY DEF Send, handleSend, server, page
  <1>3. form.mode = "report" /\ form.id \in 1..Len(row) /\ form.id \in {0} \cup Ids
    BY <1>1, <1>2 DEF FormType, PageInv, FormInv
  <1>4. /\ CallsTyped(calls') /\ CallsInv' /\ LoadInv' /\ Saving' = Saving
        /\ AskedIn(calls') = AskedIn(calls)
    BY <1>1, <1>2, <1>3, BegunKeeps DEF server
  <1>5. acts' \in 0..MaxActs /\ asks' <= acts'
    BY <1>2, EditorAssumption DEF Act, PageInv, PageTyped
  <1>6. PageTyped'
    BY <1>2, <1>4, <1>5 DEF PageInv, PageTyped, Reports
  <1>7. FormInv'
    BY <1>2, <1>3 DEF PageInv, FormInv
  <1>8. SavingInv' /\ MadeInv'
    BY <1>2, <1>4 DEF PageInv, SavingInv, MadeInv
  <1> QED
    BY <1>4, <1>6, <1>7, <1>8 DEF PageInv

(* Only who is there is answered; the composer of a form stays that form's.*)
LEMMA DraftHeardKeeps ==
  ASSUME PageInv, NEW i \in DOMAIN calls, DraftHeard(i)
  PROVE  PageInv'
  <1> DEFINE c == calls[i]
  <1>1. /\ form \in FormType /\ c \in CallRecords /\ CallServed(c) /\ CallOfPage(c)
        /\ c.kind = "draft" /\ c.stage # "asked"
        /\ 0 \in Texts
    BY FormTypeIs DEF DraftHeard, PageInv, PageTyped, CallsTyped, CallsInv
  <1>2. c.who = "here" /\ form.mode = "report" /\ form.id = c.id /\ c.text \in Texts
        /\ (c.stage = "answered" => <<form.id, c.text>> \in stored)
    BY <1>1 DEF CallServed, CallOfPage, CallRecords
  <1>3. /\ calls' = Ended(calls, i) /\ UNCHANGED <<dictation, row, stored, at, route, asks, texts, acts>>
        /\ form' = IF c.stage = "answered" THEN Idle("saved", c.text) ELSE Idle("error", 0)
    BY DEF DraftHeard, server
  <1>4. i \in Saving
    BY <1>1, <1>2 DEF Saving
  <1> HIDE DEF c
  <1>5. /\ form' \in FormType /\ form'.mode = form.mode /\ form'.id = form.id /\ form'.busy = "none"
        /\ form'.status = "saved" => <<form'.id, form'.saved>> \in stored
    BY <1>1, <1>2, <1>3 DEF Idle, FormType
  <1>6. form # NoForm
    BY <1>2, FormIs
  <1>7. /\ CallsTyped(calls') /\ CallsInv' /\ LoadInv' /\ MadeInv' /\ Saving' = Saving \ {i}
    BY <1>3, <1>5, <1>6, HeardKeeps
  <1>8. PageTyped'
    BY <1>3, <1>5, <1>7 DEF PageInv, PageTyped, Reports, FormType
  <1>9. FormInv'
    BY <1>3, <1>5 DEF PageInv, FormInv, Present, dictation
  <1>10. SavingInv'
    BY <1>4, <1>5, <1>7 DEF PageInv, SavingInv
  <1> QED
    BY <1>7, <1>8, <1>9, <1>10 DEF PageInv

LEMMA ExportFailedKeeps ==
  ASSUME PageInv, NEW i \in DOMAIN calls, ExportFailed(i)
  PROVE  PageInv'
  <1> DEFINE c == calls[i]
  <1>1. form \in FormType /\ c \in CallRecords /\ c.kind \in {"find", "export"} /\ 0 \in Texts
    BY FormTypeIs DEF ExportFailed, PageInv, PageTyped, CallsTyped
  <1>2. /\ calls' = Ended(calls, i) /\ UNCHANGED <<dictation, row, stored, at, route, asks, texts, acts>>
        /\ form' = IF c.who = "here" THEN Idle("error", 0) ELSE form
    BY DEF ExportFailed, server
  <1>3. c.who = "here" <=> i \in Saving
    BY <1>1 DEF Saving
  <1>4. c.who = "here" => form.busy # "none" /\ form # NoForm
    BY <1>3, FormIs DEF PageInv, SavingInv
  <1> HIDE DEF c
  <1>5. /\ form' \in FormType /\ form'.mode = form.mode /\ form'.id = form.id
        /\ form'.busy = (IF c.who = "here" THEN "none" ELSE form.busy)
        /\ form'.status = "error" \/ (form'.status = form.status /\ form'.saved = form.saved)
    BY <1>1, <1>2 DEF Idle, FormType
  <1>6. /\ CallsTyped(calls') /\ CallsInv' /\ LoadInv' /\ MadeInv' /\ Saving' = Saving \ {i}
    BY <1>2, <1>4, <1>5, HeardKeeps
  <1>7. PageTyped'
    BY <1>2, <1>5, <1>6 DEF PageInv, PageTyped, Reports, FormType
  <1>8. FormInv'
    BY <1>2, <1>5 DEF PageInv, FormInv, Present, dictation
  <1>9. SavingInv'
    BY <1>3, <1>5, <1>6 DEF PageInv, SavingInv
  <1> QED
    BY <1>6, <1>7, <1>8, <1>9 DEF PageInv

LEMMA TurnHeardKeeps ==
  ASSUME PageInv, NEW i \in DOMAIN calls, TurnHeard(i)
  PROVE  PageInv'
  <1> DEFINE c == calls[i]
  <1>1. /\ form \in FormType /\ c \in CallRecords /\ CallServed(c) /\ CallOfPage(c)
        /\ c.kind = "turn" /\ c.stage # "asked"
    BY FormTypeIs DEF TurnHeard, PageInv, PageTyped, CallsTyped, CallsInv
  <1>2. form.mode = "report" /\ form.id = c.id /\ c.text \in Texts
    BY <1>1 DEF CallServed, CallOfPage, CallRecords
  <1>3. /\ calls' = Ended(calls, i) /\ UNCHANGED <<row, stored, at, route, asks, texts, acts>>
        /\ form' = form \/ form' = [form EXCEPT !.text = c.text, !.status = "idle"]
    BY DEF TurnHeard, server
  <1>4. i \notin Saving
    BY <1>1 DEF Saving
  <1> HIDE DEF c
  <1>5. /\ form' \in FormType /\ form'.mode = form.mode /\ form'.id = form.id /\ form'.busy = form.busy
        /\ form'.status = "idle" \/ (form'.status = form.status /\ form'.saved = form.saved)
    BY <1>1, <1>2, <1>3 DEF FormType
  <1>6. form # NoForm
    BY <1>2, FormIs
  <1>7. /\ CallsTyped(calls') /\ CallsInv' /\ LoadInv' /\ MadeInv' /\ Saving' = Saving \ {i}
    BY <1>3, <1>5, <1>6, HeardKeeps
  <1>8. PageTyped'
    BY <1>3, <1>5, <1>7 DEF PageInv, PageTyped, Reports, FormType
  <1>9. FormInv'
    BY <1>2, <1>3, <1>5 DEF PageInv, FormInv
  <1>10. SavingInv'
    <2>1. Saving' = Saving
      BY <1>4, <1>7
    <2> QED
      BY <1>5, <2>1 DEF PageInv, SavingInv, Saving
  <1> QED
    BY <1>7, <1>8, <1>9, <1>10 DEF PageInv

LEMMA DeliverKeeps ==
  ASSUME PageInv, NEW i \in DOMAIN calls, Deliver(i)
  PROVE  PageInv'
  <1> DEFINE c == calls[i]
  <1>1. /\ c \in CallRecords /\ CallServed(c) /\ CallOfPage(c)
        /\ c.kind \in {"load", "new"} /\ c.who = "here" /\ c.stage # "asked"
    BY DEF Deliver, PageInv, PageTyped, CallsTyped, CallsInv
  <1>2. form = NoForm /\ route.kind = "loading" /\ form.busy = "none" /\ i \notin Saving /\ Saving = {}
        /\ form.mode = "none"
    BY <1>1, FormIs DEF CallOfPage, Saving, PageInv, SavingInv
  <1>3. calls' = Ended(calls, i) /\ UNCHANGED <<row, stored, asks, texts, acts>>
    BY DEF Deliver, server
  <1>4. c.id \in {0} \cup Ids /\ c.text \in Texts
    BY <1>1 DEF CallRecords
  <1>5. /\ CallsTyped(calls') /\ CallsInv' /\ LoadInv' /\ MadeInv' /\ Saving' = {}
    BY <1>1, <1>2, <1>3, HeardKeeps
  <1>6. CASE c.stage = "answered"
    <2>1. /\ route' = [route EXCEPT !.kind = "ready"] /\ form' = Form("report", c.id, c.text)
          /\ at' = Place("report", c.id) /\ c.id \in 1..Len(row)
      BY <1>1, <1>6 DEF Deliver, CallServed
    <2> HIDE DEF c
    <2>2. form' \in FormType /\ form'.mode = "report" /\ form'.id = c.id /\ form'.busy = "none"
          /\ form'.status = "idle"
      BY <1>4, <2>1, FormIs DEF FormType
    <2>3. at' \in Reports'
      BY <1>3, <2>1, RowIs DEF Reports
    <2>4. route' \in [kind : {"none", "loading", "ready", "error"}, attached : BOOLEAN]
      BY <2>1 DEF PageInv, PageTyped
    <2>5. PageTyped'
      BY <1>3, <1>5, <2>2, <2>3, <2>4 DEF PageInv, PageTyped, FormType
    <2>6. FormInv' /\ SavingInv'
      BY <1>3, <1>5, <2>1, <2>2 DEF FormInv, SavingInv
    <2> QED
      BY <1>5, <2>5, <2>6 DEF PageInv
  <1>7. CASE c.stage # "answered"
    <2>1. route' = [route EXCEPT !.kind = "error"] /\ UNCHANGED <<form, at, dictation>>
      BY <1>7 DEF Deliver
    <2> HIDE DEF c
    <2>2. route' \in [kind : {"none", "loading", "ready", "error"}, attached : BOOLEAN]
      BY <2>1 DEF PageInv, PageTyped
    <2>3. PageTyped'
      BY <1>3, <1>5, <2>1, <2>2 DEF PageInv, PageTyped, Reports
    <2>4. FormInv' /\ SavingInv'
      BY <1>2, <1>3, <1>5, <2>1 DEF PageInv, FormInv, Present, dictation, SavingInv
    <2> QED
      BY <1>5, <2>3, <2>4 DEF PageInv
  <1> QED
    BY <1>6, <1>7

(* Resolved and Exported move a call on; nothing else reads what they set. *)
LEMMA MovedOnKeeps ==
  ASSUME PageInv, NEW i \in DOMAIN calls, Resolved(i) \/ Exported(i)
  PROVE  PageInv'
  <1>1. /\ CallsTyped(calls) /\ calls[i] \in CallRecords /\ CallServed(calls[i])
        /\ calls[i].stage = "answered" /\ calls[i].kind \in {"find", "export"}
        /\ form.id \in {0} \cup Ids /\ form.text \in Texts
    BY FormTypeIs DEF Resolved, Exported, PageInv, PageTyped, CallsTyped, CallsInv, FormType
  <1>2. UNCHANGED <<dictation, row, stored, at, route, form, asks, texts, acts>>
    BY DEF Resolved, Exported, server, page
  <1>3. /\ calls' \in [DOMAIN calls -> CallRecords]
        /\ \A j \in DOMAIN calls \ {i} : calls'[j] = calls[j]
        /\ calls'[i].kind = "export" /\ calls'[i].stage \in {"asked", "printing"}
        /\ calls'[i].who = calls[i].who /\ calls'[i].id = calls[i].id
    <2> DEFINE c == calls[i]
    <2>1. CASE Resolved(i)
      <3>1. calls' = [calls EXCEPT ![i] = [c EXCEPT !.kind = "export", !.stage = "asked"]]
        BY <2>1 DEF Resolved
      <3>2. /\ [c EXCEPT !.kind = "export", !.stage = "asked"] \in CallRecords
            /\ [c EXCEPT !.kind = "export", !.stage = "asked"].kind = "export"
            /\ [c EXCEPT !.kind = "export", !.stage = "asked"].stage = "asked"
            /\ [c EXCEPT !.kind = "export", !.stage = "asked"].who = c.who
            /\ [c EXCEPT !.kind = "export", !.stage = "asked"].id = c.id
        BY <1>1 DEF CallRecords
      <3> QED
        BY <1>1, <3>1, <3>2 DEF CallsTyped
    <2>2. CASE Exported(i)
      <3> DEFINE shown == <<form.id, form.text>>
      <3>1. calls' = [calls EXCEPT ![i] = [c EXCEPT !.stage = "printing", !.shown = shown]]
            /\ c.kind = "export"
        BY <2>2 DEF Exported
      <3>2. shown \in ({0} \cup Ids) \X Texts
        BY <1>1
      <3> HIDE DEF shown
      <3>3. /\ [c EXCEPT !.stage = "printing", !.shown = shown] \in CallRecords
            /\ [c EXCEPT !.stage = "printing", !.shown = shown].kind = c.kind
            /\ [c EXCEPT !.stage = "printing", !.shown = shown].stage = "printing"
            /\ [c EXCEPT !.stage = "printing", !.shown = shown].who = c.who
            /\ [c EXCEPT !.stage = "printing", !.shown = shown].id = c.id
        BY <1>1, <3>2 DEF CallRecords
      <3> QED
        BY <1>1, <3>1, <3>3 DEF CallsTyped
    <2> QED
      BY <2>1, <2>2
  <1>4. DOMAIN calls' = DOMAIN calls /\ CallsTyped(calls')
    BY <1>1, <1>3 DEF CallsTyped
  <1>5. CallsInv'
    <2> SUFFICES ASSUME NEW j \in DOMAIN calls PROVE (CallServed(calls[j]) /\ CallOfPage(calls[j]))'
      BY <1>4 DEF CallsInv
    <2>1. CASE j = i
      BY <1>1, <1>2, <1>3, <2>1 DEF CallServed, CallOfPage, CallRecords
    <2>2. CASE j # i
      <3>1. CallServed(calls[j]) /\ CallOfPage(calls[j]) /\ calls'[j] = calls[j]
        BY <1>3, <2>2 DEF PageInv, CallsInv
      <3> QED
        BY <1>2, <3>1 DEF CallServed, CallOfPage
    <2> QED
      BY <2>1, <2>2
  <1>6. LoadInv' /\ Saving' = Saving
    BY <1>1, <1>3, <1>4 DEF PageInv, LoadInv, Saving
  <1>7. MadeInv'
    <2>1. AskedIn(calls') = AskedIn(calls)
      BY <1>1, <1>3, <1>4 DEF AskedIn
    <2> QED
      BY <1>2, <2>1 DEF PageInv, MadeInv
  <1>8. PageTyped'
    BY <1>2, <1>4 DEF PageInv, PageTyped, Reports
  <1>9. FormInv'
    BY <1>2 DEF PageInv, FormInv, Present, dictation
  <1>10. SavingInv'
    BY <1>2, <1>6 DEF PageInv, SavingInv
  <1> QED
    BY <1>5, <1>6, <1>7, <1>8, <1>9, <1>10 DEF PageInv

(* The composer alone: a panel that is there stays, one that is not does   *)
(* not come.                                                               *)
LEMMA ComposeKeeps ==
  ASSUME PageInv, Typed, Compose \/ Record
  PROVE  PageInv'
  <1>1. UNCHANGED <<row, stored, at, route, form, calls, asks, texts>>
    BY DEF Compose, Record, editor, server, page
  <1>2. acts' \in 0..MaxActs /\ asks' <= acts'
    BY <1>1, EditorAssumption DEF Compose, Record, editor, Act, PageInv, PageTyped
  <1>3. composer'.phase = composer.phase
    <2>1. composer \in Composer
      BY DEF Typed
    <2> QED
      BY <2>1 DEF Compose, Record, TypeText, start, onresult, stop, onend, GrantMic, DenyMic, Composer
  <1>4. PageTyped'
    BY <1>1, <1>2 DEF PageInv, PageTyped, Reports
  <1>5. FormInv' /\ CallsInv' /\ LoadInv' /\ SavingInv' /\ MadeInv'
    BY <1>1, <1>3 DEF PageInv, FormInv, Present, CallsInv, CallServed, CallOfPage, LoadInv, SavingInv,
       Saving, MadeInv
  <1> QED
    BY <1>4, <1>5 DEF PageInv

-----------------------------------------------------------------------------
(* The server's side: a call gets its answer, or nobody is left to hear.   *)
LEMMA ReplyIs ==
  ASSUME PageInv, NEW i \in DOMAIN calls, NEW stage \in {"answered", "failed"},
         NEW id \in {0} \cup Ids, NEW text \in Texts, Reply(i, stage, id, text)
  PROVE  /\ CallsTyped(calls') /\ DOMAIN calls' \subseteq DOMAIN calls
         /\ \A j \in DOMAIN calls \ {i} : j \in DOMAIN calls' /\ calls'[j] = calls[j]
         /\ calls[i].who = "here" => i \in DOMAIN calls'
         /\ i \in DOMAIN calls' =>
              /\ calls'[i].kind = calls[i].kind /\ calls'[i].who = calls[i].who
              /\ calls'[i].stage = stage /\ calls'[i].id = id /\ calls'[i].text = text
              /\ calls[i].who = "here" \/ (calls[i].who = "left" /\ calls[i].kind \in {"find", "export"})
  <1> DEFINE c == calls[i]
  <1>1. CallsTyped(calls) /\ c \in CallRecords
    BY DEF PageInv, PageTyped, CallsTyped
  <1>2. CASE c.who = "here" \/ (c.who = "left" /\ c.kind \in {"find", "export"})
    <2>1. calls' = [calls EXCEPT ![i] = [c EXCEPT !.stage = stage, !.id = id, !.text = text]]
      BY <1>2 DEF Reply
    <2>2. /\ [c EXCEPT !.stage = stage, !.id = id, !.text = text] \in CallRecords
          /\ [c EXCEPT !.stage = stage, !.id = id, !.text = text].kind = c.kind
          /\ [c EXCEPT !.stage = stage, !.id = id, !.text = text].who = c.who
          /\ [c EXCEPT !.stage = stage, !.id = id, !.text = text].stage = stage
          /\ [c EXCEPT !.stage = stage, !.id = id, !.text = text].id = id
          /\ [c EXCEPT !.stage = stage, !.id = id, !.text = text].text = text
      BY <1>1 DEF CallRecords
    <2>3. calls' \in [DOMAIN calls -> CallRecords] /\ DOMAIN calls' = DOMAIN calls
      BY <1>1, <2>1, <2>2 DEF CallsTyped
    <2>4. CallsTyped(calls')
      BY <1>1, <2>3 DEF CallsTyped
    <2> QED
      BY <1>2, <2>1, <2>2, <2>3, <2>4
  <1>3. CASE ~(c.who = "here" \/ (c.who = "left" /\ c.kind \in {"find", "export"}))
    <2>1. calls' = Ended(calls, i)
      BY <1>3 DEF Reply
    <2>2. /\ CallsTyped(Ended(calls, i)) /\ DOMAIN Ended(calls, i) = DOMAIN calls \ {i}
          /\ \A j \in DOMAIN calls \ {i} : Ended(calls, i)[j] = calls[j]
      BY <1>1, EndedIs
    <2> QED
      BY <1>3, <2>1, <2>2
  <1> QED
    BY <1>2, <1>3

RowsType == Seq([text : Texts, exported : BOOLEAN])

LEMMA AnswerKeeps ==
  ASSUME PageInv, NEW i \in DOMAIN calls, calls[i].stage = "asked",
         NEW stage \in {"answered", "failed"}, NEW id \in {0} \cup Ids, NEW text \in Texts,
         Reply(i, stage, id, text), UNCHANGED <<dictation, page, asks, acts>>,
         row' \in RowsType, Len(row') <= MaxIds,
         stored \subseteq stored', stored' \subseteq Ids \X Texts, texts' \in Texts,
         \/ Len(row') = Len(row)
         \/ Len(row') = Len(row) + 1 /\ calls[i].kind \in {"new", "find"},
         calls[i].kind \notin {"new", "find"} \/ stage = "answered" => id \in 1..Len(row'),
         calls[i].kind \in {"draft", "turn"} => id = calls[i].id,
         calls[i].kind = "draft" /\ stage = "answered" => <<id, text>> \in stored'
  PROVE  PageInv'
  <1> DEFINE c == calls[i]
  <1>1. CallsTyped(calls) /\ c \in CallRecords /\ c.stage = "asked"
    BY DEF PageInv, PageTyped, CallsTyped
  <1>2. /\ CallsTyped(calls') /\ DOMAIN calls' \subseteq DOMAIN calls
        /\ \A j \in DOMAIN calls \ {i} : j \in DOMAIN calls' /\ calls'[j] = calls[j]
        /\ c.who = "here" => i \in DOMAIN calls'
        /\ i \in DOMAIN calls' =>
             /\ calls'[i].kind = c.kind /\ calls'[i].who = c.who
             /\ calls'[i].stage = stage /\ calls'[i].id = id /\ calls'[i].text = text
             /\ c.who = "here" \/ (c.who = "left" /\ c.kind \in {"find", "export"})
    BY ReplyIs
  <1>3. Len(row) \in Nat /\ Len(row') \in Nat /\ Len(row) <= Len(row')
    BY RowIs DEF RowsType
  <1>4. at' = at /\ route' = route /\ form' = form
    BY DEF page
  <1>5. CallsInv'
    <2> SUFFICES ASSUME NEW j \in DOMAIN calls' PROVE (CallServed(calls[j]) /\ CallOfPage(calls[j]))'
      BY DEF CallsInv
    <2>1. CallServed(calls[j]) /\ CallOfPage(calls[j]) /\ j \in DOMAIN calls
      BY <1>2 DEF PageInv, CallsInv
    <2>2. CASE j = i
      <3>1. CallServed(calls[i])'
        BY <1>2, <2>2 DEF CallServed
      <3>2. CallOfPage(calls[i])'
        BY <1>2, <1>4, <2>1, <2>2 DEF CallOfPage
      <3> QED
        BY <2>2, <3>1, <3>2
    <2>3. CASE j # i
      <3>1. calls'[j] = calls[j]
        BY <1>2, <2>1, <2>3
      <3>2. calls[j].id \in 1..Len(row) => calls[j].id \in 1..Len(row')
        BY <1>3
      <3> QED
        BY <1>4, <2>1, <3>1, <3>2 DEF CallServed, CallOfPage
    <2> QED
      BY <2>2, <2>3
  <1>6. LoadInv'
    <2>1. \A j \in DOMAIN calls' : calls'[j].who = calls[j].who /\ calls'[j].kind = calls[j].kind
      BY <1>2
    <2> QED
      BY <1>2, <2>1 DEF PageInv, LoadInv
  <1>7. Saving' = Saving
    BY <1>2 DEF Saving
  <1>8. MadeInv'
    <2>1. IsFiniteSet(AskedIn(calls)) /\ Cardinality(AskedIn(calls)) \in Nat
          /\ IsFiniteSet(AskedIn(calls')) /\ Cardinality(AskedIn(calls')) \in Nat
      BY <1>1, <1>2, AskedIsFinite
    <2>2. AskedIn(calls') = AskedIn(calls) \ {i}
      BY <1>2 DEF AskedIn
    <2>3. Cardinality(AskedIn(calls')) = IF i \in AskedIn(calls) THEN Cardinality(AskedIn(calls)) - 1
                                                               ELSE Cardinality(AskedIn(calls))
      BY <2>1, <2>2, FS_RemoveElement
    <2>4. Len(row') + Cardinality(AskedIn(calls')) <= Len(row) + Cardinality(AskedIn(calls))
      <3>1. c.kind \in {"new", "find"} => i \in AskedIn(calls)
        BY <1>1 DEF AskedIn
      <3> QED
        BY <1>3, <2>1, <2>3, <3>1
    <2> QED
      BY <1>3, <2>1, <2>4, RowIs DEF PageInv, MadeInv
  <1>9. PageTyped'
    <2>1. at' \in ({Away, Place("new", 0), Place("generate", 0)} \cup Reports)'
      <3>1. DOMAIN row = 1..Len(row) /\ DOMAIN row' = 1..Len(row')
        BY RowIs DEF RowsType
      <3>2. Reports \subseteq Reports'
        <4> DEFINE m == Len(row)
                   n == Len(row')
        <4>1. m \in Nat /\ n \in Nat /\ m <= n /\ DOMAIN row = 1..m /\ DOMAIN row' = 1..n
          BY <1>3, <3>1
        <4> HIDE DEF m, n
        <4>2. DOMAIN row \subseteq DOMAIN row'
          BY <4>1
        <4> QED
          BY <4>2 DEF Reports
      <3> QED
        BY <1>4, <3>2 DEF PageInv, PageTyped
    <2> QED
      BY <1>2, <1>4, <2>1 DEF PageInv, PageTyped, RowsType
  <1>10. FormInv'
    <2>1. form.mode = "report" => form.id \in 1..Len(row')
      BY <1>3 DEF PageInv, FormInv
    <2> QED
      BY <1>4, <2>1 DEF PageInv, FormInv, Present, dictation
  <1>11. SavingInv'
    BY <1>4, <1>7 DEF PageInv, SavingInv
  <1> QED
    BY <1>5, <1>6, <1>8, <1>9, <1>10, <1>11 DEF PageInv

(* A save taken: the row is written, and history has the text.             *)
LEMMA TakeIs ==
  ASSUME PageInv, NEW c, c.id \in 1..Len(row), NEW text \in Texts, Take(c, text)
  PROVE  /\ row' \in RowsType /\ Len(row') = Len(row) /\ row'[c.id].text = text
         /\ stored' = stored \cup {<<c.id, text>>} /\ stored' \subseteq Ids \X Texts
  <1> DEFINE R == [text : Texts, exported : BOOLEAN]
             old == row[c.id]
             more == old.exported \/ c.kind = "export"
             new == [old EXCEPT !.text = text, !.exported = more]
  <1>1. row \in Seq(R) /\ old \in R /\ Len(row) \in Nat /\ DOMAIN row = 1..Len(row) /\ 1..Len(row) \subseteq Ids
    BY RowIs DEF PageInv, PageTyped
  <1>2. row' = [row EXCEPT ![c.id] = new] /\ stored' = stored \cup {<<c.id, text>>}
    BY DEF Take
  <1>3. more \in BOOLEAN
    BY <1>1
  <1> HIDE DEF more
  <1>4. new \in R /\ new.text = text
    BY <1>1, <1>3
  <1> HIDE DEF new, old, R
  <1>5. row' \in Seq(R) /\ Len(row') = Len(row)
    BY <1>1, <1>2, <1>4, ExceptSeq
  <1>6. row'[c.id].text = text
    BY <1>1, <1>2, <1>4
  <1>7. stored' \subseteq Ids \X Texts
    BY <1>1, <1>2 DEF PageInv, PageTyped
  <1> QED
    BY <1>2, <1>5, <1>6, <1>7 DEF R, RowsType

LEMMA ServeKeeps ==
  ASSUME PageInv, NEW i \in DOMAIN calls, Serve(i)
  PROVE  PageInv'
  <1> DEFINE c == calls[i]
  <1>1. /\ c \in CallRecords /\ CallServed(c) /\ c.stage = "asked" /\ UNCHANGED <<dictation, page, asks, acts>>
        /\ c.id \in {0} \cup Ids /\ c.text \in Texts
        /\ c.kind \notin {"new", "find"} => c.id \in 1..Len(row)
    BY DEF Serve, PageInv, PageTyped, CallsTyped, CallsInv, CallServed, CallRecords
  <1>2. /\ row \in RowsType /\ Len(row) <= MaxIds /\ stored \subseteq Ids \X Texts
        /\ texts \in Texts /\ (NewText => texts' \in Texts) /\ Len(row) \in Nat /\ 0 \in Texts
    BY RowIs, FormTypeIs DEF PageInv, PageTyped, RowsType
  <1>3. CASE getReport(i)
    <2>1. c.kind = "load" /\ Reply(i, "answered", c.id, row[c.id].text) /\ UNCHANGED <<row, stored, texts>>
      BY <1>3 DEF getReport, server
    <2>2. row[c.id].text \in Texts
      BY <1>1, <2>1, RowIs
    <2> QED
      BY <1>1, <1>2, <2>1, <2>2, AnswerKeeps
  <1>4. CASE createReport(i)
    <2> DEFINE new == [text |-> 0, exported |-> FALSE]
    <2>1. /\ c.kind \in {"new", "find"} /\ Len(row) < MaxIds /\ UNCHANGED <<stored, texts>>
          /\ row' = Append(row, new)
      BY <1>4 DEF createReport
    <2>2. PICK stage \in {"answered", "failed"} : Reply(i, stage, Len(row'), c.text)
      BY <1>4 DEF createReport
    <2>3. new \in [text : Texts, exported : BOOLEAN]
      BY <1>2
    <2> HIDE DEF new
    <2>4. row' \in RowsType /\ Len(row') = Len(row) + 1
      BY <1>2, <2>1, <2>3, AppendProperties DEF RowsType
    <2>5. Len(row') \in Ids /\ Len(row') <= MaxIds /\ Len(row') \in 1..Len(row')
      BY <1>2, <2>1, <2>4, RowIs DEF Ids
    <2> QED
      BY <1>1, <1>2, <2>1, <2>2, <2>4, <2>5, AnswerKeeps
  <1>5. CASE saveReport(i)
    <2>1. c.kind \in {"draft", "export"} /\ Take(c, c.text) /\ UNCHANGED texts
      BY <1>5 DEF saveReport
    <2>2. PICK stage \in {"answered", "failed"} : Reply(i, stage, c.id, c.text)
      BY <1>5 DEF saveReport
    <2>3. /\ row' \in RowsType /\ Len(row') = Len(row) /\ stored' = stored \cup {<<c.id, c.text>>}
          /\ stored' \subseteq Ids \X Texts
      BY <1>1, <2>1, TakeIs
    <2> QED
      BY <1>1, <1>2, <2>1, <2>2, <2>3, AnswerKeeps
  <1>6. CASE agentChat(i)
    <2>1. c.kind = "turn"
      BY <1>6 DEF agentChat
    <2>2. PICK stage \in {"answered", "failed"} : Reply(i, stage, c.id, row'[c.id].text)
      BY <1>6 DEF agentChat
    <2>3. /\ row' \in RowsType /\ Len(row') = Len(row) /\ stored \subseteq stored'
          /\ stored' \subseteq Ids \X Texts /\ texts' \in Texts /\ row'[c.id].text \in Texts
      <3>1. CASE NewText /\ Take(c, texts')
        BY <1>1, <1>2, <2>1, <3>1, TakeIs
      <3>2. CASE UNCHANGED <<server, texts>>
        BY <1>1, <1>2, <2>1, <3>2, RowIs DEF server
      <3> QED
        BY <1>6, <3>1, <3>2 DEF agentChat
    <2> QED
      BY <1>1, <1>2, <2>1, <2>2, <2>3, AnswerKeeps
  <1>7. CASE Refuse(i)
    <2>1. Reply(i, "failed", c.id, c.text) /\ UNCHANGED <<row, stored, texts>>
      BY <1>7 DEF Refuse, server
    <2> QED
      BY <1>1, <1>2, <2>1, AnswerKeeps
  <1> QED
    BY <1>3, <1>4, <1>5, <1>6, <1>7 DEF Serve

LEMMA OtherTabKeeps ==
  ASSUME PageInv, OtherTab
  PROVE  PageInv'
  <1>1. /\ UNCHANGED <<dictation, at, route, form, calls, asks>> /\ Act /\ NewText
        /\ texts' \in Texts
    BY FormTypeIs DEF OtherTab, page
  <1>2. PICK i \in DOMAIN row, kind \in {"draft", "export"} : Take(Call(kind, i, texts'), texts')
    BY DEF OtherTab
  <1>3. i \in 1..Len(row) /\ Call(kind, i, texts').id = i
    BY <1>1, <1>2, RowIs, CallIs
  <1>4. /\ row' \in RowsType /\ Len(row') = Len(row) /\ stored \subseteq stored'
        /\ stored' \subseteq Ids \X Texts
    BY <1>1, <1>2, <1>3, TakeIs
  <1>5. acts' \in 0..MaxActs /\ asks' <= acts'
    BY <1>1, EditorAssumption DEF Act, PageInv, PageTyped
  <1>6. PageTyped'
    <2>1. DOMAIN row' = DOMAIN row
      BY <1>4, RowIs DEF RowsType
    <2>2. Reports' = Reports
      BY <2>1 DEF Reports
    <2> QED
      BY <1>1, <1>4, <1>5, <2>2 DEF PageInv, PageTyped, RowsType
  <1>7. FormInv' /\ CallsInv' /\ LoadInv' /\ SavingInv' /\ MadeInv'
    BY <1>1, <1>4 DEF PageInv, FormInv, Present, dictation, CallsInv, CallServed, CallOfPage, LoadInv,
       SavingInv, Saving, MadeInv
  <1> QED
    BY <1>6, <1>7 DEF PageInv

-----------------------------------------------------------------------------
LEMMA PageInit == Init => PageInv
  <1> SUFFICES ASSUME Init PROVE PageInv
    OBVIOUS
  <1>1. /\ row = [i \in 1..Existing |-> [text |-> 0, exported |-> FALSE]]
        /\ at = Away /\ form = NoForm /\ DOMAIN calls = {} /\ calls = [i \in {} |-> Away]
        /\ route = [kind |-> "none", attached |-> FALSE] /\ composer = Absent
        /\ asks = 0 /\ stored = {} /\ texts = 0 /\ acts = 0
    BY DEF Init, DictationInit
  <1>2. Existing \in Nat /\ MaxIds \in Nat /\ Existing <= MaxIds /\ MaxTexts \in Nat /\ MaxActs \in Nat
        /\ 0 \in Texts
    BY EditorAssumption DEF Texts
  <1>3. row \in Seq([text : Texts, exported : BOOLEAN]) /\ Len(row) = Existing
    <2> DEFINE new == [text |-> 0, exported |-> FALSE]
    <2>1. new \in [text : Texts, exported : BOOLEAN]
      BY <1>2
    <2> HIDE DEF new
    <2> QED
      BY <1>1, <1>2, <2>1 DEF new
  <1>4. CallsTyped(calls)
    BY <1>1, FS_EmptySet DEF CallsTyped
  <1>5. PageTyped
    BY <1>1, <1>2, <1>3, <1>4, FormIs DEF PageTyped
  <1>6. FormInv /\ CallsInv /\ LoadInv /\ SavingInv
    BY <1>1, FormIs DEF FormInv, Present, Absent, CallsInv, LoadInv, SavingInv, Saving
  <1>7. MadeInv
    <2>1. AskedIn(calls) = {}
      BY <1>1 DEF AskedIn
    <2>2. Cardinality(AskedIn(calls)) = 0
      BY <2>1, FS_EmptySet
    <2> QED
      BY <1>1, <1>2, <1>3, <2>2 DEF MadeInv
  <1> QED
    BY <1>5, <1>6, <1>7 DEF PageInv

LEMMA PageKeeps == Typed /\ PageInv /\ [Next]_vars => PageInv'
  <1> SUFFICES ASSUME Typed, PageInv, [Next]_vars PROVE PageInv'
    OBVIOUS
  <1>1. CASE UNCHANGED vars
    BY <1>1 DEF vars, editor, dictation, PageInv, PageTyped, Reports, FormInv, Present, CallsInv,
       CallServed, CallOfPage, LoadInv, SavingInv, Saving, MadeInv
  <1>2. CASE \E place \in Elsewhere, strict \in BOOLEAN : Go(place, strict)
    BY <1>2, GoKeeps
  <1>3. CASE \E strict \in BOOLEAN : Reload(strict)
    BY <1>3, ReloadKeeps
  <1>4. CASE setFieldValue \/ setParts \/ loadFixture
    BY <1>4, EditKeeps
  <1>5. CASE handleSaveDraft \/ handleSaveAndExport \/ Send
    BY <1>5, SaveDraftKeeps, SaveAndExportKeeps, SendKeeps
  <1>6. CASE Compose \/ Record
    BY <1>6, ComposeKeeps
  <1>7. CASE OtherTab
    BY <1>7, OtherTabKeeps
  <1>8. CASE Network
    <2>1. PICK i \in DOMAIN calls : Serve(i) \/ Hear(i)
      BY <1>8 DEF Network
    <2>2. CASE Serve(i)
      BY <2>2, ServeKeeps
    <2>3. CASE Hear(i)
      BY <2>3, DeliverKeeps, DraftHeardKeeps, MovedOnKeeps, ExportFailedKeeps, PrintedKeeps,
         TurnHeardKeeps DEF Hear
    <2> QED
      BY <2>1, <2>2, <2>3
  <1> QED
    BY <1>1, <1>2, <1>3, <1>4, <1>5, <1>6, <1>7, <1>8 DEF Next

(* The report page's state stays what its code takes it for, for any number*)
(* of reports, edits, pages and calls left behind: among others an answer  *)
(* is only ever about a report there is (ReportEditorRoute.tsx,            *)
(* ReportEditorPage.tsx).                                                  *)
THEOREM TypeCorrect == Spec => []TypeOK
  <1>1. IInv /\ [Next]_vars => IInv'
    BY PageSteps, ComposerKeeps
  <1>2. IInv /\ PageInv /\ [Next]_vars => PageInv'
    BY PageKeeps DEF IInv
  <1>3. IInv /\ PageInv => TypeOK
    BY PageTypes DEF IInv
  <1> QED
    BY <1>1, <1>2, <1>3, InitHolds, PageInit, PTL DEF Spec

(* Whatever was left, reloaded or answered late, the form is that of the   *)
(* report in the address, "Draft saved" is about a text the server took,   *)
(* one press is one save, and no draft is made that nobody asked for       *)
(* (ReportEditorPage.tsx:81, ReportEditorRoute.tsx:76).                    *)
THEOREM ThePageIsTrue == Spec => []PageIsTrue
  <1>1. IInv /\ [Next]_vars => IInv'
    BY PageSteps, ComposerKeeps
  <1>2. IInv /\ PageInv /\ [Next]_vars => PageInv'
    BY PageKeeps DEF IInv
  <1>3. PageInv => PageIsTrue
    BY PageInvIsTrue
  <1> QED
    BY <1>1, <1>2, <1>3, InitHolds, PageInit, PTL DEF Spec
(* Whatever the page does, goes through or leaves, its composer goes only  *)
(* through the operations of VoiceInput.tsx and ConversationPanel.tsx:     *)
(* nothing on the page reaches into it but by showing or leaving a form.   *)
THEOREM ImplementsDictation == Spec => DictationSpec
  <1>1. Init => DictationInit
    BY DEF Init
  <1>2. [Next]_vars => [DictationNext]_dictation
    BY PageSteps
  <1> QED
    BY <1>1, <1>2, PTL DEF Spec, DictationSpec
=============================================================================
