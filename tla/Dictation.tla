------------------------------- MODULE Dictation -------------------------------
(***************************************************************************)
(* The composer of the conversation panel: text typed and text dictated,   *)
(* sent as one message.  The recogniser and the microphone are the         *)
(* browser's: a recogniser may end by itself, and the question whether the *)
(* page may use the microphone is answered whenever the user does.         *)
(*                                                                         *)
(* Words are numbered as they are typed or said.  The transcript keeps what*)
(* the server has taken; "gone" has the words that a send which failed, or *)
(* a page that was left, took with them.                                   *)
(***************************************************************************)
EXTENDS Naturals, Sequences, FiniteSets

CONSTANT MaxWords, MaxQuestions \* words; times the microphone is asked for

ASSUME DictationAssumption == MaxWords \in Nat /\ MaxQuestions \in Nat

VARIABLES composer, voice, mic, transcript, gone, spoken
dictation == <<composer, voice, mic, transcript, gone, spoken>>

Words == 1..MaxWords
Absent == [phase |-> "absent", input |-> << >>, sent |-> << >>]
Silent == [recording |-> FALSE, recogniser |-> "off", heard |-> << >>]
NoMic == [asked |-> 0, orphaned |-> 0, held |-> FALSE, left |-> 0]
Present == composer.phase # "absent"
Sending == composer.phase = "sending"

DictationInit ==
    /\ composer = Absent /\ voice = Silent /\ mic = NoMic
    /\ transcript = {} /\ gone = {} /\ spoken = 0

Panel == [phase |-> "idle", input |-> << >>, sent |-> << >>]

(* A panel takes the place of what was there; cleanup aborts the recogniser*)
(* and closes the stream it has, not one still being asked for.            *)
Become(panel) ==
    /\ composer' = panel /\ voice' = Silent
    /\ mic' = [mic EXCEPT !.asked = 0, !.orphaned = @ + mic.asked, !.held = FALSE]
    /\ transcript' = {} /\ gone' = 1..spoken
    /\ UNCHANGED spoken

----------------------------------------------------------------------------
Speak == spoken < MaxWords /\ spoken' = spoken + 1

TypeText ==
    /\ Present /\ ~Sending /\ Speak
    /\ composer' = [composer EXCEPT !.input = Append(@, spoken')]
    /\ UNCHANGED <<voice, mic, transcript, gone>>

(* The stream is asked for until there is one.                             *)
start ==
    /\ Present /\ ~Sending /\ ~voice.recording
    /\ voice' = [recording |-> TRUE, recogniser |-> "on", heard |-> << >>]
    /\ IF mic.held THEN UNCHANGED mic
       ELSE mic.asked < MaxQuestions /\ mic' = [mic EXCEPT !.asked = @ + 1]
    /\ UNCHANGED <<composer, transcript, gone, spoken>>

(* A final result.  One may still come once stop was called.               *)
onresult ==
    /\ voice.recogniser # "off" /\ Speak
    /\ voice' = [voice EXCEPT !.heard = Append(@, spoken')]
    /\ UNCHANGED <<composer, mic, transcript, gone>>

stop ==
    /\ voice.recording /\ ~Sending /\ voice.recogniser = "on"
    /\ voice' = [voice EXCEPT !.recogniser = "stopped"]
    /\ UNCHANGED <<composer, mic, transcript, gone, spoken>>

(* Mutant: the text is committed and kept.                                 *)
Reset_KeepsText == [Silent EXCEPT !.heard = voice.heard]

Reset == Silent

(* onend, whether by stop, by silence or by an error: commitAndReset.  The *)
(* text is appended even while a turn is under way.                        *)
onend ==
    /\ voice.recogniser # "off"
    /\ composer' = [composer EXCEPT !.input = @ \o voice.heard]
    /\ voice' = Reset
    /\ UNCHANGED <<mic, transcript, gone, spoken>>

(* A stream that comes over another, or to a panel that is no more, stays  *)
(* open with nobody to close it.                                           *)
GrantMic ==
    /\ \/ mic.orphaned > 0 /\ mic' = [mic EXCEPT !.orphaned = @ - 1, !.left = @ + 1]
       \/ mic.asked > 0 /\ mic' = [mic EXCEPT !.asked = @ - 1, !.held = TRUE,
                                              !.left = IF mic.held THEN @ + 1 ELSE @]
    /\ UNCHANGED <<composer, voice, transcript, gone, spoken>>

DenyMic ==
    /\ \/ mic.orphaned > 0 /\ mic' = [mic EXCEPT !.orphaned = @ - 1]
       \/ mic.asked > 0 /\ mic' = [mic EXCEPT !.asked = @ - 1]
    /\ UNCHANGED <<composer, voice, transcript, gone, spoken>>

----------------------------------------------------------------------------
Elements(s) == {s[i] : i \in DOMAIN s}

handleSend ==
    /\ Present /\ ~Sending /\ composer.input # << >>
    /\ composer' = [phase |-> "sending", input |-> << >>, sent |-> composer.input]
    /\ UNCHANGED <<voice, mic, transcript, gone, spoken>>

(* The answer has the transcript.                                          *)
Answered(phase) ==
    /\ composer' = [composer EXCEPT !.phase = phase, !.sent = << >>]
    /\ transcript' = transcript \cup Elements(composer.sent)
    /\ UNCHANGED <<voice, mic, gone, spoken>>

(* The message goes back to the input, over what was dictated meanwhile.   *)
SendFailed ==
    /\ composer' = [phase |-> "error", input |-> composer.sent, sent |-> << >>]
    /\ gone' = gone \cup Elements(composer.input)
    /\ UNCHANGED <<voice, mic, transcript, spoken>>

DictationNext ==
    \/ TypeText \/ start \/ onresult \/ stop \/ onend \/ GrantMic \/ DenyMic
    \/ handleSend \/ SendFailed
    \/ \E phase \in {"awaiting", "done"} : Answered(phase)
    \/ \E panel \in {Absent, Panel} : Become(panel)

DictationSpec == DictationInit /\ [][DictationNext]_dictation

----------------------------------------------------------------------------
DictationTypeOK ==
    /\ composer \in [phase : {"absent", "idle", "sending", "awaiting", "done", "error"},
                     input : Seq(Words), sent : Seq(Words)]
    /\ voice \in [recording : BOOLEAN, recogniser : {"off", "on", "stopped"}, heard : Seq(Words)]
    /\ mic \in [asked : Nat, orphaned : Nat, held : BOOLEAN, left : Nat]
    /\ transcript \subseteq Words /\ gone \subseteq Words /\ spoken \in 0..MaxWords

(* Every word typed or said on the page is in one place: still being heard,*)
(* in the input, on its way, or in the transcript - once, whichever of the *)
(* recogniser, the mic button and the answers comes first - unless a failed*)
(* send wrote over what was dictated while it was under way.  ("finalized  *)
(* transcript is committed once", VoiceInput.tsx:14.)                      *)
DictationIsKept ==
    LET places == <<Elements(voice.heard), Elements(composer.input), Elements(composer.sent),
                    transcript, gone>>
    IN /\ UNION Elements(places) = 1..spoken
       /\ \A i, j \in 1..5 : i < j => places[i] \cap places[j] = {}
       /\ \A s \in {voice.heard, composer.input, composer.sent} :
            \A i, j \in DOMAIN s : i # j => s[i] # s[j]
=============================================================================
