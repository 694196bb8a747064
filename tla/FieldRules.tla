----------------------------- MODULE FieldRules ------------------------------
(***************************************************************************)
(* What a value of a report may be.  Three pieces of code must agree on it *)
(* for a technician never to be told that what the agent wrote, or what    *)
(* the form itself put there, is invalid: the rules the server checks at   *)
(* every write, the rules the agent's fill_field checks first, and the     *)
(* form's own reading of a stored value.                                   *)
(*                                                                         *)
(* Texts are classes of texts: "" itself, blank ones, decimal numbers,     *)
(* number literals too large for a float, the options a field offers, and  *)
(* all others.                                                             *)
(***************************************************************************)
Types == {"text", "number", "select", "checklist", "photo", "signature"}
Texts == {"", "blank", "digits", "huge", "option", "words"}

(* A JSON value; "none" is no value at all, "mixed" an array that is not an *)
(* array of strings, "photo" an object of a photo's shape, "other" an       *)
(* object of another shape or a Boolean.                                    *)
Str(s) == [kind |-> "string", text |-> s]
Number(s) == [kind |-> "number", text |-> s]
Array(items) == [kind |-> "array", items |-> items]
None == [kind |-> "none"]
Null == [kind |-> "null"]
Photo == [kind |-> "photo"]
JSON == {Str(s) : s \in Texts} \cup {Number(s) : s \in {"digits", "huge"}}
        \cup {Array(items) : items \in SUBSET Texts}
        \cup [kind : {"none", "null", "mixed", "photo", "other"}]

(* encoding/json decodes null into a string as "" and into a slice as none. *)
DecodesAsString(j) == j.kind \in {"string", "null"}
StringOf(j) == IF j.kind = "null" THEN "" ELSE j.text
DecodesAsStrings(j) == j.kind \in {"array", "null"}
StringsOf(j) == IF j.kind = "null" THEN {} ELSE j.items

Numeric(s) == s \in {"", "blank", "digits"}
Offered(s) == s \in {"", "option"}

----------------------------------------------------------------------------
ValidateValue(type, j) ==
    \/ type = "text" /\ DecodesAsString(j)
    \/ type = "number" /\ DecodesAsString(j) /\ Numeric(StringOf(j))
    \/ type = "select" /\ DecodesAsString(j) /\ Offered(StringOf(j))
    \/ type = "checklist" /\ DecodesAsStrings(j) /\ StringsOf(j) \subseteq {"option"}
    \/ type = "photo" /\ j.kind = "photo"
    \/ type = "signature" /\ DecodesAsString(j)

(* A missing key and a null are never looked at. *)
Legal(type, j) == j.kind \in {"none", "null"} \/ ValidateValue(type, j)

----------------------------------------------------------------------------
(* The agent's rule.  It takes a JSON number too, and writes its digits. *)
DecodesAsNumber(j) == DecodesAsString(j) \/ j.kind = "number"

(* Mutant: a text is taken for a number without being parsed. *)
NormalizeAcceptsAnyNumber(type, j) ==
    \/ type = "text" /\ DecodesAsString(j)
    \/ type = "number" /\ DecodesAsNumber(j)
    \/ type = "select" /\ DecodesAsString(j) /\ Offered(StringOf(j))
    \/ type = "checklist" /\ DecodesAsStrings(j) /\ StringsOf(j) \subseteq {"option"}

NormalizeAccepts(type, j) ==
    \/ type = "text" /\ DecodesAsString(j)
    \/ type = "number" /\ DecodesAsNumber(j) /\ Numeric(StringOf(j))
    \/ type = "select" /\ DecodesAsString(j) /\ Offered(StringOf(j))
    \/ type = "checklist" /\ DecodesAsStrings(j) /\ StringsOf(j) \subseteq {"option"}

Normalized(type, j) ==
    IF type = "checklist" THEN Array(StringsOf(j)) ELSE Str(StringOf(j))

----------------------------------------------------------------------------
(* The form reads a stored value of any shape as one its control can show. *)
FieldValueFromWire(type, j) ==
    CASE type \in {"text", "select"} -> IF j.kind = "string" THEN j ELSE Str("")
      [] type = "number" -> IF j.kind = "string" \/ j = Number("digits")
                            THEN Str(j.text) ELSE Str("")
      [] type = "checklist" -> IF j.kind = "array" THEN j ELSE Array({})
      [] type = "photo" -> Photo
      [] type = "signature" -> IF j.kind = "string" /\ j.text # "" THEN j ELSE Null

(* And its controls let a person enter these: a number input yields "" for *)
(* whatever is not a finite number, a select and a checklist only what is  *)
(* offered, a signature pad a data URL or nothing.                         *)
Enterable(type) ==
    CASE type = "text" -> {Str(s) : s \in Texts}
      [] type = "number" -> {Str(""), Str("digits")}
      [] type = "select" -> {Str(""), Str("option")}
      [] type = "checklist" -> {Array({}), Array({"option"})}
      [] type = "photo" -> {Photo}
      [] type = "signature" -> {Null, Str("words")}
=============================================================================
