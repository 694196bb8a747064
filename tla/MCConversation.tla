--------------------------- MODULE MCConversation ----------------------------
(* Small instances of Conversation: a report with a number and a checklist, *)
(* or a number alone, and a server with one cap or the other the lower.     *)
EXTENDS Conversation, TLC

CONSTANTS n, c

MCTwo == (n :> "number") @@ (c :> "checklist")
MCOne == n :> "number"
MCProposals == {Number("digits"), Number("huge"), Array({"option"})}
MCConfigs == {[turn |-> 1, question |-> 1], [turn |-> 3, question |-> 1]}
MCWide == {[turn |-> 2, question |-> 1]}
=============================================================================
