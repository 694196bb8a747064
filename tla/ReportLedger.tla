---------------------------- MODULE ReportLedger ----------------------------
(***************************************************************************)
(* What the report store promises its callers, with no transactions, files *)
(* or requests in it.  A report has one content, one status and the list   *)
(* of the documents exported from it; creating, saving and exporting are   *)
(* each one indivisible step, and exporting is the only way out of draft.  *)
(* ReportStore implements this module.                                     *)
(***************************************************************************)
EXTENDS Sequences

CONSTANTS
    Reports,        \* report ids
    Content,        \* everything a report body can say
    Readable(_),    \* how a stored body reads back
    Complete(_)     \* every required field of the body is filled

VARIABLES content, status, documents

vars == <<content, status, documents>>

(* A report springs into being as a draft. *)
Create(r, c) ==
    /\ status[r] = "absent"
    /\ content' = [content EXCEPT ![r] = Readable(c)]
    /\ status' = [status EXCEPT ![r] = "draft"]
    /\ UNCHANGED documents

(* A draft save.  The code allows it on an exported report as well. *)
Save(r, c) ==
    /\ status[r] # "absent"
    /\ content' = [content EXCEPT ![r] = Readable(c)]
    /\ UNCHANGED <<status, documents>>

(* The save, the change of status and the document are one step, and the   *)
(* document shows exactly the body that was saved with it.                 *)
Export(r, c) ==
    /\ status[r] # "absent"
    /\ Complete(c)
    /\ content' = [content EXCEPT ![r] = Readable(c)]
    /\ status' = [status EXCEPT ![r] = "exported"]
    /\ documents' = [documents EXCEPT ![r] = Append(@, c)]

Init ==
    /\ content \in [Reports -> Content]
    /\ status \in [Reports -> {"absent", "draft"}]
    /\ documents = [r \in Reports |-> << >>]

Next ==
    \E r \in Reports, c \in Content :
        Create(r, c) \/ Save(r, c) \/ Export(r, c)

Spec == Init /\ [][Next]_vars
=============================================================================
