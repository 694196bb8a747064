--------------------------- MODULE MCReportStore ----------------------------
(* Small instances of ReportStore: one field, two parts rows of which one  *)
(* has a blank quantity, and a few bodies a technician may submit.         *)
EXTENDS ReportStore, TLC

CONSTANTS f1, v1, v2, bad, zero, blank, huge

OneField == {f1}
MCValues == {v1, v2, bad}
MCMalformed == {bad}
MCPartRows == {zero, blank, huge}
MCAsNumeric == (zero :> zero) @@ (blank :> zero) @@ (huge :> Unstorable)

Holding(v, parts) == [values |-> [f \in OneField |-> v], parts |-> parts]

(* A complete report with a blank quantity, a complete one without parts.  *)
TwoBodies == {Holding(v1, {blank}), Holding(v2, {})}

(* And an incomplete one, a malformed one and one whose quantity overflows.*)
AllBodies == TwoBodies \cup {Holding(None, {}), Holding(bad, {}), Holding(v1, {huge})}

Symmetry == Permutations(Requests)
=============================================================================
