---------------------------- MODULE MCTemplates ------------------------------
(* Small instances of Templates: two sections of two fields at most; one   *)
(* template to begin with, of one field and an empty section, and one to be*)
(* created.                                                                *)
EXTENDS Templates, TLC

MCFirst == <<[id |-> 1, label |-> "fine", fields |-> <<makeField("select", 1, 0)>>],
             [id |-> 2, label |-> "fine", fields |-> << >>]>>
=============================================================================
