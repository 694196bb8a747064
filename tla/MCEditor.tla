------------------------------- MODULE MCEditor --------------------------------
(* A small instance of the report page.                                    *)
EXTENDS Editor
=============================================================================
