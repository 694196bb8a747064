------------------------------ MODULE MCDashboard ------------------------------
(* A small instance of Dashboard: three reports on pages of two, one search *)
(* that finds the first and the last, two loads at a time.                 *)
EXTENDS Dashboard

MCInitial == {<<"draft", "draft", "draft">>, <<"draft", "exported", "absent">>}
MCAddresses ==
    {Place("dashboard", 0), Place("table", 0),
     [Place("table", 0) EXCEPT !.status = "draft", !.offset = 1, !.counted = 4]}
MCFinds == [text \in Searches |-> {1, 3}]
=============================================================================
