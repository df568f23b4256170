----------------------------- MODULE MCCalendar -----------------------------
(* Calendar opened on days that try the month arithmetic: the end of March   *)
(* 2019, two months from the left limit, with February 2020 in reach.        *)
EXTENDS Calendar

Opened(month, day, hour) == [month |-> month, day |-> day, hour |-> hour]

EndOfMarch == {Opened(2, 30, 2), Opened(2, 31, 1)}
MidMarch == {Opened(2, 15, 1)}
Openings == EndOfMarch \cup MidMarch
=============================================================================
