----------------------------- MODULE MCMainPage -----------------------------
(* MainPage with the live segment and today's, or one more day.             *)
EXTENDS MainPage
=============================================================================
