---------------------------- MODULE MCLoginCode ----------------------------
(* LoginCode with the code's own countdown (60 s) and timeout (30 s).       *)
EXTENDS LoginCode
=============================================================================
