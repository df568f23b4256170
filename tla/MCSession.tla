----------------------------- MODULE MCSession -----------------------------
(* Session with two tokens and two requests at a time.                     *)
EXTENDS Session
=============================================================================
