---------------------------- MODULE MCFirstInfo ----------------------------
(* FirstInfo with few refreshes and few requests under way.                 *)
EXTENDS FirstInfo
=============================================================================
