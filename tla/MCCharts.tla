------------------------------ MODULE MCCharts ------------------------------
(* Charts, opened from any row, with answers of two lengths.                 *)
EXTENDS Charts
=============================================================================
