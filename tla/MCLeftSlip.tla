----------------------------- MODULE MCLeftSlip -----------------------------
(* LeftSlip on its own: the menu, its mask and two pages.                    *)
EXTENDS LeftSlip
=============================================================================
