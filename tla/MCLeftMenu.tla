----------------------------- MODULE MCLeftMenu -----------------------------
(* LeftMenu with a version of one number and one of three, the first newer.  *)
EXTENDS LeftMenu

OneAndThree == {<<2>>, <<1, 9, 1>>}
=============================================================================
