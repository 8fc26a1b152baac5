------------------------------- MODULE MCPage -------------------------------
(* Instances of Page for TLC.                                              *)
EXTENDS Page

CONSTANTS m1, m2, e1, r1, r2

(* A meeting on the first day, one on the second.                          *)
TwoDays == {<<0, 1>>, <<2, 3>>}
=============================================================================
