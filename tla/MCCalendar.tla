----------------------------- MODULE MCCalendar -----------------------------
(* Instances of Calendar for TLC.                                          *)
EXTENDS Calendar

CONSTANTS m1, e1
=============================================================================
