----------------------------- MODULE MCAccounts -----------------------------
(* Instances of Accounts for TLC.                                          *)
EXTENDS Accounts

CONSTANTS n1, n2, b1, b2, t1, t2, c1
=============================================================================
