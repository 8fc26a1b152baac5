------------------------------ MODULE MCSystem ------------------------------
(* Instances of System for TLC.                                            *)
EXTENDS System

CONSTANTS m1, m2, a1, a2, t1

Slot02 == {<<0, 2>>}
Slot02And13 == {<<0, 2>>, <<1, 3>>}
NoRequests == {}
Minutes1 == {-1, 1}
Later == {1}
=============================================================================
