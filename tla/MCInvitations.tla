--------------------------- MODULE MCInvitations ---------------------------
(* Instances of Invitations for TLC.                                       *)
EXTENDS Invitations

CONSTANTS m1, a1, a2, t1, t2
=============================================================================
