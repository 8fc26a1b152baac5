---------------------------- MODULE MCDirectory ----------------------------
(* Instances of Directory for TLC.  Two aliases, of which the first has    *)
(* the name that the second, which has none, goes by: its key.  A guest    *)
(* without an alias, who may show any name or none; and custom names that  *)
(* are that key, too, or say nothing.                                      *)
EXTENDS Directory, TLC

CONSTANTS a1, a2, g1, k1, k2, n1, n2, p1, l1, l2, t1, t2

KeyApart == a1 :> k1 @@ a2 :> k2 @@ g1 :> NoText
PexipNames == a1 :> k2 @@ a2 :> k2

(* One alias.                                                              *)
OneKey == a1 :> k1 @@ g1 :> NoText
OneName == a1 :> n1
=============================================================================
