-------------------------------- MODULE Pexip --------------------------------
(***************************************************************************)
(* The Pexip conferencing node, as app/pexip.py uses it: one conference    *)
(* per meeting alias.  It is an external service: only what its callers    *)
(* can tell apart is modelled.  A dialled endpoint rings until it answers  *)
(* or gives up; a participant may hang up at any time.  A call over HTTP   *)
(* that fails (refused, or answered after the 20 s timeout) may have been  *)
(* carried out all the same.  Control tokens have no state here: no        *)
(* program step reads any of it back.                                      *)
(***************************************************************************)
EXTENDS Store

CONSTANT MaxLegs    \* BOUND: call legs of one endpoint in one conference

ASSUME PexipAssumption == MaxLegs \in Nat

VARIABLES
    ringing,    \* endpoints being called, by conference
    legs        \* connected call legs, by conference and endpoint

pexipVars == <<ringing, legs>>
----------------------------------------------------------------------------
PexipTypeOK ==
    /\ ringing \in [MeetingIds -> SUBSET Aliases]
    /\ legs \in [MeetingIds -> [Aliases -> 0..MaxLegs]]

PexipInit ==
    /\ ringing = [m \in MeetingIds |-> {}]
    /\ legs = [m \in MeetingIds |-> [e \in Aliases |-> 0]]

Live(m) == {e \in Aliases : legs[m][e] > 0}
Quiet(m) == ringing[m] = {} /\ Live(m) = {}

(* get_live_participants: a participant being called may be listed or not. *)
Listings(m) == {Live(m) \cup R : R \in SUBSET ringing[m]}

(* dial_endpoint_to_meeting and disconnect_conference, once carried out.   *)
Dial(m, e) ==
    /\ ringing' = [ringing EXCEPT ![m] = @ \cup {e}]
    /\ legs' = legs
Disconnect(m) ==
    /\ ringing' = [ringing EXCEPT ![m] = {}]
    /\ legs' = [legs EXCEPT ![m] = [e \in Aliases |-> 0]]

(* disconnect_participant, for the one participant that matched e.         *)
DisconnectOne(m, e) ==
    IF legs[m][e] > 0
    THEN /\ legs' = [legs EXCEPT ![m][e] = @ - 1]
         /\ ringing' = ringing
    ELSE /\ ringing' = [ringing EXCEPT ![m] = @ \ {e}]
         /\ legs' = legs
----------------------------------------------------------------------------
Answer(m, e) ==
    /\ e \in ringing[m] /\ legs[m][e] < MaxLegs
    /\ ringing' = [ringing EXCEPT ![m] = @ \ {e}]
    /\ legs' = [legs EXCEPT ![m][e] = @ + 1]
    /\ UNCHANGED storeVars

GiveUp(m, e) ==
    /\ e \in ringing[m]
    /\ ringing' = [ringing EXCEPT ![m] = @ \ {e}]
    /\ UNCHANGED <<legs, storeVars>>

HangUp(m, e) ==
    /\ legs[m][e] > 0
    /\ legs' = [legs EXCEPT ![m][e] = @ - 1]
    /\ UNCHANGED <<ringing, storeVars>>
=============================================================================
