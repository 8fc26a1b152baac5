--------------------------- MODULE DirectoryProofs ---------------------------
(***************************************************************************)
(* Directory's safety properties, for all sets of endpoints, guests, pages *)
(* and threads, however names and keys coincide.  remove_endpoint decides  *)
(* on a list of participants that may be out of date when it acts; what    *)
(* makes this safe is that nobody comes back as the same leg (Older) and   *)
(* that it acts only if the list leaves no choice (Decided).               *)
(***************************************************************************)
EXTENDS Directory, TLAPS

Older ==
    /\ \A leg \in legs : leg.n <= joined
    /\ \A t \in Threads : \A leg \in web[t].seen : leg.n <= joined

Decided ==
    \A t \in Threads : web[t].pc = "call" =>
        FindEndpointParticipants(web[t].alias, web[t].name, web[t].seen) = {web[t].leg}

IInv == TypeOK /\ Older /\ Decided /\ RemovedIsOut
----------------------------------------------------------------------------
(* What a page is sent is a listing.                                       *)
LEMMA ListingTypes ==
    ASSUME TypeOK
    PROVE  /\ Nothing \in Listing /\ Listed \in Listing
           /\ \A items \in Listing : Named(items) \in Listing
  <1>1. Nothing \in Listing /\ Listed \in Listing
    BY DirectoryAssumption DEF TypeOK, Listing, Nothing, Listed
  <1>2. ASSUME NEW items \in Listing PROVE Named(items) \in Listing
    <2>1. ASSUME NEW a \in Aliases PROVE Key[a] \in Keys
      BY DirectoryAssumption
    <2>2. ASSUME NEW a \in Aliases, items[a] # None PROVE Effective(Key[a], items[a]) \in Names
      BY <2>1, <2>2 DEF TypeOK, Listing, Effective
    <2> QED BY <2>2 DEF Named, Listing
  <1> QED BY <1>1, <1>2

(* An endpoint of the conference is a match for its own alias.             *)
LEMMA OwnIsFound ==
    ASSUME NEW a \in Aliases, NEW name, NEW live, NEW leg \in live, Key[leg.who] = Key[a]
    PROVE  leg \in FindEndpointParticipants(a, name, live)
  BY DirectoryAssumption DEF FindEndpointParticipants, Shows, Candidates

LEMMA InitIInv == Init => IInv
  <1> SUFFICES ASSUME Init PROVE IInv
    OBVIOUS
  <1>1. TypeOK
    <2>1. Nothing \in Listing /\ NoLoad \in Load
      BY DEF Nothing, Listing, NoLoad, Load
    <2>2. Free \in Request /\ Free.pc = "free"
      BY DEF Free, Request
    <2>3. web \in [Threads -> Request] /\ \A t \in Threads : web[t].pc = "free"
      BY <2>2 DEF Init
    <2>4. /\ page \in [Pages -> Listing] /\ loads \in [Pages -> [Loads -> Load]]
          /\ dialog \in [Pages -> Listing \cup {None}] /\ rows \in Listing
      BY <2>1 DEF Init
    <2>5. overrides \in [Keys -> Names \cup {None}]
      BY DEF Init
    <2>6. running \in BOOLEAN
      BY DEF Init
    <2> QED BY <2>3, <2>4, <2>5, <2>6, DirectoryAssumption DEF Init, TypeOK
  <1>2. Older /\ Decided /\ RemovedIsOut
    BY DEF Init, Older, Decided, RemovedIsOut, Free
  <1> QED BY <1>1, <1>2 DEF IInv

----------------------------------------------------------------------------
(* Steps that leave the conference and remove_endpoint alone.              *)
LEMMA CallFrame ==
    ASSUME IInv, UNCHANGED callVars
    PROVE  Older' /\ Decided' /\ RemovedIsOut'
  BY DEF IInv, callVars, Older, Decided, RemovedIsOut, FindEndpointParticipants

(* Pages, directory and administrators.                                    *)
LEMMA PageSteps ==
    ASSUME IInv, NEW p \in Pages, PageStep(p)
    PROVE  IInv'
  <1> USE DEF IInv
  <1>1. UNCHANGED callVars
    BY DEF PageStep, LoadStep, Ask, ListRegistered, ReadOverrides, Arrive, LoadFails, Assign, OpenEdit, SaveEdit
  <1>t. ASSUME NEW l \in Loads, NEW r \in Load, GotoLoad(p, l, r)
        PROVE  loads' \in [Pages -> [Loads -> Load]]
    BY <1>t DEF TypeOK, GotoLoad
  <1>l. \A l \in Loads : loads[p][l] \in Load /\ loads[p][l].items \in Listing
    BY DEF TypeOK, Load
  <1>r. /\ NoLoad \in Load /\ [NoLoad EXCEPT !.pc = "asked"] \in Load
        /\ [pc |-> "listed", items |-> Listed] \in Load
        /\ \A items \in Listing : [pc |-> "answered", items |-> Named(items)] \in Load
    BY ListingTypes DEF NoLoad, Load
  <1>2. TypeOK'
    <2> USE DEF TypeOK, callVars, pageVars, meetingVars
    <2>1. ASSUME NEW l \in Loads, Ask(p, l) PROVE TypeOK'
      BY <2>1, <1>t, <1>r DEF Ask
    <2>2. ASSUME NEW l \in Loads, ListRegistered(p, l) PROVE TypeOK'
      BY <2>2, <1>t, <1>r DEF ListRegistered
    <2>3. ASSUME NEW l \in Loads, ReadOverrides(p, l) PROVE TypeOK'
      BY <2>3, <1>t, <1>r, <1>l DEF ReadOverrides
    <2>4. ASSUME NEW l \in Loads, Arrive(p, l) PROVE TypeOK'
      BY <2>4, <1>t, <1>r, <1>l DEF Arrive
    <2>5. ASSUME NEW l \in Loads, LoadFails(p, l) PROVE TypeOK'
      BY <2>5, <1>t, <1>r, DirectoryAssumption DEF LoadFails
    <2>6. ASSUME NEW a \in Aliases, Assign(p, a) PROVE TypeOK'
      BY <2>6 DEF Assign, Listing
    <2>7. CASE OpenEdit(p)
      <3>1. [a \in Aliases |-> IF rows[a] # None /\ a \notin Busy THEN page[p][a] ELSE None] \in Listing
        BY DEF Listing
      <3> QED BY <2>7, <3>1 DEF OpenEdit
    <2>8. CASE SaveEdit(p)
      BY <2>8 DEF SaveEdit
    <2> QED BY <2>1, <2>2, <2>3, <2>4, <2>5, <2>6, <2>7, <2>8 DEF PageStep, LoadStep
  <1> QED BY <1>1, <1>2, CallFrame
LEMMA DirectorySteps ==
    ASSUME IInv,
           \/ \E key \in Keys, name \in Names \cup {None} : SetName(key, name)
           \/ \E a \in Aliases : Register(a)
           \/ Start
    PROVE  IInv'
  <1> USE DirectoryAssumption DEF IInv
  <1>1. ASSUME NEW key \in Keys, NEW name \in Names \cup {None}, SetName(key, name) PROVE IInv'
    BY <1>1, CallFrame DEF SetName, TypeOK, pageVars, meetingVars, callVars
  <1>2. ASSUME NEW a \in Aliases, Register(a) PROVE IInv'
    BY <1>2, CallFrame DEF Register, TypeOK, pageVars, meetingVars, callVars
  <1>3. CASE Start
    <2>1. running' \in BOOLEAN
      BY <1>3 DEF Start
    <2> QED BY <1>3, <2>1, CallFrame DEF Start, TypeOK, pageVars, callVars
  <1> QED BY <1>1, <1>2, <1>3

----------------------------------------------------------------------------
(* Participants come and go: whoever comes is no leg that was seen before. *)
LEMMA JoinStep ==
    ASSUME IInv, NEW who \in Aliases \cup Guests, NEW name \in Names, Join(who, name)
    PROVE  IInv'
  <1> DEFINE leg == [who |-> who, name |-> name, n |-> joined + 1]
  <1> USE DirectoryAssumption DEF IInv
  <1>1. /\ joined \in Nat /\ joined' = joined + 1 /\ joined' \in 0..MaxLegs
        /\ leg \in Leg /\ legs' = legs \cup {leg} /\ UNCHANGED web
    BY DEF Join, TypeOK, Leg
  <1>n. /\ \A l \in Leg : l.n \in Nat
        /\ \A t \in Threads : web[t].seen \subseteq Leg
    BY DEF TypeOK, Leg, Request
  <1>2. TypeOK'
    BY <1>1 DEF Join, TypeOK, pageVars, meetingVars
  <1>3. Older'
    BY <1>1, <1>n DEF Older, TypeOK
  <1>4. Decided'
    BY <1>1 DEF Decided, FindEndpointParticipants
  <1>5. \A t \in Threads : leg \notin web[t].seen
    BY <1>1, <1>n DEF Older
  <1>6. RemovedIsOut'
    BY <1>1, <1>5 DEF RemovedIsOut
  <1> QED BY <1>2, <1>3, <1>4, <1>6

LEMMA LeaveStep ==
    ASSUME IInv, NEW leg \in legs, Leave(leg)
    PROVE  IInv'
  <1> USE DEF IInv, Leave
  <1>1. TypeOK'
    BY DEF TypeOK, pageVars, meetingVars
  <1>2. Older' /\ Decided' /\ RemovedIsOut'
    BY DEF Older, Decided, RemovedIsOut, FindEndpointParticipants
  <1> QED BY <1>1, <1>2

----------------------------------------------------------------------------
(* remove_endpoint.                                                        *)
LEMMA RemoveSteps ==
    ASSUME IInv, NEW t \in Threads, Remove(t)
    PROVE  IInv'
  <1> USE DirectoryAssumption DEF IInv, Goto
  <1>w. /\ web \in [Threads -> Request] /\ web[t] \in Request
        /\ Free \in Request /\ Free.pc = "free" /\ Free.seen = {}
    BY DEF TypeOK, Request, Free
  <1>1. CASE \E a \in Aliases : RemoveRead(t, a)
    <2>1. PICK a \in Aliases : RemoveRead(t, a)
      BY <1>1
    <2>2. rows[a] \in Names
      BY <2>1 DEF RemoveRead, TypeOK, Listing
    <2>3. TypeOK'
      BY <2>1, <2>2, <1>w DEF RemoveRead, TypeOK, Request, pageVars, meetingVars
    <2>4. Older' /\ Decided' /\ RemovedIsOut'
      BY <2>1, <1>w DEF RemoveRead, Older, Decided, RemovedIsOut, FindEndpointParticipants
    <2> QED BY <2>3, <2>4
  <1>2. CASE RemoveLive(t)
    <2>1. CASE \E leg \in Found(t) : Found(t) = {leg}
      <3>1. PICK leg \in Found(t) : Found(t) = {leg}
        BY <2>1
      <3>2. leg \in legs /\ web' = [web EXCEPT ![t] = [web[t] EXCEPT !.pc = "call", !.seen = legs, !.leg = leg]]
        BY <1>2, <3>1 DEF RemoveLive, Found, FindEndpointParticipants
      <3>3. TypeOK'
        BY <1>2, <1>w, <3>2 DEF RemoveLive, TypeOK, Request, pageVars, meetingVars
      <3>4. Older' /\ RemovedIsOut'
        BY <1>2, <1>w, <3>2 DEF RemoveLive, Older, RemovedIsOut, Request
      <3>5. Decided'
        BY <1>2, <1>w, <3>1, <3>2 DEF RemoveLive, Decided, Found, FindEndpointParticipants, Request
      <3> QED BY <3>3, <3>4, <3>5
    <2>2. CASE Found(t) = {}
      <3>1. web' = [web EXCEPT ![t] = [web[t] EXCEPT !.pc = "delete", !.seen = legs]]
        BY <1>2, <2>2 DEF RemoveLive
      <3>2. TypeOK'
        BY <1>2, <1>w, <3>1 DEF RemoveLive, TypeOK, Request, pageVars, meetingVars
      <3>3. Older' /\ Decided'
        BY <1>2, <1>w, <3>1 DEF RemoveLive, Older, Decided, Request, FindEndpointParticipants
      <3>4. \A leg \in legs : Key[leg.who] # Key[web[t].alias]
        BY <1>2, <2>2, OwnIsFound DEF RemoveLive, TypeOK, Found
      <3>5. RemovedIsOut'
        BY <1>2, <1>w, <3>1, <3>4 DEF RemoveLive, RemovedIsOut, Request
      <3> QED BY <3>2, <3>3, <3>5
    <2>3. CASE Found(t) # {} /\ ~\E leg \in Found(t) : Found(t) = {leg}
      <3>1. web' = [web EXCEPT ![t] = Free]
        BY <1>2, <2>3 DEF RemoveLive
      <3>2. TypeOK'
        BY <1>2, <1>w, <3>1 DEF RemoveLive, TypeOK, pageVars, meetingVars
      <3>3. Older' /\ Decided' /\ RemovedIsOut'
        BY <1>2, <1>w, <3>1 DEF RemoveLive, Older, Decided, RemovedIsOut, FindEndpointParticipants
      <3> QED BY <3>2, <3>3
    <2> QED BY <2>1, <2>2, <2>3
  <1>3. CASE RemoveCall(t)
    <2>1. web' = [web EXCEPT ![t] = [web[t] EXCEPT !.pc = "delete"]] /\ legs' = legs \ {web[t].leg}
      BY <1>3 DEF RemoveCall
    <2>2. TypeOK'
      <3>1. legs' \subseteq Leg
        BY <2>1 DEF TypeOK
      <3>2. /\ web' \in [Threads -> Request]
            /\ web'[t].pc = "delete" /\ web'[t].alias = web[t].alias /\ web'[t].name = web[t].name
            /\ \A s \in Threads \ {t} : web'[s] = web[s]
        BY <1>w, <2>1 DEF Request
      <3>3. web[t].alias \in Aliases /\ web[t].name \in Names
        BY <1>3 DEF RemoveCall, TypeOK
      <3>4. \A s \in Threads :
              /\ web'[s].pc # "free" => web'[s].alias \in Aliases /\ web'[s].name \in Names
              /\ web'[s].pc = "call" => web'[s].leg \in Leg
        BY <3>2, <3>3 DEF TypeOK
      <3> QED BY <1>3, <3>1, <3>2, <3>4 DEF RemoveCall, TypeOK, pageVars, meetingVars
    <2>3. /\ web' \in [Threads -> Request] /\ legs' \subseteq legs /\ joined' = joined
          /\ web'[t].pc = "delete" /\ web'[t].seen = web[t].seen
          /\ \A s \in Threads \ {t} : web'[s] = web[s]
      BY <1>3, <1>w, <2>1 DEF RemoveCall, Request
    <2>4. Older'
      BY <2>3 DEF Older
    <2>5. Decided'
      BY <2>3 DEF Decided, FindEndpointParticipants
    <2>6. web[t].alias \in Aliases
      BY <1>3 DEF RemoveCall, TypeOK
    <2>7. FindEndpointParticipants(web[t].alias, web[t].name, web[t].seen) = {web[t].leg}
      BY <1>3 DEF RemoveCall, Decided
    <2>8. \A leg \in web[t].seen : Key[leg.who] = Key[web[t].alias] => leg = web[t].leg
      BY ONLY <2>6, <2>7, OwnIsFound
    <2>9. RemovedIsOut'
      BY <1>3, <1>w, <2>1, <2>8 DEF RemoveCall, RemovedIsOut, Request
    <2> QED BY <2>2, <2>4, <2>5, <2>9
  <1>4. CASE RemoveDelete(t)
    <2>1. TypeOK'
      BY <1>4, <1>w DEF RemoveDelete, TypeOK, Listing, pageVars
    <2>2. Older' /\ Decided' /\ RemovedIsOut'
      BY <1>4, <1>w DEF RemoveDelete, Older, Decided, RemovedIsOut, FindEndpointParticipants
    <2> QED BY <2>1, <2>2
  <1>5. CASE RemoveFails(t)
    <2>1. legs' \subseteq legs /\ web' = [web EXCEPT ![t] = Free]
      BY <1>5 DEF RemoveFails
    <2>2. TypeOK'
      <3>1. legs' \subseteq Leg
        BY <2>1 DEF TypeOK
      <3>2. UNCHANGED <<registered, overrides, pageVars, meetingVars, joined, changes>>
        BY <1>5 DEF RemoveFails
      <3> QED BY <1>w, <2>1, <3>1, <3>2 DEF TypeOK, pageVars, meetingVars
    <2>3. joined' = joined
      BY <1>5 DEF RemoveFails
    <2>4. \A s \in Threads : web'[s] \in {web[s], Free}
      BY <1>w, <2>1
    <2>5. Older' /\ RemovedIsOut'
      BY <1>w, <2>1, <2>3, <2>4 DEF Older, RemovedIsOut
    <2>6. Decided'
      BY <1>w, <2>4 DEF Decided, FindEndpointParticipants
    <2> QED BY <2>2, <2>5, <2>6
  <1> QED BY <1>1, <1>2, <1>3, <1>4, <1>5 DEF Remove

LEMMA NextIInv == IInv /\ [Next]_vars => IInv'
  <1> SUFFICES ASSUME IInv, [Next]_vars PROVE IInv'
    OBVIOUS
  <1>1. CASE UNCHANGED vars
    BY <1>1, CallFrame DEF IInv, TypeOK, vars, pageVars, meetingVars, callVars
  <1> QED BY <1>1, PageSteps, DirectorySteps, JoinStep, LeaveStep, RemoveSteps DEF Next

----------------------------------------------------------------------------
(* The invariant is one of the specification.                              *)
THEOREM Inductive == Spec => []IInv
  BY InitIInv, NextIInv, PTL DEF Spec

(* All variables keep their types.                                         *)
THEOREM TypeCorrect == Spec => []TypeOK
  <1>1. IInv => TypeOK
    BY DEF IInv
  <1> QED BY <1>1, Inductive, PTL

(* remove_endpoint disconnects somebody of another alias only if the       *)
(* endpoint itself was not in the list of participants that it decided on. *)
THEOREM NobodyElse == Spec => []OwnLegOrNone
  <1>1. IInv => OwnLegOrNone
    BY OwnIsFound DEF IInv, TypeOK, Decided, OwnLegOrNone
  <1> QED BY <1>1, Inductive, PTL

(* When remove_endpoint deletes the row and answers ok, every leg of the   *)
(* endpoint that was in that list has left the conference, whoever joined  *)
(* and left and whichever other thread removed what in the meantime.       *)
THEOREM Removed == Spec => []RemovedIsOut
  <1>1. IInv => RemovedIsOut
    BY DEF IInv
  <1> QED BY <1>1, Inductive, PTL
=============================================================================
