----------------------------- MODULE Directory -----------------------------
(***************************************************************************)
(* The directory of registered endpoints with the administrators' display  *)
(* names (app/routes/endpoints.py), the pages that keep a copy of it and   *)
(* send its names when they assign an endpoint, and who is taken to be an  *)
(* endpoint of a running meeting: the 'live' flag and remove_endpoint.     *)
(*                                                                         *)
(* An alias is known by its key, which normalize_alias gives; names are    *)
(* taken as their keys, too.  A participant shows its own key and a name,  *)
(* either of which may be NoText: guests of a browser have no alias.  Each *)
(* time somebody joins it is a new leg.                                    *)
(***************************************************************************)
EXTENDS Integers

CONSTANTS
    Aliases,        \* aliases that register with Pexip
    Guests,         \* participants who are no endpoints
    Keys,           \* what normalize_alias returns
    Key,            \* ... for an alias, or a guest's address
    PexipName,      \* the name an alias is registered with
    NoText,         \* the key of a text that is empty or says nothing ("sip:")
    Names,          \* names guests choose and administrators set
    Busy,           \* aliases with an overlapping meeting
    Pages,          \* open pages
    Loads,          \* requests for the directory that one page has on its way
    Threads,        \* threads that serve remove_endpoint
    None,
    MaxChanges,     \* BOUND: registrations and names that change, requests that fail
    MaxLegs         \* BOUND: times somebody joins

ASSUME DirectoryAssumption ==
    /\ Key \in [Aliases \cup Guests -> Keys]
    /\ NoText \in Keys /\ \A a \in Aliases : Key[a] # NoText
    /\ Names \subseteq Keys /\ PexipName \in [Aliases -> Names]
    /\ Busy \subseteq Aliases
    /\ None \notin Names \cup Keys \cup Aliases
    /\ MaxChanges \in Nat /\ MaxLegs \in Nat

VARIABLES
    registered,     \* aliases registered with Pexip
    overrides,      \* endpoint_display_overrides, by key
    page,           \* names of the endpoints each page lists (state.endpoints)
    loads,          \* its requests
    dialog,         \* endpoints checked in its edit dialog, if it is open
    running,        \* the meeting has started
    rows,           \* its meeting_endpoints: display_name, by alias
    legs,           \* who is in the conference
    joined,         \* legs so far
    web,            \* what each thread is doing
    changes

meetingVars == <<dialog, running, rows>>
callVars == <<legs, joined, web>>
pageVars == <<page, loads>>
vars == <<registered, overrides, pageVars, meetingVars, callVars, changes>>
----------------------------------------------------------------------------
Leg == [who: Aliases \cup Guests, name: Names, n: 1..MaxLegs]
Listing == [Aliases -> Names \cup {None}]
Nothing == [a \in Aliases |-> None]

Load == [pc: {"free", "asked", "listed", "answered"}, items: Listing]
NoLoad == [pc |-> "free", items |-> Nothing]
Request == [pc: {"free", "list", "call", "delete"}, alias: Aliases \cup {None},
            name: Names \cup {None},
            seen: SUBSET Leg, leg: Leg \cup {None}]
Free == [pc |-> "free", alias |-> None, name |-> None, seen |-> {}, leg |-> None]

TypeOK ==
    /\ registered \subseteq Aliases
    /\ overrides \in [Keys -> Names \cup {None}]
    /\ page \in [Pages -> Listing]
    /\ loads \in [Pages -> [Loads -> Load]]
    /\ dialog \in [Pages -> Listing \cup {None}]
    /\ running \in BOOLEAN /\ rows \in Listing
    /\ legs \subseteq Leg /\ joined \in 0..MaxLegs
    /\ web \in [Threads -> Request]
    /\ \A t \in Threads :
        /\ web[t].pc # "free" => web[t].alias \in Aliases /\ web[t].name \in Names
        /\ web[t].pc = "call" => web[t].leg \in Leg
    /\ changes \in 0..MaxChanges

Init ==
    /\ registered = Aliases
    /\ overrides = [k \in Keys |-> None]
    /\ page = [p \in Pages |-> Nothing]
    /\ loads = [p \in Pages |-> [l \in Loads |-> NoLoad]]
    /\ dialog = [p \in Pages |-> None]
    /\ running = FALSE /\ rows = Nothing
    /\ legs = {} /\ joined = 0
    /\ web = [t \in Threads |-> Free]
    /\ changes = 0
----------------------------------------------------------------------------
(* PUT and DELETE /api/endpoints/display-name.                             *)
SetName(key, name) ==
    /\ changes < MaxChanges /\ changes' = changes + 1
    /\ overrides' = [overrides EXCEPT ![key] = name]
    /\ UNCHANGED <<registered, pageVars, meetingVars, callVars>>

(* Endpoints register and drop out.                                        *)
Register(a) ==
    /\ changes < MaxChanges /\ changes' = changes + 1
    /\ registered' = IF a \in registered THEN registered \ {a} ELSE registered \cup {a}
    /\ UNCHANGED <<overrides, pageVars, meetingVars, callVars>>

(* GET /api/endpoints: Pexip is asked, then the overrides are read.        *)
ListedOnly == [a \in registered |-> PexipName[a]]     \* mutant of Listed
Listed == [a \in Aliases |-> IF a \in registered THEN PexipName[a] ELSE None]
Effective(key, name) == IF overrides[key] # None THEN overrides[key] ELSE name
Named(items) ==
    [a \in Aliases |-> IF items[a] = None THEN None ELSE Effective(Key[a], items[a])]

GotoLoad(p, l, r) == loads' = [loads EXCEPT ![p][l] = r]
Ask(p, l) ==
    /\ loads[p][l].pc = "free"
    /\ GotoLoad(p, l, [NoLoad EXCEPT !.pc = "asked"])
    /\ UNCHANGED <<registered, overrides, page, meetingVars, callVars, changes>>
ListRegistered(p, l) ==
    /\ loads[p][l].pc = "asked"
    /\ GotoLoad(p, l, [pc |-> "listed", items |-> Listed])
    /\ UNCHANGED <<registered, overrides, page, meetingVars, callVars, changes>>
ReadOverrides(p, l) ==
    /\ loads[p][l].pc = "listed"
    /\ GotoLoad(p, l, [pc |-> "answered", items |-> Named(loads[p][l].items)])
    /\ UNCHANGED <<registered, overrides, page, meetingVars, callVars, changes>>
ArriveFirst(p, l) ==                \* mutant of Arrive
    /\ loads[p][l].pc = "answered"
    /\ GotoLoad(p, l, NoLoad)
    /\ page' = IF page[p] = Nothing
               THEN [page EXCEPT ![p] = loads[p][l].items] ELSE page
    /\ UNCHANGED <<registered, overrides, meetingVars, callVars, changes>>
Arrive(p, l) ==
    /\ loads[p][l].pc = "answered"
    /\ GotoLoad(p, l, NoLoad)
    /\ page' = [page EXCEPT ![p] = loads[p][l].items]
    /\ UNCHANGED <<registered, overrides, meetingVars, callVars, changes>>
(* An answer of 500, or none: the page keeps what it has.                  *)
LoadFails(p, l) ==
    /\ loads[p][l].pc # "free"
    /\ changes < MaxChanges /\ changes' = changes + 1
    /\ GotoLoad(p, l, NoLoad)
    /\ UNCHANGED <<registered, overrides, page, meetingVars, callVars>>
----------------------------------------------------------------------------
(* create, update and add_endpoint store the name that the page sends.     *)
Assign(p, a) ==
    /\ page[p][a] # None /\ rows[a] = None
    /\ rows' = [rows EXCEPT ![a] = page[p][a]]
    /\ UNCHANGED <<registered, overrides, pageVars, dialog, running, callVars, changes>>

(* openEdit: a box for each endpoint that the page lists, checked if it is *)
(* assigned and not busy with another meeting; saveEdit sends those that   *)
(* are checked.  Users who uncheck one are left out.                       *)
OpenEdit(p) ==
    /\ ~running /\ rows # Nothing
    /\ dialog' = [dialog EXCEPT ![p] =
            [a \in Aliases |-> IF rows[a] # None /\ a \notin Busy THEN page[p][a] ELSE None]]
    /\ UNCHANGED <<registered, overrides, pageVars, running, rows, callVars, changes>>
SaveEdit(p) ==
    /\ dialog[p] # None
    /\ dialog' = [dialog EXCEPT ![p] = None]
    /\ rows' = IF running THEN rows ELSE dialog[p]
    /\ UNCHANGED <<registered, overrides, pageVars, running, callVars, changes>>

(* The worker starts the meeting.                                          *)
Start ==
    /\ ~running /\ running' = TRUE
    /\ UNCHANGED <<registered, overrides, pageVars, dialog, rows, callVars, changes>>

(* Somebody joins under a name: an endpoint under Pexip's.                 *)
Join(who, name) ==
    /\ running
    /\ joined < MaxLegs /\ joined' = joined + 1
    /\ who \in Aliases => rows[who] # None /\ name = PexipName[who]
    /\ legs' = legs \cup {[who |-> who, name |-> name, n |-> joined + 1]}
    /\ UNCHANGED <<registered, overrides, pageVars, meetingVars, web, changes>>
Leave(leg) ==
    /\ leg \in legs
    /\ legs' = legs \ {leg}
    /\ UNCHANGED <<registered, overrides, pageVars, meetingVars, joined, web, changes>>
----------------------------------------------------------------------------
(* meeting_utils: of the participants `live`, who is taken for the alias.  *)
(* No text matches nobody, though a guest may show none.                   *)
Candidates(leg) == {Key[leg.who], leg.name}
Shows(leg, key) == key # NoText /\ key \in Candidates(leg)
FindEndpointParticipants(a, name, live) ==
    LET nameKey == IF name = NoText THEN Key[a] ELSE name
    IN  {leg \in live : Shows(leg, Key[a]) \/ Shows(leg, nameKey)}
EndpointMatchesLive(a, name, live) ==
    \E leg \in live : Shows(leg, Key[a]) \/ Shows(leg, name)

Goto(t, r) == web' = [web EXCEPT ![t] = r]
RemoveRead(t, a) ==
    /\ web[t].pc = "free"
    /\ running /\ rows[a] # None
    /\ Goto(t, [Free EXCEPT !.pc = "list", !.alias = a, !.name = rows[a]])
    /\ UNCHANGED <<registered, overrides, pageVars, meetingVars, legs, joined, changes>>

(* More than one match is answered with 409.                               *)
Found(t) == FindEndpointParticipants(web[t].alias, web[t].name, legs)
RemoveAny(t) ==                     \* mutant of RemoveLive
    /\ web[t].pc = "list"
    /\ \/ \E leg \in Found(t) :
            Goto(t, [web[t] EXCEPT !.pc = "call", !.seen = legs, !.leg = leg])
       \/ Found(t) = {} /\ Goto(t, [web[t] EXCEPT !.pc = "delete", !.seen = legs])
    /\ UNCHANGED <<registered, overrides, pageVars, meetingVars, legs, joined, changes>>
RemoveLive(t) ==
    /\ web[t].pc = "list"
    /\ \/ \E leg \in Found(t) :
            Goto(t, IF Found(t) = {leg}
                    THEN [web[t] EXCEPT !.pc = "call", !.seen = legs, !.leg = leg]
                    ELSE Free)
       \/ Found(t) = {} /\ Goto(t, [web[t] EXCEPT !.pc = "delete", !.seen = legs])
    /\ UNCHANGED <<registered, overrides, pageVars, meetingVars, legs, joined, changes>>

(* disconnect_participant, of a leg that may be gone by now.               *)
RemoveCallAnyway(t) ==              \* mutant of RemoveCall
    /\ web[t].pc = "call"
    /\ legs' \in {legs, legs \ {web[t].leg}}
    /\ Goto(t, [web[t] EXCEPT !.pc = "delete"])
    /\ UNCHANGED <<registered, overrides, pageVars, meetingVars, joined, changes>>
RemoveCall(t) ==
    /\ web[t].pc = "call"
    /\ web[t].leg \in legs
    /\ legs' = legs \ {web[t].leg}
    /\ Goto(t, [web[t] EXCEPT !.pc = "delete"])
    /\ UNCHANGED <<registered, overrides, pageVars, meetingVars, joined, changes>>
RemoveDelete(t) ==
    /\ web[t].pc = "delete"
    /\ rows' = [rows EXCEPT ![web[t].alias] = None]
    /\ Goto(t, Free)
    /\ UNCHANGED <<registered, overrides, pageVars, dialog, running, legs, joined, changes>>
Called(t) == IF web[t].pc = "call" THEN {web[t].leg} ELSE {}
(* A call or the DELETE raises; the disconnect may have taken effect.      *)
RemoveFails(t) ==
    /\ web[t].pc # "free"
    /\ legs' \in {legs} \cup {legs \ {leg} : leg \in Called(t)}
    /\ Goto(t, Free)
    /\ UNCHANGED <<registered, overrides, pageVars, meetingVars, joined, changes>>
----------------------------------------------------------------------------
LoadStep(p, l) ==
    ListRegistered(p, l) \/ ReadOverrides(p, l) \/ Arrive(p, l)
PageStep(p) ==
    \/ \E l \in Loads : Ask(p, l) \/ LoadStep(p, l) \/ LoadFails(p, l)
    \/ \E a \in Aliases : Assign(p, a)
    \/ OpenEdit(p) \/ SaveEdit(p)
Remove(t) ==
    \/ \E a \in Aliases : RemoveRead(t, a)
    \/ RemoveLive(t) \/ RemoveCall(t) \/ RemoveDelete(t) \/ RemoveFails(t)

Next ==
    \/ \E key \in Keys, name \in Names \cup {None} : SetName(key, name)
    \/ \E a \in Aliases : Register(a)
    \/ \E p \in Pages : PageStep(p)
    \/ Start
    \/ \E who \in Aliases \cup Guests, name \in Names : Join(who, name)
    \/ \E leg \in legs : Leave(leg)
    \/ \E t \in Threads : Remove(t)

Spec == Init /\ [][Next]_vars

(* A page asks again every five minutes whatever became of the last        *)
(* request, and is answered.                                               *)
FairSpec == Spec /\ \A p \in Pages, l \in Loads : WF_vars(Ask(p, l) \/ LoadStep(p, l))
----------------------------------------------------------------------------
(* remove_endpoint never disconnects somebody else instead of an endpoint  *)
(* that it saw in the conference, whatever names are shared: a participant *)
(* of another alias is only taken if the endpoint itself was not there.    *)
OwnLegOrNone ==
    \A t \in Threads : web[t].pc = "call" =>
        \/ Key[web[t].leg.who] = Key[web[t].alias]
        \/ \A leg \in web[t].seen : Key[leg.who] # Key[web[t].alias]

(* An endpoint whose removal is answered with ok is out of the conference, *)
(* as far as it was in it when the participants were listed.               *)
RemovedIsOut ==
    \A t \in Threads : web[t].pc = "delete" =>
        \A leg \in web[t].seen : Key[leg.who] = Key[web[t].alias] => leg \notin legs

(* Once nobody changes anything any more, every page comes to show what is *)
(* registered, under the names that are set, and goes on showing it,       *)
(* although old answers overtake new ones.                                 *)
PagesCatchUp == <>[](\A p \in Pages : page[p] = Named(Listed))

(* meeting_utils.py: live matching uses the "original Pexip name", "never  *)
(* the custom name", and the test of remove_endpoint: it "identifies       *)
(* participant by UUID/alias, not custom name".  Whoever is disconnected   *)
(* shows the alias or the name that Pexip has for it.                      *)
NotByCustomName ==
    [][\A t \in Threads : RemoveCall(t) =>
        EndpointMatchesLive(web[t].alias, PexipName[web[t].alias], {web[t].leg})]_vars
=============================================================================
