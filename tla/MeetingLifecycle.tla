-------------------------- MODULE MeetingLifecycle --------------------------
(***************************************************************************)
(* What the scheduler promises about the life of one row of meetings,      *)
(* whatever requests, crashes and lost calls happen in between:            *)
(*                                                                         *)
(*   scheduled --> starting --> started* --> ending --> ended*             *)
(*       |             |                                   ^               *)
(*       +-------------+------- ended_with_errors ---------+               *)
(*                                                                         *)
(* where started* and ended* are with or without _with_errors.  Nothing    *)
(* goes back, a meeting that is over stays as it is, started_at is set     *)
(* exactly when the meeting becomes started and ended_at exactly when it   *)
(* is over, and both are set once.  A row may be deleted at any time, and  *)
(* its id is not used again.                                               *)
(***************************************************************************)
CONSTANT MeetingIds

VARIABLES
    status,
    begun,      \* started_at IS NOT NULL
    done        \* ended_at IS NOT NULL

Started == {"started", "started_with_errors"}
Ended == {"ended", "ended_with_errors"}
Present == {"scheduled", "starting", "ending"} \cup Started \cup Ended

Init ==
    /\ status = [m \in MeetingIds |-> "unused"]
    /\ begun = [m \in MeetingIds |-> FALSE]
    /\ done = [m \in MeetingIds |-> FALSE]

Become(m, s) == status' = [status EXCEPT ![m] = s]

Book(m) ==
    /\ status[m] = "unused"
    /\ Become(m, "scheduled")
    /\ UNCHANGED <<begun, done>>

Claim(m) ==
    /\ \/ status[m] = "scheduled" /\ Become(m, "starting")
       \/ status[m] \in Started /\ Become(m, "ending")
    /\ UNCHANGED <<begun, done>>

Start(m) ==
    /\ status[m] = "starting" /\ ~begun[m]
    /\ \E s \in Started : Become(m, s)
    /\ begun' = [begun EXCEPT ![m] = TRUE]
    /\ UNCHANGED done

End(m) ==
    /\ status[m] = "ending" /\ begun[m] /\ ~done[m]
    /\ \E s \in Ended : Become(m, s)
    /\ done' = [done EXCEPT ![m] = TRUE]
    /\ UNCHANGED begun

(* Its window passed before it could be started.                           *)
Miss(m) ==
    /\ status[m] \in {"scheduled", "starting"} /\ ~begun[m] /\ ~done[m]
    /\ Become(m, "ended_with_errors")
    /\ done' = [done EXCEPT ![m] = TRUE]
    /\ UNCHANGED begun

Delete(m) ==
    /\ status[m] \in Present
    /\ Become(m, "deleted")
    /\ begun' = [begun EXCEPT ![m] = FALSE]
    /\ done' = [done EXCEPT ![m] = FALSE]

Next ==
    \E m \in MeetingIds :
        Book(m) \/ Claim(m) \/ Start(m) \/ End(m) \/ Miss(m) \/ Delete(m)

Spec == Init /\ [][Next]_<<status, begun, done>>
=============================================================================
