------------------------------- MODULE Sessions -------------------------------
(***************************************************************************)
(* The two parts that hold something open for a client: the session that a *)
(* refresh token keeps alive, and the stream of live events.  They share   *)
(* no row, so a behaviour is of one of them.                               *)
(***************************************************************************)
EXTENDS Accounts, LiveEvents

VARIABLE side

sessionsVars == <<side, accountVars, eventsVars>>

SessionsTypeOK == side \in {"accounts", "events"} /\ AccountsTypeOK /\ LiveEventsTypeOK

SessionsInit == side \in {"accounts", "events"} /\ AccountsInit /\ LiveEventsInit

SessionsNext ==
    /\ \/ side = "accounts" /\ AccountsNext /\ UNCHANGED eventsVars
       \/ side = "events" /\ LiveEventsNext /\ UNCHANGED accountVars
    /\ UNCHANGED side

SessionsSpec == SessionsInit /\ [][SessionsNext]_sessionsVars

=============================================================================
