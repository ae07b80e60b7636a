------------------------------ MODULE Requests -------------------------------
(***************************************************************************)
(* The goroutines that serve requests.  A handler that reads and then      *)
(* writes in statements of their own lets others in between; the gateway   *)
(* sends a request once more when its connection breaks, so a vendor's     *)
(* one click may be two of these.                                          *)
(***************************************************************************)
EXTENDS Integers, FiniteSets

CONSTANT Request

ASSUME RequestAssumption == IsFiniteSet(Request)

Idle == [op |-> "idle"]

=============================================================================
