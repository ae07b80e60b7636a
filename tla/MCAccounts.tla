------------------------------ MODULE MCAccounts ------------------------------
(***************************************************************************)
(* One account reached by password, by code and through two providers,     *)
(* with two requests in flight and room for a family of three tokens; and  *)
(* a client on its WebSocket, with one event more than the list keeps.     *)
(***************************************************************************)
EXTENDS Sessions, TLC

CONSTANTS u1, g1, a1, c1, w1, w2

Requests == Permutations({w1, w2})

=============================================================================
