------------------------------ MODULE Settlement ------------------------------
(***************************************************************************)
(* What confirming a payment promises, seen from outside: a reference is   *)
(* charged at most once, and the charge settles at most once, all at once, *)
(* a set of orders on the reference whose totals add up to it.             *)
(***************************************************************************)
EXTENDS Integers, FiniteSets, Functions

CONSTANTS Order, Ref, RefOf, ItemsKobo, FeeKobo

VARIABLES
    charge,     \* charge[r]: kobo taken from the buyer, 0 for none
    settled     \* settled[r]: the orders paid for by the charge

Total(S) == SumFunctionOnSet([o \in Order |-> ItemsKobo[o] + FeeKobo[o]], S)

Init ==
    /\ charge = [r \in Ref |-> 0]
    /\ settled = [r \in Ref |-> {}]

Charge(r) ==
    /\ charge[r] = 0
    /\ \E S \in SUBSET {o \in Order : RefOf[o] = r} :
           S # {} /\ charge' = [charge EXCEPT ![r] = Total(S)]
    /\ UNCHANGED settled

Settle(r) ==
    /\ charge[r] # 0 /\ settled[r] = {}
    /\ \E S \in SUBSET {o \in Order : RefOf[o] = r} :
           /\ Total(S) = charge[r]
           /\ settled' = [settled EXCEPT ![r] = S]
    /\ UNCHANGED charge

Next == \E r \in Ref : Charge(r) \/ Settle(r)

Spec == Init /\ [][Next]_<<charge, settled>>
=============================================================================
