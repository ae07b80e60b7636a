-------------------------------- MODULE Haggle --------------------------------
(***************************************************************************)
(* What a negotiation promises, seen from outside: the two sides take      *)
(* turns, a deal is struck at a price one side named and the other took,   *)
(* the price never moves after that, and a deal is marked redeemed at most *)
(* once, when the first order at its price is paid.  Another order may be  *)
(* paid at that price; it changes nothing here.  Time runs out on its own; *)
(* when the service notices is not visible either.                         *)
(***************************************************************************)
EXTENDS Integers

CONSTANTS Offer, Kobo

VARIABLES
    turn,       \* turn[n]: whose move it is, or how the negotiation ended
    bid,        \* bid[n]: what the buyer last offered
    ask,        \* ask[n]: what the vendor last asked
    price       \* price[n]: the price of the deal, 0 for none

haggle == <<turn, bid, ask, price>>

\* late: a deal whose window has passed, which an order placed in time may still buy.
Turn == {"none", "vendor", "buyer", "deal", "late", "redeemed", "over"}

Init ==
    /\ turn = [n \in Offer |-> "none"]
    /\ bid = [n \in Offer |-> 0] /\ ask = [n \in Offer |-> 0] /\ price = [n \in Offer |-> 0]

\* The buyer names x: it waits for the vendor, or the vendor's floor takes it at once.
Bid(n, x) ==
    /\ \/ turn[n] = "none"
       \/ turn[n] = "buyer" /\ bid[n] < x /\ x < ask[n]
    /\ bid' = [bid EXCEPT ![n] = x]
    /\ \/ turn' = [turn EXCEPT ![n] = "vendor"] /\ UNCHANGED price
       \/ turn' = [turn EXCEPT ![n] = "deal"] /\ price' = [price EXCEPT ![n] = x]
    /\ UNCHANGED ask

Ask(n, y) ==
    /\ turn[n] = "vendor" /\ bid[n] < y
    /\ turn' = [turn EXCEPT ![n] = "buyer"]
    /\ ask' = [ask EXCEPT ![n] = y]
    /\ UNCHANGED <<bid, price>>

\* Either side takes what the other named last.
Agree(n) ==
    /\ turn[n] \in {"vendor", "buyer"}
    /\ turn' = [turn EXCEPT ![n] = "deal"]
    /\ price' = [price EXCEPT ![n] = IF turn[n] = "vendor" THEN bid[n] ELSE ask[n]]
    /\ UNCHANGED <<bid, ask>>

WalkAway(n) ==
    /\ turn[n] \in {"vendor", "buyer"}
    /\ turn' = [turn EXCEPT ![n] = "over"]
    /\ UNCHANGED <<bid, ask, price>>

TimeOut(n) ==
    /\ turn[n] = "deal"
    /\ turn' = [turn EXCEPT ![n] = "late"]
    /\ UNCHANGED <<bid, ask, price>>

Redeem(n) ==
    /\ turn[n] \in {"deal", "late"}
    /\ turn' = [turn EXCEPT ![n] = "redeemed"]
    /\ UNCHANGED <<bid, ask, price>>

Next ==
    \E n \in Offer :
        \/ \E x \in Kobo : Bid(n, x) \/ Ask(n, x)
        \/ Agree(n) \/ WalkAway(n) \/ TimeOut(n) \/ Redeem(n)

Spec == Init /\ [][Next]_haggle
=============================================================================
