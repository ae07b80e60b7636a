------------------------------- MODULE MCOffers -------------------------------
(* Instances of Offers for TLC. *)
EXTENDS Offers, TLC

CONSTANTS n1, b1, p1, o1, o2, w1, w2

\* At a list price of 8 the buyer may bid 4 to 7.  The vendor names a floor, from
\* which 6 is a deal at once, or stops haggling and drops the price.
MCKobo == {4, 5, 6, 7, 8}
MCListing == p1 :> [price |-> 8, negotiable |-> TRUE, published |-> TRUE, floor |-> 0]
MCEdit == {[price |-> 8, negotiable |-> TRUE, floor |-> 6], [price |-> 7, negotiable |-> FALSE, floor |-> 0]}
=============================================================================
