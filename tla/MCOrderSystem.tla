---------------------------- MODULE MCOrderSystem ----------------------------
(* Instances of OrderSystem, and of what is shown of it, for TLC. *)
EXTENDS Figures, TLC

CONSTANTS o1, o2, r1, s1, s2, w1, w2

\* One order alone on its reference, delivered by its vendor.
LoneOrder == {o1}
LoneRefOf == (o1 :> r1)
LoneStoreOf == (o1 :> s1)
LoneItemsKobo == (o1 :> 2)
LoneFeeKobo == (o1 :> 1)
LoneBasket == {{o1}}

\* A basket of two stores. The orders cost the same, so that what Paystack still
\* holds for one can be refunded on behalf of the other.
PairOrder == {o1, o2}
PairRefOf == (o1 :> r1) @@ (o2 :> r1)
PairStoreOf == (o1 :> s1) @@ (o2 :> s2)
PairItemsKobo == (o1 :> 1) @@ (o2 :> 2)
PairFeeKobo == (o1 :> 1) @@ (o2 :> 0)
PairBasket == {{o1, o2}}

MCRef == {r1}
MCStore == {s1, s2}
NoPickup == {}
LonePickup == {o1}
OneWorker == {w1}
TwoWorkers == {w1, w2}

MCSymmetry == Permutations({w1, w2})
=============================================================================
