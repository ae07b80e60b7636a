------------------------------ MODULE MCCheckout ------------------------------
(* Instances of Checkout for TLC. *)
EXTENDS Notices, TLC

CONSTANTS o1, o2, o3, o4, r1, s1, s2, w1, w2

MCRef == {r1}
MCStore == {s1, s2}
MCWorker == {w1, w2}
MCPickup == {}

\* A lone order, o1, and the request for it repeated, o2; under the same reference a request
\* for two stores, o3 and o4, whose delivery is recorded on its first order.  It costs what
\* the first two cost together: a charge for it can pay for both of them, two orders of one
\* store.
MCOrder == {o1, o2, o3, o4}
MCRefOf == [o \in MCOrder |-> r1]
MCStoreOf == [o \in MCOrder |-> IF o = o4 THEN s2 ELSE s1]
MCItemsKobo == (o1 :> 2) @@ (o2 :> 2) @@ (o3 :> 2) @@ (o4 :> 3)
MCFeeKobo == [o \in MCOrder |-> IF o = o4 THEN 0 ELSE 1]
MCBasket == {{o1}, {o2}, {o3, o4}}

\* The first two alone.
RetryOrder == {o1, o2}
RetryRefOf == [o \in RetryOrder |-> r1]
RetryStoreOf == [o \in RetryOrder |-> s1]
RetryItemsKobo == [o \in RetryOrder |-> 2]
RetryFeeKobo == [o \in RetryOrder |-> 1]
RetryBasket == {{o} : o \in RetryOrder}
=============================================================================
