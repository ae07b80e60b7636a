------------------------------- MODULE Checkout -------------------------------
(***************************************************************************)
(* The two halves of checkout in the orders service.  PlaceOrder and       *)
(* PlaceCheckout write the orders before any money moves; ConfirmPayment,  *)
(* called by the buyer's browser and by Paystack's webhook in any order    *)
(* and any number of times, checks the charge against the sum of the       *)
(* orders it read and then turns them into paid ones, crediting each       *)
(* vendor in escrow.  A background sweep marks old unpaid orders abandoned *)
(* meanwhile.                                                              *)
(***************************************************************************)
EXTENDS OrderTables

CONSTANT Basket     \* the checkout requests buyers send, each a set of orders

\* An order is its request's own, and a request puts all of its orders under one reference.
\* It may name a store twice, and another may come under the same reference for other stores:
\* the server refuses neither.
ASSUME BasketAssumption ==
    /\ Basket \subseteq (SUBSET Order) \ {{}}
    /\ \A S, T \in Basket : S = T \/ S \cap T = {}
    /\ \A S \in Basket : \A o, p \in S : RefOf[o] = RefOf[p]

-----------------------------------------------------------------------------

\* Mutant: the vendor is credited as the order is placed.
InsertAndCredit(S) ==
    /\ \A o \in S : orders[o].status = "unplaced"
    /\ orders' = [o \in Order |-> IF o \in S THEN [Unplaced EXCEPT !.status = "awaiting_payment"]
                                             ELSE orders[o]]
    /\ wallet' = [o \in Order |-> IF o \in S THEN [status |-> "pending", kobo |-> TotalKobo(o)]
                                             ELSE wallet[o]]
    /\ UNCHANGED <<charged, refunds, overridden, task>>

InsertOrders(S) ==
    /\ \A o \in S : orders[o].status = "unplaced"
    /\ orders' = [o \in Order |-> IF o \in S THEN [Unplaced EXCEPT !.status = "awaiting_payment"]
                                             ELSE orders[o]]
    /\ UNCHANGED <<wallet, charged, refunds, overridden, task>>

\* The reference may come from the client, so a repeated request is a second
\* order under the same reference.
PlaceOrder(o) == {o} \in Basket /\ InsertOrders({o})

\* One transaction: every order of the basket or none.  A basket may be of one store.
PlaceCheckout(S) == S \in Basket /\ InsertOrders(S)

\* The browser charges the buyer what one checkout response added up to.
\* Paystack accepts one successful charge per reference.
BuyerPays(r, S) ==
    /\ S \in Basket /\ S \subseteq OnRef(r)
    /\ charged[r] = 0
    /\ charged' = [charged EXCEPT ![r] = SumKobo(S)]
    /\ UNCHANGED <<orders, wallet, refunds, overridden, task>>

\* ConfirmPayment up to the first early return: when no order on the reference
\* is still unpaid the call is a replay and writes nothing.
ConfirmRead(w, r) ==
    /\ \E o \in OnRef(r) : Unpaid(o)
    /\ Start(w, [op |-> "confirm", ref |-> r, targets |-> OnRef(r)])
    /\ UNCHANGED <<orders, wallet, charged, refunds, overridden>>

\* Mutants: the verification's amount is not compared, or it is compared with the orders
\* still unpaid.
ChargeSucceeded(r, targets) == charged[r] # 0

ChargeCoversUnpaid(r, targets) == charged[r] = SumKobo({o \in targets : Unpaid(o)})

\* verifyPaystackTransaction compares Paystack's amount with the orders read.
ChargeCovers(r, targets) == charged[r] = SumKobo(targets)

ConfirmRefused(w) ==
    /\ task[w].op = "confirm"
    /\ ~ChargeCovers(task[w].ref, task[w].targets)
    /\ Finish(w)
    /\ UNCHANGED <<orders, wallet, charged, refunds, overridden>>

\* Mutant: the delivery fee is the vendor's on a shared basket too.
CreditTotal(o, targets) == TotalKobo(o)

\* creditVendorTx: a lone order on its reference earns its delivery fee.
CreditKobo(o, targets) ==
    ItemsKobo[o] + (IF Cardinality(targets) = 1 THEN FeeKobo[o] ELSE 0)

\* UPDATE ... WHERE status IN ('awaiting_payment','abandoned'): an order another
\* caller has confirmed, or a vendor has moved on, is skipped and not credited.
MarkedPaid(targets) == {o \in targets : Unpaid(o)}

ConfirmCommit(w) ==
    /\ task[w].op = "confirm"
    /\ ChargeCovers(task[w].ref, task[w].targets)
    /\ LET targets == task[w].targets
           S == MarkedPaid(targets)
       IN  /\ orders' = [o \in Order |-> IF o \in S
                            THEN [orders[o] EXCEPT !.status = "confirmed", !.paid = TRUE]
                            ELSE orders[o]]
           /\ wallet' = [o \in Order |-> IF o \in S /\ wallet[o].status = "none"
                            THEN [status |-> "pending", kobo |-> CreditKobo(o, targets)]
                            ELSE wallet[o]]
    /\ Finish(w)
    /\ UNCHANGED <<charged, refunds, overridden>>

\* Mutant: the sweep goes by paid_at, which an order that the vendor moved on has not.
MarkAbandonedUnpaid(S) ==
    /\ \A o \in S : orders[o].status # "unplaced" /\ ~orders[o].paid
    /\ orders' = [o \in Order |-> IF o \in S THEN [orders[o] EXCEPT !.status = "abandoned"]
                                             ELSE orders[o]]
    /\ UNCHANGED <<wallet, charged, refunds, overridden, task>>

\* One UPDATE over the unpaid orders older than abandonAfter; ages are abstract,
\* so any of them may have reached it.
MarkAbandonedOrders(S) ==
    /\ \A o \in S : orders[o].status = "awaiting_payment"
    /\ orders' = [o \in Order |-> IF o \in S THEN [orders[o] EXCEPT !.status = "abandoned"]
                                             ELSE orders[o]]
    /\ UNCHANGED <<wallet, charged, refunds, overridden, task>>

-----------------------------------------------------------------------------

Buyer ==
    \/ \E o \in Order : PlaceOrder(o)
    \/ \E S \in Basket : PlaceCheckout(S)
    \/ \E r \in Ref : \E S \in Basket : BuyerPays(r, S)

ConfirmPayment(w) ==
    \/ \E r \in Ref : ConfirmRead(w, r)
    \/ ConfirmRefused(w)
    \/ ConfirmCommit(w)

AbandonedSweep == \E S \in (SUBSET Order) \ {{}} : MarkAbandonedOrders(S)

-----------------------------------------------------------------------------
(* Properties. *)

\* The orders a reference's charge has paid for.
Settled(r) == {o \in Order : RefOf[o] = r /\ orders[o].paid}

\* A vendor is credited exactly when an order is paid: paid_at and the credit row
\* are written by one transaction of ConfirmPayment and no other handler touches
\* either alone, however many confirmations race (creditVendorTx).
CreditIffPaid == \A o \in Order : orders[o].paid <=> wallet[o].status # "none"

\* The vendors on a payment reference are never credited more than Paystack took
\* for it, with repeated requests adding orders to the reference and browser and
\* webhook confirming at once (ConfirmPayment's grandTotal check).
CreditsCovered ==
    \A r \in Ref :
        SumFunctionOnSet([o \in Order |-> wallet[o].kobo], {o \in Order : RefOf[o] = r}) <= charged[r]

\* The delivery fee is credited with an order that was paid alone on its reference, and with
\* no other, whichever of the overlapping confirmations marked it (ConfirmPayment's
\* vendorDelivers).
FeeForLoneOrder ==
    \A o \in Order : orders[o].paid =>
        wallet[o].kobo = ItemsKobo[o] + (IF Settled(RefOf[o]) = {o} THEN FeeKobo[o] ELSE 0)

\* The requests placed under a reference are alike: each names a store once, and one that comes
\* again asks for the same stores and the same money.
Alike(r) ==
    \A S, T \in {B \in Basket : B \subseteq OnRef(r)} :
        /\ \A o, p \in S : StoreOf[o] = StoreOf[p] => o = p
        /\ {StoreOf[o] : o \in S} = {StoreOf[o] : o \in T}
        /\ SumKobo(S) = SumKobo(T)

DeliveryEarned(o) == IF GoMarketiDelivers(o) THEN 0 ELSE FeeKobo[o]

\* As long as the requests on a reference are alike, the fee is credited to the vendor exactly
\* when the vendor delivers: "lone order on the reference", decided at the payment, agrees with
\* the `fulfilment` column derived from the stores on the reference whenever it is read.
FeeFollowsDeliverer ==
    \A o \in Order : orders[o].paid /\ Alike(RefOf[o]) =>
        wallet[o].kobo = ItemsKobo[o] + DeliveryEarned(o)

\* What the vendors of a reference are credited is covered by what was charged for it, the
\* delivery for an order paid alone; that is, where requests are alike, with whoever delivers.
CreditsAsCharged == CreditsCovered /\ FeeForLoneOrder /\ FeeFollowsDeliverer

\* A charge ends with every order on its reference paid, abandoned ones included:
\* "there are no business rules left that could refuse it" (ConfirmPayment) and
\* "a buyer who finishes paying flips their own order straight back to confirmed"
\* (checkout.go).  The one exception is a repeated request that has put another order
\* under the reference: the charge no longer adds up, and every confirmation is refused.
ChargeConfirms ==
    \A r \in Ref :
        (charged[r] # 0) ~> ((\A o \in OnRef(r) : orders[o].paid) \/ SumKobo(OnRef(r)) # charged[r])

-----------------------------------------------------------------------------
(* ConfirmPayment implements a single settlement per charge. *)

SettlementMap == INSTANCE Settlement WITH
    charge <- charged,
    settled <- [r \in Ref |-> Settled(r)]

\* Racing and repeated confirmations are one atomic settlement of exactly the
\* orders whose totals make up the charge.
ImplementsSettlement == SettlementMap!Spec
=============================================================================
