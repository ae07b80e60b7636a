------------------------------ MODULE OrderSystem ------------------------------
(***************************************************************************)
(* Checkout, the vendor, the hub, disputes, refunds and the escrow sweep   *)
(* interleaved over one set of tables.                                     *)
(***************************************************************************)
EXTENDS Checkout, Fulfilment, Escrow

\* Requests that are one transaction.
Atomic ==
    \/ Buyer
    \/ AbandonedSweep
    \/ \E o \in Order :
        ConfirmDelivery(o) \/ ReleaseEscrow(o) \/ DismissDispute(o) \/ HubIntake(o)

Handler(w) ==
    \/ ConfirmPayment(w)
    \/ UpdateOrderStatus(w)
    \/ CancelAndRefund(w)
    \/ PaystackRefund(w)
    \/ Disputes(w)
    \/ DispatchBatch(w)
    \/ ReleaseOverdueEscrow(w)

Fault(w) == RefundAnswerLost(w) \/ CancelFails(w) \/ SweepStatementFails(w) \/ Fail(w)

\* Every request of the running system, none of them failing.
SystemStep ==
    \/ Atomic
    \/ \E o \in Order : WindowPasses(o)
    \/ \E w \in Worker : Handler(w)

SystemNext == SystemStep \/ \E w \in Worker : Fault(w)

SystemSpec == Init /\ [][SystemNext]_vars

\* A basket that has been paid for, where everything after checkout begins.
InitPaid ==
    /\ orders = [o \in Order |-> [Unplaced EXCEPT !.status = "confirmed", !.paid = TRUE]]
    /\ wallet = [o \in Order |-> [status |-> "pending", kobo |-> CreditKobo(o, OnRef(RefOf[o]))]]
    /\ charged = [r \in Ref |-> SumKobo(OnRef(r))]
    /\ refunds = [o \in Order |-> 0]
    /\ overridden = {}
    /\ task = [w \in Worker |-> Idle]

\* The paid basket with no request failing.
PaidStepSpec == InitPaid /\ [][SystemStep]_vars

\* The vendors and the hub alone, at work on a paid basket.
HubStep ==
    \/ \E o \in Order : HubIntake(o)
    \/ \E w \in Worker :
        UpdateOrderStatus(w) \/ DispatchBatch(w) \/ CancelAndRefund(w) \/ PaystackRefund(w) \/ Fault(w)

HubSpec == InitPaid /\ [][HubStep]_vars

\* A request that has begun runs to its end, since nothing in a handler waits on
\* another; time passes, the sweep comes round every hour, and Paystack's webhook
\* follows the charge.  SweepSelect and ConfirmRead are strongly fair because only this model
\* makes a goroutine wait for a free worker.
SystemFairness ==
    /\ \A w \in Worker : WF_vars(task[w] # Idle /\ Handler(w))
    /\ \A o \in Order : WF_vars(WindowPasses(o))
    /\ SF_vars(\E w \in Worker : SweepSelect(w))
    /\ \A r \in Ref : SF_vars(\E w \in Worker : ConfirmRead(w, r))

PaidLiveSpec == InitPaid /\ [][SystemStep]_vars /\ SystemFairness

-----------------------------------------------------------------------------
(* Safety. *)

\* Escrow is never paid out for an order nobody dispatched, unless an admin
\* overrides it: the buyer's confirmation and the sweep both require a dispatch,
\* however stale what the sweep selected has become (ConfirmDelivery,
\* releaseOverdueEscrow, releaseEscrow).
ReleasedOnlyAfterDispatch ==
    \A o \in Order : wallet[o].status = "completed" =>
        orders[o].dispatched # "no" \/ o \in overridden

\* A dispute that ended in a refund leaves the vendor no credit, held or released,
\* whichever sweep, confirmation or override runs at the same time
\* (DisputeRefund: "regardless of whether it was still held or already released").
DisputeRefundVoidsCredit ==
    \A o \in Order : orders[o].dispute = "refunded" =>
        wallet[o].status \notin {"pending", "completed"}

\* A refund_reference is recorded only for a refund Paystack accepted: both refund
\* paths call Paystack first and write second (cancelAndRefund, DisputeRefund).
RefundRecordedOnlyIfIssued ==
    \A o \in Order : orders[o].refundRef => refunds[o] > 0

\* An order of a basket that spans stores, delivered and not collected, leaves only
\* through the hub: the vendor's stale read cannot dispatch it, and a dispatch
\* ships only what the hub received (vendorMaySet, dispatchBatch).
BasketShipsThroughHub ==
    \A S \in Basket : \A o, p \in S :
        (StoreOf[o] # StoreOf[p] /\ o \notin Pickup /\ orders[o].dispatched # "no") => orders[o].hub

\* The invariant the proofs carry: the properties above with what they lean on,
\* on the rows and on what the handlers in flight still believe.
BlankUntilPlaced ==
    \A o \in Order : orders[o].status = "unplaced" => orders[o] = Unplaced

ShippedIsDispatched ==
    \A o \in Order :
        orders[o].status \in {"shipped", "ready_for_collection"} => orders[o].dispatched # "no"

LeftCheckout(o) == orders[o].status \notin {"unplaced", "awaiting_payment", "abandoned"}

DisputedLeftCheckout == \A o \in Order : orders[o].dispute # "none" => LeftCheckout(o)

\* What the handler in flight with task t may rely on when it writes.
TaskSound(t) ==
    /\ t.op = "sweep" => \A o \in t.todo : orders[o].dispatched # "no"
    /\ t.op = "sweepPay" => \A o \in t.todo \cup {t.order} : orders[o].dispatched # "no"
    /\ t.op \in {"report", "disputeCall", "disputeTx"} => LeftCheckout(t.order)
    /\ t.op \in {"disputeTx", "cancelTx"} => refunds[t.order] > 0

HandlersSound == \A w \in Worker : TaskSound(task[w])

EscrowInv ==
    /\ CreditIffPaid
    /\ ReleasedOnlyAfterDispatch
    /\ DisputeRefundVoidsCredit
    /\ RefundRecordedOnlyIfIssued
    /\ BlankUntilPlaced
    /\ ShippedIsDispatched
    /\ DisputedLeftCheckout
    /\ HandlersSound

\* The invariant behind BasketShipsThroughHub: a basket is placed whole, so whoever read
\* that a vendor delivers read it of an order that is alone, and a dispatch holds only what
\* the hub had received.
HasRow(o) == orders[o].status # "unplaced"

ThroughHub(o) ==
    o \notin Pickup /\ \E S \in Basket : o \in S /\ \E p \in S : StoreOf[p] # StoreOf[o]

BasketsWhole == \A S \in Basket : \A o, p \in S : HasRow(o) => HasRow(p)

HubOnlyPlaced == \A o \in Order : orders[o].hub => HasRow(o)

DispatchedFromHub ==
    \A o \in Order : ThroughHub(o) /\ orders[o].dispatched # "no" => orders[o].hub

TaskAtHub(t) ==
    /\ t.op \in {"vendor", "report", "disputeCall", "disputeTx"} \cup RefundOp => HasRow(t.order)
    /\ t.op = "vendor" /\ t.want \in {"shipped", "ready_for_collection"} => ~ThroughHub(t.order)
    /\ t.op \in RefundOp \cup {"dispatch"} =>
        /\ \A o \in t.ship : orders[o].hub
        /\ \A o \in t.noshow : HasRow(o)

HubInv ==
    /\ BasketsWhole
    /\ HubOnlyPlaced
    /\ DispatchedFromHub
    /\ \A w \in Worker : TaskAtHub(task[w])

\* Stated by a comment: a vendor's cancellation "must not leave the buyer's money
\* with us and the vendor's credit sitting claimable" (UpdateOrderStatus).
CancelledHoldsNoCredit ==
    \A o \in Order :
        (orders[o].status = "cancelled" /\ \A w \in Worker : task[w] = Idle)
            => wallet[o].status # "pending"

\* Stated by a comment: an order already handled is returned "rather than refunding
\* twice" (cancelAndRefund, DisputeRefund).
RefundedOnce == \A o \in Order : refunds[o] <= 1

-----------------------------------------------------------------------------
(* Action properties. *)

\* A credit only moves forward: held to released or voided, released to voided by
\* a dispute, and never back, whatever order handlers write it in; its amount is
\* fixed when it is made (every UPDATE of wallet_transactions tests its status).
CreditStep(from, to) ==
    \/ to = from
    \/ from = "none" /\ to = "pending"
    \/ from = "pending" /\ to \in {"completed", "failed"}
    \/ from = "completed" /\ to = "failed"

CreditMovesForward ==
    [][\A o \in Order :
        /\ CreditStep(wallet[o].status, wallet'[o].status)
        /\ wallet[o].status # "none" => wallet'[o].kobo = wallet[o].kobo]_vars

-----------------------------------------------------------------------------
(* Liveness. *)

\* A dispatched order the buyer neither confirms nor disputes pays its vendor once
\* the window has passed, through the sweep's select and both of its updates
\* (StartAutoReleaseLoop, releaseOverdueEscrow; 0015_ready_for_collection.sql for
\* collection).
OverdueReleased ==
    \A o \in Order :
        (/\ orders[o].status \in {"shipped", "ready_for_collection"}
         /\ orders[o].dispatched = "overdue" /\ ~orders[o].confirmed)
        ~> (\/ wallet[o].status # "pending"
            \/ orders[o].dispute = "reported"
            \/ orders[o].status \in {"confirmed", "at_hub", "cancelled"})

\* An order is not left delivered with its vendor's credit still held
\* (releaseOverdueEscrow marks the order before it releases the wallet row).
DeliveredPaysOut ==
    \A o \in Order :
        (orders[o].status = "delivered" /\ wallet[o].status = "pending")
            ~> (wallet[o].status # "pending")
=============================================================================
