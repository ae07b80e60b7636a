------------------------------ MODULE OrderTables ------------------------------
(***************************************************************************)
(* The state every order handler shares: the `orders` rows, the escrow     *)
(* credit of each order in `wallet_transactions`, the money Paystack holds *)
(* for each payment reference, and the handlers in flight.                 *)
(*                                                                         *)
(* Nothing in the services locks an order across two statements except     *)
(* ConfirmDelivery, so a handler is split at every point where it has read *)
(* something it will use later or where a statement commits on its own.  A *)
(* worker is one goroutine (an HTTP request or a background loop) of the   *)
(* orders service, or one admin-api request; task[w] is what it has read   *)
(* and where it stands.                                                    *)
(*                                                                         *)
(* A run of statements inside one SQL transaction is one step.             *)
(***************************************************************************)
EXTENDS Integers, FiniteSets, Functions

CONSTANTS
    Order,      \* orders a buyer may place
    Ref,        \* payment references
    Store,
    RefOf,      \* the payment_reference an order is placed under
    StoreOf,    \* the store an order belongs to
    Pickup,     \* orders whose delivery option is a pickup
    ItemsKobo,  \* price of an order's items
    FeeKobo,    \* delivery fee recorded on an order
    Worker

ASSUME OrderAssumption ==
    /\ IsFiniteSet(Order)
    /\ RefOf \in [Order -> Ref]
    /\ StoreOf \in [Order -> Store]
    /\ Pickup \subseteq Order
    /\ ItemsKobo \in [Order -> Nat \ {0}]
    /\ FeeKobo \in [Order -> Nat]

VARIABLES
    orders,     \* orders[o]: the columns of the row the handlers test
    wallet,     \* wallet[o]: the credit row whose order_id is o
    charged,    \* charged[r]: kobo Paystack took from the buyer, 0 for none
    refunds,    \* refunds[o]: refunds Paystack accepted on behalf of order o
    overridden, \* orders whose credit an admin released by hand
    task

tables == <<orders, wallet>>
paystack == <<charged, refunds>>
vars == <<orders, wallet, charged, refunds, overridden, task>>

-----------------------------------------------------------------------------

OrderStatus == {"awaiting_payment", "abandoned", "confirmed", "at_hub", "shipped",
                "ready_for_collection", "delivered", "cancelled"}

\* "unplaced" stands for the absence of a row.
Row == [status    : OrderStatus \cup {"unplaced"},
        paid      : BOOLEAN,                                      \* paid_at IS NOT NULL
        hub       : BOOLEAN,                                      \* hub_received_at IS NOT NULL
        dispatched: {"no", "recent", "overdue"},                  \* dispatched_at against the 7-day window
        confirmed : BOOLEAN,                                      \* delivery_confirmed_at IS NOT NULL
        dispute   : {"none", "reported", "refunded", "dismissed"},
        refundRef : BOOLEAN]                                      \* refund_reference IS NOT NULL

Credit == [status: {"none", "pending", "completed", "failed"}, kobo: Nat]

VendorStatus == {"confirmed", "at_hub", "shipped", "ready_for_collection", "cancelled"}

Idle == [op |-> "idle"]

\* ship and noshow are what is left of the batch dispatch a worker is in; both
\* are empty when the refund was not asked for by a dispatch.
RefundOp == {"cancelRead", "cancelCall", "cancelTx"}

Task == {Idle}
    \cup [op: {"confirm"}, ref: Ref, targets: SUBSET Order]
    \cup [op: {"vendor"}, order: Order, want: VendorStatus]
    \cup [op: {"report", "disputeCall", "disputeTx"}, order: Order]
    \cup [op: RefundOp, order: Order, ship: SUBSET Order, noshow: SUBSET Order]
    \cup [op: {"dispatch"}, ship: SUBSET Order, noshow: SUBSET Order]
    \cup [op: {"sweep"}, todo: SUBSET Order]
    \cup [op: {"sweepPay"}, order: Order, todo: SUBSET Order]

TypeOK ==
    /\ orders \in [Order -> Row]
    /\ wallet \in [Order -> Credit]
    /\ charged \in [Ref -> Nat]
    /\ refunds \in [Order -> Nat]
    /\ overridden \subseteq Order
    /\ task \in [Worker -> Task]

Unplaced == [status |-> "unplaced", paid |-> FALSE, hub |-> FALSE, dispatched |-> "no",
             confirmed |-> FALSE, dispute |-> "none", refundRef |-> FALSE]

Init ==
    /\ orders = [o \in Order |-> Unplaced]
    /\ wallet = [o \in Order |-> [status |-> "none", kobo |-> 0]]
    /\ charged = [r \in Ref |-> 0]
    /\ refunds = [o \in Order |-> 0]
    /\ overridden = {}
    /\ task = [w \in Worker |-> Idle]

-----------------------------------------------------------------------------
(* Queries and statements several handlers share. *)

TotalKobo(o) == ItemsKobo[o] + FeeKobo[o]

SumKobo(S) == SumFunctionOnSet([o \in Order |-> TotalKobo(o)], S)

\* SELECT ... FROM orders WHERE payment_reference = r
OnRef(r) == {o \in Order : RefOf[o] = r /\ orders[o].status # "unplaced"}

\* Mutant: an order the sweep marked abandoned can no longer be paid.
AwaitingOnly(o) == orders[o].status = "awaiting_payment"

Unpaid(o) == orders[o].status \in {"awaiting_payment", "abandoned"}

\* The derived `fulfilment` column: GoMarketi carries an order when another
\* store has an order on the same reference.
GoMarketiDelivers(o) == \E p \in OnRef(RefOf[o]) : StoreOf[p] # StoreOf[o]

\* Mutant: the release does not test the credit's status.
ReleaseAny(S) ==
    [o \in Order |-> IF o \in S /\ wallet[o].status # "none"
                     THEN [wallet[o] EXCEPT !.status = "completed"]
                     ELSE wallet[o]]

\* UPDATE wallet_transactions SET status='completed'
\*   WHERE order_id IN S AND status='pending'
ReleaseCredit(S) ==
    [o \in Order |-> IF o \in S /\ wallet[o].status = "pending"
                     THEN [wallet[o] EXCEPT !.status = "completed"]
                     ELSE wallet[o]]

\* Mutant: a credit already released is left to the vendor.
VoidHeld(o, from) ==
    IF wallet[o].status = "pending" THEN [wallet EXCEPT ![o].status = "failed"] ELSE wallet

\* UPDATE wallet_transactions SET status='failed' WHERE order_id=o AND status IN from
VoidCredit(o, from) ==
    IF wallet[o].status \in from THEN [wallet EXCEPT ![o].status = "failed"] ELSE wallet

\* Paystack refunds part of a charge as long as the charge is not used up.
RefundedKobo(r) ==
    SumFunctionOnSet([o \in Order |-> refunds[o] * TotalKobo(o)], {o \in Order : RefOf[o] = r})

PaystackCanRefund(o) == RefundedKobo(RefOf[o]) + TotalKobo(o) <= charged[RefOf[o]]

-----------------------------------------------------------------------------
(* Tasks. *)

Start(w, t) == task[w] = Idle /\ task' = [task EXCEPT ![w] = t]

Become(w, t) == task' = [task EXCEPT ![w] = t]

Finish(w) == Become(w, Idle)

\* A failed statement, a lost connection, a cancelled request or a crash: the
\* handler returns and nothing it had not yet written is written.
Fail(w) ==
    /\ task[w] # Idle
    /\ Finish(w)
    /\ UNCHANGED <<orders, wallet, charged, refunds, overridden>>
=============================================================================
