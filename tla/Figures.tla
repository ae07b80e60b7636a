------------------------------- MODULE Figures -------------------------------
(***************************************************************************)
(* What the rows are read as: the order as the buyer, the vendor and the   *)
(* admin are shown it, the vendor's lists, and the figures of the vendor's *)
(* dashboard.  Nothing is stored of them; each request computes them anew  *)
(* from the rows the handlers are changing.                                *)
(***************************************************************************)
EXTENDS OrderSystem

Placed == {o \in Order : orders[o].status # "unplaced"}

-----------------------------------------------------------------------------
(* One order, for whoever may see it. *)

\* A credit that is not there reads as held.
EscrowStatus(o) ==
    CASE wallet[o].status = "completed" -> "released"
      [] wallet[o].status = "failed" -> "reversed"
      [] OTHER -> "held"

Fulfilment(o) == IF GoMarketiDelivers(o) THEN "gomarketi" ELSE "vendor"

OrderView(o) ==
    [status |-> orders[o].status, atHub |-> orders[o].hub,
     dispatched |-> orders[o].dispatched # "no", confirmed |-> orders[o].confirmed,
     dispute |-> orders[o].dispute, escrow |-> EscrowStatus(o), fulfilment |-> Fulfilment(o),
     totalKobo |-> TotalKobo(o), deliveryKobo |-> FeeKobo[o]]

\* For the e-mail it was placed with; every order of an instance is one buyer's.
GetPublicOrder(o) == IF o \in Placed THEN {OrderView(o)} ELSE {}

\* Paid or not.
GetMyOrders == [o \in Placed |-> OrderView(o)]

\* The admin's batch: each order with the state of its credit itself.
GetBatch(r) ==
    [o \in OnRef(r) |-> [row |-> orders[o], walletStatus |-> wallet[o].status, totalKobo |-> TotalKobo(o)]]

-----------------------------------------------------------------------------
(* A store. *)

\* Without a status asked for: what was paid, and what the vendor moved on unpaid.
ListedByVendor(s) ==
    {o \in Placed : StoreOf[o] = s /\ orders[o].status \notin {"awaiting_payment", "abandoned"}}

Abandoned(s) == {o \in Placed : StoreOf[o] = s /\ orders[o].status = "abandoned"}

\* The admin's page of a vendor: every order of the store, whatever became of it.
GetVendorSales(s) == {o \in Placed : StoreOf[o] = s}

\* paidOnly
PaidFor(s) == {o \in Placed : StoreOf[o] = s /\ orders[o].paid}

Kept(s) == {o \in PaidFor(s) : orders[o].status # "cancelled"}

\* The one buyer, as a customer of the store: what was cancelled still counts as spent.
GetCustomer(s) ==
    [totalOrders |-> Cardinality(PaidFor(s)), totalSpentKobo |-> SumKobo(PaidFor(s))]

GetAnalyticsOverview(s) ==
    [revenueKobo |-> SumKobo(Kept(s)), orders |-> Cardinality(PaidFor(s)),
     pending |-> Cardinality({o \in PaidFor(s) : orders[o].status = "confirmed"})]

\* The orders of an instance are of one day, the only one of the chart that is not nought.
GetRevenueTrend(s) ==
    [revenueKobo |-> SumKobo(Kept(s)), orders |-> Cardinality(PaidFor(s))]

\* Unpaid and cancelled orders sell too.
GetTopProducts(s) == SumFunctionOnSet(ItemsKobo, GetVendorSales(s))

-----------------------------------------------------------------------------

\* What a buyer is shown of the escrow goes one way, and "reversed" is the end of it.
ShownStep(from, to) ==
    \/ to = from
    \/ from = "held" /\ to \in {"released", "reversed"}
    \/ from = "released" /\ to = "reversed"

\* An order is shown to its vendor from the payment on, and never again among the abandoned:
\* the unpaid sweep, a late payment and a vendor moving the order on overlap.
PaidAreListed ==
    \A s \in Store :
        /\ PaidFor(s) \subseteq ListedByVendor(s)
        /\ PaidFor(s) \cap Abandoned(s) = {}

\* The dashboard is computed anew by every request, and still never goes back on what it has
\* shown: an order listed stays listed, the customers' and the chart's orders and what they
\* spent only grow, and the revenue falls by nothing but an order being cancelled.  What the
\* admin sees received or refunded stays so, and the buyer's view of the escrow and the
\* dispatch does not turn back.  An order GoMarketi delivers stays GoMarketi's; a vendor's may
\* become GoMarketi's, by a request for another store under its reference.
FiguresStep ==
    /\ \A s \in Store :
        /\ ListedByVendor(s) \subseteq ListedByVendor(s)'
        /\ GetCustomer(s).totalOrders <= GetCustomer(s)'.totalOrders
        /\ GetCustomer(s).totalSpentKobo <= GetCustomer(s)'.totalSpentKobo
        /\ GetRevenueTrend(s).orders <= GetRevenueTrend(s)'.orders
        /\ GetTopProducts(s) <= GetTopProducts(s)'
        /\ GetAnalyticsOverview(s)'.revenueKobo < GetAnalyticsOverview(s).revenueKobo =>
               \E o \in Kept(s) : orders'[o].status = "cancelled"
    /\ \A r \in Ref : \A o \in DOMAIN GetBatch(r) :
        /\ o \in DOMAIN GetBatch(r)'
        /\ GetBatch(r)[o].row.hub => GetBatch(r)'[o].row.hub
        /\ GetBatch(r)[o].row.refundRef => GetBatch(r)'[o].row.refundRef
    /\ \A o \in DOMAIN GetMyOrders :
        /\ GetPublicOrder(o)' # {}
        /\ ShownStep(GetMyOrders[o].escrow, GetMyOrders'[o].escrow)
        /\ GetMyOrders[o].fulfilment = "gomarketi" => GetMyOrders'[o].fulfilment = "gomarketi"
        /\ GetMyOrders[o].dispatched => GetMyOrders'[o].dispatched

\* What the dashboards show follows the rows forward only (orderColumns, paidOnly).
FiguresHold == []PaidAreListed /\ [][FiguresStep]_vars

=============================================================================
