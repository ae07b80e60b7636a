-------------------------------- MODULE Escrow --------------------------------
(***************************************************************************)
(* The three ways a held credit becomes the vendor's: the buyer confirms   *)
(* receipt, an admin releases it by hand, or the hourly sweep finds the    *)
(* order dispatched longer ago than escrowAutoReleaseWindow.  The sweep's  *)
(* select and its two updates per order commit separately.                 *)
(***************************************************************************)
EXTENDS OrderTables

\* Mutant: receipt may be confirmed before the dispatch.
ConfirmDeliveryEarly(o) ==
    /\ orders[o].status \in {"at_hub", "shipped", "ready_for_collection"}
    /\ orders' = [orders EXCEPT ![o] = [@ EXCEPT !.status = "delivered", !.confirmed = TRUE]]
    /\ wallet' = ReleaseCredit({o})
    /\ UNCHANGED <<charged, refunds, overridden, task>>

\* One transaction under SELECT ... FOR UPDATE.
ConfirmDelivery(o) ==
    /\ orders[o].status \in {"shipped", "ready_for_collection"}
    /\ orders' = [orders EXCEPT ![o] = [@ EXCEPT !.status = "delivered", !.confirmed = TRUE]]
    /\ wallet' = ReleaseCredit({o})
    /\ UNCHANGED <<charged, refunds, overridden, task>>

\* admin-api's manual override: the wallet row alone.
ReleaseEscrow(o) ==
    /\ wallet[o].status = "pending"
    /\ wallet' = ReleaseCredit({o})
    /\ overridden' = overridden \cup {o}
    /\ UNCHANGED <<orders, charged, refunds, task>>

\* Seven days pass since dispatched_at.
WindowPasses(o) ==
    /\ orders[o].dispatched = "recent"
    /\ orders' = [orders EXCEPT ![o].dispatched = "overdue"]
    /\ UNCHANGED <<wallet, charged, refunds, overridden, task>>

\* Mutant: a dispute blocks the release even after it was dismissed.
OverdueUndisputed(o) ==
    /\ orders[o].status = "shipped"
    /\ orders[o].dispatched = "overdue"
    /\ ~orders[o].confirmed
    /\ orders[o].dispute = "none"

Overdue(o) ==
    /\ orders[o].status = "shipped"
    /\ orders[o].dispatched = "overdue"
    /\ ~orders[o].confirmed
    /\ orders[o].dispute # "reported"

SweepSelect(w) ==
    /\ \E o \in Order : Overdue(o)
    /\ Start(w, [op |-> "sweep", todo |-> {o \in Order : Overdue(o)}])
    /\ UNCHANGED <<orders, wallet, charged, refunds, overridden>>

Sweeping(todo) == IF todo = {} THEN Idle ELSE [op |-> "sweep", todo |-> todo]

\* Mutant: the order is marked and its credit forgotten.
SweepMarkOnly(w) ==
    /\ task[w].op = "sweep"
    /\ \E o \in task[w].todo :
        /\ orders' = IF orders[o].status = "shipped"
                     THEN [orders EXCEPT ![o] = [@ EXCEPT !.status = "delivered", !.confirmed = TRUE]]
                     ELSE orders
        /\ Become(w, Sweeping(task[w].todo \ {o}))
    /\ UNCHANGED <<wallet, charged, refunds, overridden>>

\* UPDATE orders ... WHERE id = o AND status = 'shipped'; the number of rows it
\* touched is not looked at.
SweepMarkDelivered(w) ==
    /\ task[w].op = "sweep"
    /\ \E o \in task[w].todo :
        /\ orders' = IF orders[o].status = "shipped"
                     THEN [orders EXCEPT ![o] = [@ EXCEPT !.status = "delivered", !.confirmed = TRUE]]
                     ELSE orders
        /\ Become(w, [op |-> "sweepPay", order |-> o, todo |-> task[w].todo \ {o}])
    /\ UNCHANGED <<wallet, charged, refunds, overridden>>

SweepReleaseWallet(w) ==
    /\ task[w].op = "sweepPay"
    /\ wallet' = ReleaseCredit({task[w].order})
    /\ Become(w, Sweeping(task[w].todo))
    /\ UNCHANGED <<orders, charged, refunds, overridden>>

\* A failed statement is logged and the loop goes on with the next order.
SweepStatementFails(w) ==
    /\ \/ /\ task[w].op = "sweep"
          /\ \E o \in task[w].todo : Become(w, Sweeping(task[w].todo \ {o}))
       \/ /\ task[w].op = "sweepPay"
          /\ Become(w, Sweeping(task[w].todo))
    /\ UNCHANGED <<orders, wallet, charged, refunds, overridden>>

ReleaseOverdueEscrow(w) == SweepSelect(w) \/ SweepMarkDelivered(w) \/ SweepReleaseWallet(w)
=============================================================================
