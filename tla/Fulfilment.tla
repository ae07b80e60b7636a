------------------------------ MODULE Fulfilment ------------------------------
(***************************************************************************)
(* Orders moving towards the buyer: the vendor's status updates in the     *)
(* orders service, and the hub operations of admin-api, which write the    *)
(* same rows directly.                                                     *)
(***************************************************************************)
EXTENDS Refunds

-----------------------------------------------------------------------------
(* The vendor. *)

\* Mutant: who delivers is not looked at.
VendorMayShipAny(o, want) ==
    \/ want \in {"confirmed", "cancelled"}
    \/ want = "ready_for_collection" /\ o \in Pickup
    \/ want = "shipped" /\ o \notin Pickup

\* vendorMaySet looks at who delivers and whether the buyer collects, never at
\* the order's current status.
VendorMaySet(o, want) ==
    \/ want \in {"confirmed", "cancelled"}
    \/ want = "ready_for_collection" /\ o \in Pickup
    \/ want = "shipped" /\ o \notin Pickup /\ ~GoMarketiDelivers(o)

\* UpdateOrderStatus up to its write.
UpdateOrderStatusRead(w, o, want) ==
    /\ orders[o].status # "unplaced"
    /\ VendorMaySet(o, want)
    /\ Start(w, [op |-> "vendor", order |-> o, want |-> want])
    /\ UNCHANGED <<orders, wallet, charged, refunds, overridden>>

\* dispatched_at = COALESCE(dispatched_at, NOW()) when the update dispatches.
Dispatched(o, want) ==
    IF want \in {"shipped", "ready_for_collection"} /\ orders[o].dispatched = "no"
    THEN "recent" ELSE orders[o].dispatched

\* The UPDATE commits on its own; a cancellation goes on to cancelAndRefund.
UpdateOrderStatusWrite(w) ==
    /\ task[w].op = "vendor"
    /\ LET o == task[w].order
           want == task[w].want
       IN  /\ orders' = [orders EXCEPT ![o] = [@ EXCEPT !.status = want, !.dispatched = Dispatched(o, want)]]
           /\ Become(w, IF want = "cancelled" THEN Cancelling("cancelRead", o, {}, {}) ELSE Idle)
    /\ UNCHANGED <<wallet, charged, refunds, overridden>>

-----------------------------------------------------------------------------
(* The hub. *)

HubIntake(o) ==
    /\ orders[o].status = "confirmed"
    /\ orders' = [orders EXCEPT ![o] = [@ EXCEPT !.status = "at_hub", !.hub = TRUE]]
    /\ UNCHANGED <<wallet, charged, refunds, overridden, task>>

\* dispatchBatch reads every order of the batch once, then works through them.
DispatchRead(w, r) ==
    LET batch == {o \in OnRef(r) : orders[o].status \in {"confirmed", "at_hub"}}
        atHub == {o \in batch : orders[o].hub}
    IN  /\ batch # {}
        /\ Start(w, [op |-> "dispatch", ship |-> atHub, noshow |-> batch \ atHub])
        /\ UNCHANGED <<orders, wallet, charged, refunds, overridden>>

Dispatching(ship, noshow) ==
    IF ship \cup noshow = {} THEN Idle ELSE [op |-> "dispatch", ship |-> ship, noshow |-> noshow]

\* The UPDATE tests nothing but the id and restarts the escrow clock.
DispatchShip(w) ==
    /\ task[w].op = "dispatch"
    /\ \E o \in task[w].ship :
        /\ orders' = [orders EXCEPT ![o] = [@ EXCEPT !.status = "shipped", !.dispatched = "recent"]]
        /\ Become(w, Dispatching(task[w].ship \ {o}, task[w].noshow))
    /\ UNCHANGED <<wallet, charged, refunds, overridden>>

\* callNoShowRefund: the internal request to the orders service, awaited.
DispatchNoShow(w) ==
    /\ task[w].op = "dispatch"
    /\ \E o \in task[w].noshow :
        Become(w, Cancelling("cancelRead", o, task[w].ship, task[w].noshow \ {o}))
    /\ UNCHANGED <<orders, wallet, charged, refunds, overridden>>

-----------------------------------------------------------------------------

UpdateOrderStatus(w) ==
    \/ \E o \in Order, want \in VendorStatus : UpdateOrderStatusRead(w, o, want)
    \/ UpdateOrderStatusWrite(w)

DispatchBatch(w) ==
    \/ \E r \in Ref : DispatchRead(w, r)
    \/ DispatchShip(w)
    \/ DispatchNoShow(w)
=============================================================================
