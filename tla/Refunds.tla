-------------------------------- MODULE Refunds --------------------------------
(***************************************************************************)
(* The buyer's money going back: a buyer reporting a dispatched order      *)
(* missing, an admin dismissing or refunding that dispute, and the shared  *)
(* cancelAndRefund behind a vendor's cancellation and a no-show at         *)
(* dispatch.  Both refunds read the order without a lock, call Paystack,   *)
(* and only then record the outcome in one transaction.                    *)
(***************************************************************************)
EXTENDS OrderTables

-----------------------------------------------------------------------------
(* Disputes. *)

\* ReportMissing up to its write.  A dispute already open returns early and one
\* already resolved is an error: neither writes.
ReportMissingRead(w, o) ==
    /\ orders[o].status \in {"shipped", "delivered"}
    /\ orders[o].dispute = "none"
    /\ Start(w, [op |-> "report", order |-> o])
    /\ UNCHANGED <<orders, wallet, charged, refunds, overridden>>

\* The UPDATE tests nothing but the id.
ReportMissingWrite(w) ==
    /\ task[w].op = "report"
    /\ orders' = [orders EXCEPT ![task[w].order].dispute = "reported"]
    /\ Finish(w)
    /\ UNCHANGED <<wallet, charged, refunds, overridden>>

DismissDispute(o) ==
    /\ orders[o].dispute = "reported"
    /\ orders' = [orders EXCEPT ![o].dispute = "dismissed"]
    /\ UNCHANGED <<wallet, charged, refunds, overridden, task>>

DisputeRefundRead(w, o) ==
    /\ orders[o].dispute = "reported"
    /\ Start(w, [op |-> "disputeCall", order |-> o])
    /\ UNCHANGED <<orders, wallet, charged, refunds, overridden>>

DisputeRefundTx(w) ==
    /\ task[w].op = "disputeTx"
    /\ LET o == task[w].order
       IN  /\ orders' = [orders EXCEPT ![o] =
                   [@ EXCEPT !.status = "cancelled", !.dispute = "refunded", !.refundRef = TRUE]]
           /\ wallet' = VoidCredit(o, {"pending", "completed"})
    /\ Finish(w)
    /\ UNCHANGED <<charged, refunds, overridden>>

-----------------------------------------------------------------------------
(* cancelAndRefund. *)

\* What a worker does after cancelAndRefund returns: the rest of the batch
\* dispatch that asked for it, or nothing.
Resume(t) ==
    IF t.ship \cup t.noshow = {} THEN Idle
    ELSE [op |-> "dispatch", ship |-> t.ship, noshow |-> t.noshow]

Cancelling(op, o, ship, noshow) == [op |-> op, order |-> o, ship |-> ship, noshow |-> noshow]

\* A cancelled order is returned untouched, a dispatched one is an error, any
\* other goes on to Paystack.
CancelRead(w) ==
    /\ task[w].op = "cancelRead"
    /\ LET t == task[w]
       IN  IF orders[t.order].status \in {"cancelled", "shipped", "delivered"}
           THEN Become(w, Resume(t))
           ELSE Become(w, [t EXCEPT !.op = "cancelCall"])
    /\ UNCHANGED <<orders, wallet, charged, refunds, overridden>>

CancelTx(w) ==
    /\ task[w].op = "cancelTx"
    /\ LET o == task[w].order
       IN  /\ orders' = [orders EXCEPT ![o] = [@ EXCEPT !.status = "cancelled", !.refundRef = TRUE]]
           /\ wallet' = VoidCredit(o, {"pending"})
    /\ Become(w, Resume(task[w]))
    /\ UNCHANGED <<charged, refunds, overridden>>

-----------------------------------------------------------------------------
(* refundPaystackTransaction, for either refund. *)

\* Mutant: every refund is recorded as a cancellation's.
AlwaysCancelTx(t) == [t EXCEPT !.op = "cancelTx"]

AfterRefund(t) ==
    IF t.op = "disputeCall" THEN [t EXCEPT !.op = "disputeTx"] ELSE [t EXCEPT !.op = "cancelTx"]

\* Mutant: the refund's error is not looked at.
IgnoreError(t) == AfterRefund(t)

AfterError(t) == IF t.op \in RefundOp THEN Resume(t) ELSE Idle

Refunding(w) == task[w].op \in {"disputeCall", "cancelCall"}

RefundAccepted(w) ==
    /\ Refunding(w)
    /\ PaystackCanRefund(task[w].order)
    /\ refunds' = [refunds EXCEPT ![task[w].order] = @ + 1]
    /\ Become(w, AfterRefund(task[w]))
    /\ UNCHANGED <<orders, wallet, charged, overridden>>

\* The 15-second client timeout fires after Paystack has accepted the refund.
RefundAnswerLost(w) ==
    /\ Refunding(w)
    /\ PaystackCanRefund(task[w].order)
    /\ refunds' = [refunds EXCEPT ![task[w].order] = @ + 1]
    /\ Become(w, AfterError(task[w]))
    /\ UNCHANGED <<orders, wallet, charged, overridden>>

RefundRejected(w) ==
    /\ Refunding(w)
    /\ ~PaystackCanRefund(task[w].order)
    /\ Become(w, AfterError(task[w]))
    /\ UNCHANGED <<orders, wallet, charged, refunds, overridden>>

\* A statement of cancelAndRefund fails: a dispatch notes the error and goes on.
CancelFails(w) ==
    /\ task[w].op \in RefundOp
    /\ Become(w, Resume(task[w]))
    /\ UNCHANGED <<orders, wallet, charged, refunds, overridden>>

-----------------------------------------------------------------------------

Disputes(w) ==
    \/ \E o \in Order : ReportMissingRead(w, o)
    \/ ReportMissingWrite(w)
    \/ \E o \in Order : DisputeRefundRead(w, o)
    \/ DisputeRefundTx(w)

CancelAndRefund(w) == CancelRead(w) \/ CancelTx(w)

PaystackRefund(w) == RefundAccepted(w) \/ RefundRejected(w)
=============================================================================
