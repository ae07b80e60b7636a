--------------------------- MODULE OrderSystemProofs ---------------------------
(* Theorems about OrderSystem and what Figures shows of it, for every set of orders, *)
(* stores and workers.                                                               *)
EXTENDS Figures, Sums, TLAPS

-----------------------------------------------------------------------------
(* Type correctness. *)

\* What a worker turns to keeps task well typed.
LEMMA TaskType ==
    ASSUME TypeOK, NEW w \in Worker, NEW t \in Task, task' = [task EXCEPT ![w] = t]
    PROVE  task' \in [Worker -> Task]
  BY DEF TypeOK

LEMMA IdleType == Idle \in Task
  BY DEF Task, Idle

LEMMA ResumeType ==
    ASSUME NEW t \in Task, t.op \in RefundOp
    PROVE  Resume(t) \in Task
<1>1. t \in [op: RefundOp, order: Order, ship: SUBSET Order, noshow: SUBSET Order]
  BY DEF Task, Idle, RefundOp
<1>2. QED
  BY <1>1 DEF Resume, Task, Idle

\* Every update of a row the handlers make, and a row put back in its table.
LEMMA RowType ==
    ASSUME NEW r \in Row, NEW s \in OrderStatus, NEW d \in {"no", "recent", "overdue"}
    PROVE  /\ [r EXCEPT !.status = s] \in Row
           /\ [r EXCEPT !.dispatched = d] \in Row
           /\ [r EXCEPT !.status = s, !.dispatched = d] \in Row
           /\ [r EXCEPT !.status = s, !.paid = TRUE] \in Row
           /\ [r EXCEPT !.status = s, !.hub = TRUE] \in Row
           /\ [r EXCEPT !.status = s, !.confirmed = TRUE] \in Row
           /\ [r EXCEPT !.status = s, !.refundRef = TRUE] \in Row
           /\ [r EXCEPT !.status = s, !.dispute = "refunded", !.refundRef = TRUE] \in Row
           /\ [r EXCEPT !.dispute = "reported"] \in Row
           /\ [r EXCEPT !.dispute = "dismissed"] \in Row
  BY DEF Row

LEMMA OrdersType ==
    ASSUME TypeOK, NEW o \in Order, NEW r \in Row, orders' = [orders EXCEPT ![o] = r]
    PROVE  orders' \in [Order -> Row]
  BY DEF TypeOK

\* The step of each shared statement on the wallet.
LEMMA ReleaseCreditType ==
    ASSUME TypeOK, NEW S PROVE ReleaseCredit(S) \in [Order -> Credit]
  BY DEF TypeOK, ReleaseCredit, Credit

LEMMA VoidCreditType ==
    ASSUME TypeOK, NEW o \in Order, NEW from PROVE VoidCredit(o, from) \in [Order -> Credit]
  BY DEF TypeOK, VoidCredit, Credit

\* What orders cost together is a number of kobo.
LEMMA SumKoboType == \A S \in SUBSET Order : SumKobo(S) \in Nat
<1> DEFINE F == [o \in Order |-> TotalKobo(o)]
<1>1. IsFiniteSet(Order) /\ F \in [Order -> Nat]
  BY OrderAssumption DEF TotalKobo
<1> HIDE DEF F
<1>2. QED
  BY <1>1, SumNat DEF SumKobo, F

\* Placing, paying, abandoning and confirming.
LEMMA BuyerType ==
    ASSUME TypeOK, Buyer \/ AbandonedSweep PROVE TypeOK'
<1>1. ASSUME NEW S, InsertOrders(S) PROVE TypeOK'
  BY <1>1 DEF TypeOK, InsertOrders, Row, OrderStatus, Unplaced
<1>2. ASSUME NEW r \in Ref, NEW S \in Basket, BuyerPays(r, S) PROVE TypeOK'
  <2>1. SumKobo(S) \in Nat
    BY BasketAssumption, SumKoboType
  <2>2. QED
    BY <1>2, <2>1 DEF TypeOK, BuyerPays
<1>3. ASSUME NEW S, MarkAbandonedOrders(S) PROVE TypeOK'
  BY <1>3 DEF TypeOK, MarkAbandonedOrders, Row, OrderStatus
<1>4. QED
  BY <1>1, <1>2, <1>3 DEF Buyer, AbandonedSweep, PlaceOrder, PlaceCheckout

LEMMA ConfirmPaymentType ==
    ASSUME TypeOK, NEW w \in Worker, ConfirmPayment(w) PROVE TypeOK'
<1>1. ASSUME NEW r \in Ref, ConfirmRead(w, r) PROVE TypeOK'
  <2>1. [op |-> "confirm", ref |-> r, targets |-> OnRef(r)] \in Task
    BY DEF Task, OnRef
  <2>2. task' \in [Worker -> Task]
    BY <1>1, <2>1, TaskType DEF ConfirmRead, Start
  <2>3. QED
    BY <1>1, <2>2 DEF TypeOK, ConfirmRead
<1>2. ASSUME ConfirmRefused(w) PROVE TypeOK'
  BY <1>2, IdleType DEF TypeOK, ConfirmRefused, Finish, Become
<1>3. ASSUME ConfirmCommit(w) PROVE TypeOK'
  <2>0. \A o \in Order : [orders[o] EXCEPT !.status = "confirmed", !.paid = TRUE] \in Row
    BY RowType DEF TypeOK, OrderStatus
  <2>1. orders' \in [Order -> Row]
    BY <1>3, <2>0 DEF TypeOK, ConfirmCommit
  <2>2. \A o \in Order : \A S : CreditKobo(o, S) \in Nat
    BY OrderAssumption DEF OrderAssumption, CreditKobo
  <2>3. wallet' \in [Order -> Credit]
    BY <1>3, <2>2 DEF TypeOK, ConfirmCommit, Credit
  <2>4. QED
    BY <1>3, <2>1, <2>3, IdleType DEF TypeOK, ConfirmCommit, Finish, Become
<1>4. QED
  BY <1>1, <1>2, <1>3 DEF ConfirmPayment

-----------------------------------------------------------------------------

\* The fields of a task, by its operation.
LEMMA TaskFields ==
    ASSUME NEW t \in Task
    PROVE  /\ t.op = "confirm" => t.targets \subseteq Order /\ t.ref \in Ref
           /\ t.op = "vendor" => t.order \in Order /\ t.want \in VendorStatus
           /\ t.op \in {"report", "disputeCall", "disputeTx"} \cup RefundOp => t.order \in Order
           /\ t.op \in {"report", "disputeCall", "disputeTx"} => t = [op |-> t.op, order |-> t.order]
           /\ t.op \in RefundOp \cup {"dispatch"} => t.ship \subseteq Order /\ t.noshow \subseteq Order
           /\ t.op \in RefundOp => t = Cancelling(t.op, t.order, t.ship, t.noshow)
           /\ t.op \in {"sweep", "sweepPay"} => t.todo \subseteq Order
           /\ t.op = "sweepPay" => t.order \in Order
  BY DEF Task, Idle, RefundOp, Cancelling

LEMMA CancellingType ==
    ASSUME NEW op \in RefundOp, NEW o \in Order, NEW A \in SUBSET Order, NEW B \in SUBSET Order
    PROVE  Cancelling(op, o, A, B) \in Task
  BY DEF Task, Cancelling

LEMMA DisputeTaskType ==
    ASSUME NEW op \in {"report", "disputeCall", "disputeTx"}, NEW o \in Order
    PROVE  [op |-> op, order |-> o] \in Task
  BY DEF Task

LEMMA RefundNextTask ==
    ASSUME NEW t \in Task
    PROVE  /\ t.op \in {"disputeCall", "cancelCall"} => AfterRefund(t) \in Task /\ AfterError(t) \in Task
           /\ t.op = "cancelRead" => [t EXCEPT !.op = "cancelCall"] \in Task
<1>1. ASSUME t.op = "disputeCall" PROVE AfterRefund(t) \in Task /\ AfterError(t) \in Task
  <2>1. [t EXCEPT !.op = "disputeTx"] = [op |-> "disputeTx", order |-> t.order] /\ t.order \in Order
    BY <1>1, TaskFields
  <2>2. [t EXCEPT !.op = "disputeTx"] \in Task
    BY <2>1, DisputeTaskType
  <2>3. QED
    BY <1>1, <2>2, IdleType DEF AfterRefund, AfterError, RefundOp
<1>2. ASSUME NEW op \in RefundOp, t.op \in RefundOp PROVE [t EXCEPT !.op = op] \in Task
  <2>1. /\ t = Cancelling(t.op, t.order, t.ship, t.noshow)
        /\ t.order \in Order /\ t.ship \subseteq Order /\ t.noshow \subseteq Order
    BY <1>2, TaskFields
  <2>2. [t EXCEPT !.op = op] = Cancelling(op, t.order, t.ship, t.noshow)
    BY <2>1 DEF Cancelling
  <2>3. QED
    BY <2>1, <2>2, CancellingType
<1>3. ASSUME t.op = "cancelCall" PROVE AfterRefund(t) \in Task /\ AfterError(t) \in Task
  BY <1>2, <1>3, ResumeType DEF AfterRefund, AfterError, RefundOp
<1>4. QED
  BY <1>1, <1>2, <1>3 DEF RefundOp

LEMMA DisputesType ==
    ASSUME TypeOK, NEW w \in Worker, Disputes(w) PROVE TypeOK'
<1> USE DEF TypeOK
<1>1. ASSUME NEW o \in Order, ReportMissingRead(w, o) \/ DisputeRefundRead(w, o) PROVE TypeOK'
  BY <1>1, DisputeTaskType DEF ReportMissingRead, DisputeRefundRead, Start
<1>2. ASSUME ReportMissingWrite(w) PROVE TypeOK'
  <2>1. task[w].order \in Order
    BY <1>2, TaskFields DEF ReportMissingWrite
  <2>2. orders' = [orders EXCEPT ![task[w].order] = [orders[task[w].order] EXCEPT !.dispute = "reported"]]
    BY <1>2 DEF ReportMissingWrite
  <2>3. [orders[task[w].order] EXCEPT !.dispute = "reported"] \in Row
    BY <2>1, RowType DEF OrderStatus
  <2>4. orders' \in [Order -> Row]
    BY <2>1, <2>2, <2>3
  <2>5. QED
    BY <1>2, <2>4, IdleType DEF ReportMissingWrite, Finish, Become
<1>3. ASSUME DisputeRefundTx(w) PROVE TypeOK'
  <2>1. task[w].order \in Order
    BY <1>3, TaskFields DEF DisputeRefundTx
  <2>2. wallet' \in [Order -> Credit]
    BY <1>3, <2>1, VoidCreditType DEF DisputeRefundTx
  <2>0. [orders[task[w].order] EXCEPT !.status = "cancelled", !.dispute = "refunded", !.refundRef = TRUE] \in Row
    BY <2>1, RowType DEF OrderStatus
  <2>3. orders' \in [Order -> Row]
    BY <1>3, <2>0, <2>1 DEF DisputeRefundTx
  <2>4. QED
    BY <1>3, <2>2, <2>3, IdleType DEF DisputeRefundTx, Finish, Become
<1>4. QED
  BY <1>1, <1>2, <1>3 DEF Disputes

LEMMA RefundsType ==
    ASSUME TypeOK, NEW w \in Worker,
           CancelAndRefund(w) \/ PaystackRefund(w) \/ RefundAnswerLost(w) \/ CancelFails(w)
    PROVE  TypeOK'
<1> USE DEF TypeOK
<1>1. ASSUME CancelRead(w) \/ CancelFails(w) PROVE TypeOK'
  BY <1>1, ResumeType, RefundNextTask DEF CancelRead, CancelFails, Become, RefundOp
<1>2. ASSUME CancelTx(w) PROVE TypeOK'
  <2>1. task[w].order \in Order
    BY <1>2, TaskFields DEF CancelTx, RefundOp
  <2>2. wallet' \in [Order -> Credit]
    BY <1>2, <2>1, VoidCreditType DEF CancelTx
  <2>3. orders' \in [Order -> Row]
    BY <1>2, <2>1, RowType, OrdersType DEF CancelTx, OrderStatus
  <2>4. QED
    BY <1>2, <2>2, <2>3, ResumeType DEF CancelTx, Become, RefundOp
<1>3. ASSUME RefundAccepted(w) \/ RefundAnswerLost(w) \/ RefundRejected(w) PROVE TypeOK'
  <2>1. AfterRefund(task[w]) \in Task /\ AfterError(task[w]) \in Task
    BY <1>3, RefundNextTask DEF RefundAccepted, RefundAnswerLost, RefundRejected, Refunding
  <2>2. task' \in [Worker -> Task]
    BY <1>3, <2>1 DEF RefundAccepted, RefundAnswerLost, RefundRejected, Become
  <2>3. refunds' \in [Order -> Nat]
    BY <1>3 DEF RefundAccepted, RefundAnswerLost, RefundRejected
  <2>4. QED
    BY <1>3, <2>2, <2>3 DEF RefundAccepted, RefundAnswerLost, RefundRejected
<1>4. QED
  BY <1>1, <1>2, <1>3 DEF CancelAndRefund, PaystackRefund

-----------------------------------------------------------------------------

LEMMA DispatchTaskType ==
    ASSUME NEW A \in SUBSET Order, NEW B \in SUBSET Order
    PROVE  [op |-> "dispatch", ship |-> A, noshow |-> B] \in Task /\ Dispatching(A, B) \in Task
  BY IdleType DEF Task, Dispatching

LEMMA FulfilmentType ==
    ASSUME TypeOK, NEW w \in Worker, UpdateOrderStatus(w) \/ DispatchBatch(w) PROVE TypeOK'
<1> USE DEF TypeOK
<1>1. ASSUME NEW o \in Order, NEW want \in VendorStatus, UpdateOrderStatusRead(w, o, want) PROVE TypeOK'
  <2>1. [op |-> "vendor", order |-> o, want |-> want] \in Task
    BY DEF Task
  <2>2. QED
    BY <1>1, <2>1 DEF UpdateOrderStatusRead, Start
<1>2. ASSUME UpdateOrderStatusWrite(w) PROVE TypeOK'
  <2>1. task[w].order \in Order /\ task[w].want \in VendorStatus
    BY <1>2, TaskFields DEF UpdateOrderStatusWrite
  <2>2. orders' \in [Order -> Row]
    <3>1. Dispatched(task[w].order, task[w].want) \in {"no", "recent", "overdue"}
      BY <2>1 DEF Dispatched, Row
    <3>2. QED
      BY <1>2, <2>1, <3>1, RowType, OrdersType DEF UpdateOrderStatusWrite, OrderStatus, VendorStatus
  <2>3. Cancelling("cancelRead", task[w].order, {}, {}) \in Task
    BY <2>1, CancellingType DEF RefundOp
  <2>4. QED
    BY <1>2, <2>2, <2>3, IdleType DEF UpdateOrderStatusWrite, Become
<1>3. ASSUME NEW r \in Ref, DispatchRead(w, r) PROVE TypeOK'
  BY <1>3, DispatchTaskType DEF DispatchRead, Start, OnRef
<1>4. ASSUME DispatchShip(w) PROVE TypeOK'
  <2>1. task[w].ship \subseteq Order /\ task[w].noshow \subseteq Order
    BY <1>4, TaskFields DEF DispatchShip
  <2>2. PICK o \in task[w].ship :
            /\ orders' = [orders EXCEPT ![o] = [@ EXCEPT !.status = "shipped", !.dispatched = "recent"]]
            /\ Become(w, Dispatching(task[w].ship \ {o}, task[w].noshow))
    BY <1>4 DEF DispatchShip
  <2>3. orders' \in [Order -> Row]
    BY <2>1, <2>2, RowType, OrdersType DEF OrderStatus
  <2>4. task[w].ship \ {o} \in SUBSET Order /\ task[w].noshow \in SUBSET Order
    BY <2>1
  <2>5. Dispatching(task[w].ship \ {o}, task[w].noshow) \in Task
    BY <2>4, DispatchTaskType
  <2>6. QED
    BY <1>4, <2>2, <2>3, <2>5 DEF DispatchShip, Become
<1>5. ASSUME DispatchNoShow(w) PROVE TypeOK'
  <2>1. task[w].ship \subseteq Order /\ task[w].noshow \subseteq Order
    BY <1>5, TaskFields DEF DispatchNoShow
  <2>2. task' \in [Worker -> Task]
    BY <1>5, <2>1, CancellingType DEF DispatchNoShow, Become, RefundOp
  <2>3. QED
    BY <1>5, <2>2 DEF DispatchNoShow
<1>6. QED
  BY <1>1, <1>2, <1>3, <1>4, <1>5 DEF UpdateOrderStatus, DispatchBatch

-----------------------------------------------------------------------------

LEMMA SweepTaskType ==
    ASSUME NEW S \in SUBSET Order, NEW o \in Order
    PROVE  /\ [op |-> "sweep", todo |-> S] \in Task
           /\ Sweeping(S) \in Task
           /\ [op |-> "sweepPay", order |-> o, todo |-> S] \in Task
  BY IdleType DEF Task, Sweeping

LEMMA SweepType ==
    ASSUME TypeOK, NEW w \in Worker, ReleaseOverdueEscrow(w) \/ SweepStatementFails(w) PROVE TypeOK'
<1> USE DEF TypeOK
<1>1. ASSUME SweepSelect(w) PROVE TypeOK'
  BY <1>1, SweepTaskType DEF SweepSelect, Start
<1>2. ASSUME SweepMarkDelivered(w) PROVE TypeOK'
  <2>1. task[w].todo \subseteq Order
    BY <1>2, TaskFields DEF SweepMarkDelivered
  <2>2. PICK o \in task[w].todo :
            /\ orders' = IF orders[o].status = "shipped"
                         THEN [orders EXCEPT ![o] = [@ EXCEPT !.status = "delivered", !.confirmed = TRUE]]
                         ELSE orders
            /\ Become(w, [op |-> "sweepPay", order |-> o, todo |-> task[w].todo \ {o}])
    BY <1>2 DEF SweepMarkDelivered
  <2>3. orders' \in [Order -> Row]
    BY <2>1, <2>2, RowType, OrdersType DEF OrderStatus
  <2>4. task[w].todo \ {o} \in SUBSET Order /\ o \in Order
    BY <2>1
  <2>5. [op |-> "sweepPay", order |-> o, todo |-> task[w].todo \ {o}] \in Task
    BY <2>4, SweepTaskType
  <2>6. QED
    BY <1>2, <2>2, <2>3, <2>5 DEF SweepMarkDelivered, Become
<1>3. ASSUME SweepReleaseWallet(w) PROVE TypeOK'
  <2>1. task[w].todo \subseteq Order /\ task[w].order \in Order
    BY <1>3, TaskFields DEF SweepReleaseWallet
  <2>2. QED
    BY <1>3, <2>1, SweepTaskType, ReleaseCreditType DEF SweepReleaseWallet, Become
<1>4. ASSUME SweepStatementFails(w) PROVE TypeOK'
  <2>1. task[w].todo \subseteq Order
    BY <1>4, TaskFields DEF SweepStatementFails
  <2>2. \A S \in SUBSET Order : Sweeping(S) \in Task
    BY IdleType DEF Task, Sweeping
  <2>3. PICK S \in SUBSET Order : Become(w, Sweeping(S))
    BY <1>4, <2>1 DEF SweepStatementFails
  <2>4. QED
    BY <1>4, <2>2, <2>3 DEF SweepStatementFails, Become
<1>5. QED
  BY <1>1, <1>2, <1>3, <1>4 DEF ReleaseOverdueEscrow

\* Requests that are one transaction, and the passing of time.
LEMMA AtomicType ==
    ASSUME TypeOK, NEW o \in Order,
           \/ ConfirmDelivery(o) \/ ReleaseEscrow(o) \/ DismissDispute(o) \/ HubIntake(o)
           \/ WindowPasses(o)
    PROVE  TypeOK'
<1> USE DEF TypeOK
<1>1. ASSUME ConfirmDelivery(o) PROVE TypeOK'
  <2>1. orders' \in [Order -> Row]
    BY <1>1, RowType, OrdersType DEF ConfirmDelivery, OrderStatus
  <2>2. wallet' \in [Order -> Credit]
    BY <1>1, ReleaseCreditType DEF ConfirmDelivery
  <2>3. QED
    BY <1>1, <2>1, <2>2 DEF ConfirmDelivery
<1>2. ASSUME ReleaseEscrow(o) PROVE TypeOK'
  BY <1>2, ReleaseCreditType DEF ReleaseEscrow
<1>3. ASSUME DismissDispute(o) \/ HubIntake(o) \/ WindowPasses(o) PROVE TypeOK'
  <2>1. orders' \in [Order -> Row]
    <3>1. CASE DismissDispute(o)
      BY <3>1 DEF DismissDispute, Row
    <3>2. CASE HubIntake(o)
      BY <3>2, RowType, OrdersType DEF HubIntake, OrderStatus
    <3>3. CASE WindowPasses(o)
      BY <3>3 DEF WindowPasses, Row
    <3>4. QED
      BY <1>3, <3>1, <3>2, <3>3
  <2>2. QED
    BY <1>3, <2>1 DEF DismissDispute, HubIntake, WindowPasses
<1>4. QED
  BY <1>1, <1>2, <1>3

LEMMA InitType == Init => TypeOK
  BY DEF Init, TypeOK, Unplaced, Row, Credit, Task, Idle

LEMMA NextType == TypeOK /\ [SystemNext]_vars => TypeOK'
<1> SUFFICES ASSUME TypeOK, [SystemNext]_vars PROVE TypeOK'
  OBVIOUS
<1>1. CASE UNCHANGED vars
  BY <1>1 DEF vars, TypeOK
<1>2. CASE Atomic \/ \E o \in Order : WindowPasses(o)
  BY <1>2, BuyerType, AtomicType DEF Atomic
<1>3. ASSUME NEW w \in Worker, Handler(w) PROVE TypeOK'
  BY <1>3, ConfirmPaymentType, FulfilmentType, RefundsType, DisputesType, SweepType DEF Handler
<1>4. ASSUME NEW w \in Worker, Fault(w) PROVE TypeOK'
  <2>1. CASE Fail(w)
    BY <2>1, IdleType DEF Fail, Finish, Become, TypeOK
  <2>2. QED
    BY <1>4, <2>1, RefundsType, SweepType DEF Fault
<1>5. QED
  BY <1>1, <1>2, <1>3, <1>4 DEF SystemNext, SystemStep

\* The tables, Paystack's books and every handler's memory keep their types.
THEOREM TypeCorrect == SystemSpec => []TypeOK
  BY InitType, NextType, PTL DEF SystemSpec

-----------------------------------------------------------------------------
(* The escrow invariant. *)

\* The columns each update leaves in a row.
LEMMA RowFields ==
    ASSUME NEW r \in Row, NEW s, NEW d
    PROVE  /\ LET n == [r EXCEPT !.status = s]
              IN  n.status = s /\ n.paid = r.paid /\ n.dispatched = r.dispatched
                  /\ n.dispute = r.dispute /\ n.refundRef = r.refundRef
           /\ LET n == [r EXCEPT !.status = s, !.paid = TRUE]
              IN  n.status = s /\ n.paid = TRUE /\ n.dispatched = r.dispatched
                  /\ n.dispute = r.dispute /\ n.refundRef = r.refundRef
           /\ LET n == [r EXCEPT !.status = s, !.hub = TRUE]
              IN  n.status = s /\ n.paid = r.paid /\ n.dispatched = r.dispatched
                  /\ n.dispute = r.dispute /\ n.refundRef = r.refundRef
           /\ LET n == [r EXCEPT !.status = s, !.confirmed = TRUE]
              IN  n.status = s /\ n.paid = r.paid /\ n.dispatched = r.dispatched
                  /\ n.dispute = r.dispute /\ n.refundRef = r.refundRef
           /\ LET n == [r EXCEPT !.status = s, !.dispatched = d]
              IN  n.status = s /\ n.paid = r.paid /\ n.dispatched = d
                  /\ n.dispute = r.dispute /\ n.refundRef = r.refundRef
           /\ LET n == [r EXCEPT !.dispatched = d]
              IN  n.status = r.status /\ n.paid = r.paid /\ n.dispatched = d
                  /\ n.dispute = r.dispute /\ n.refundRef = r.refundRef
           /\ LET n == [r EXCEPT !.dispute = d]
              IN  n.status = r.status /\ n.paid = r.paid /\ n.dispatched = r.dispatched
                  /\ n.dispute = d /\ n.refundRef = r.refundRef
           /\ LET n == [r EXCEPT !.status = s, !.refundRef = TRUE]
              IN  n.status = s /\ n.paid = r.paid /\ n.dispatched = r.dispatched
                  /\ n.dispute = r.dispute /\ n.refundRef = TRUE
           /\ LET n == [r EXCEPT !.status = s, !.dispute = d, !.refundRef = TRUE]
              IN  n.status = s /\ n.paid = r.paid /\ n.dispatched = r.dispatched
                  /\ n.dispute = d /\ n.refundRef = TRUE
  BY DEF Row

\* A handler's belief survives every step that neither takes back a dispatch, nor
\* returns an order to checkout, nor forgets a refund.
LEMMA HandlersStep ==
    ASSUME TypeOK, HandlersSound, TypeOK',
           \A o \in Order : orders[o].dispatched # "no" => orders'[o].dispatched # "no",
           \A o \in Order : LeftCheckout(o) => LeftCheckout(o)',
           \A o \in Order : refunds[o] > 0 => refunds'[o] > 0,
           \A w \in Worker : task'[w] = task[w] \/ TaskSound(task[w])'
    PROVE  HandlersSound'
<1> SUFFICES ASSUME NEW w \in Worker, task'[w] = task[w] PROVE TaskSound(task[w])'
  BY DEF HandlersSound
<1>1. task[w] \in Task /\ TaskSound(task[w])
  BY DEF TypeOK, HandlersSound
<1>2. /\ task[w].op \in {"sweep", "sweepPay"} => task[w].todo \subseteq Order
      /\ task[w].op \in {"sweepPay", "report", "disputeCall", "disputeTx", "cancelTx"} => task[w].order \in Order
  BY <1>1, TaskFields DEF RefundOp
<1>3. QED
  BY <1>1, <1>2 DEF TaskSound

\* A step that changes only where one handler stands.
LEMMA QuietStep ==
    ASSUME TypeOK, EscrowInv, TypeOK', NEW w \in Worker,
           \A v \in Worker : v # w => task'[v] = task[v],
           TaskSound(task[w])',
           UNCHANGED <<orders, wallet, overridden>>,
           \A o \in Order : refunds'[o] = refunds[o] \/ refunds'[o] > refunds[o]
    PROVE  EscrowInv'
<1>1. \A o \in Order : refunds[o] > 0 => refunds'[o] > 0
  BY DEF TypeOK
<1>2. HandlersSound'
  <2>1. \A v \in Worker : task'[v] = task[v] \/ TaskSound(task[v])'
    OBVIOUS
  <2>2. QED
    BY <1>1, <2>1, HandlersStep DEF EscrowInv, LeftCheckout
<1>3. QED
  BY <1>1, <1>2 DEF EscrowInv, CreditIffPaid, ReleasedOnlyAfterDispatch, DisputeRefundVoidsCredit,
     RefundRecordedOnlyIfIssued, BlankUntilPlaced, ShippedIsDispatched, DisputedLeftCheckout, LeftCheckout

\* What a step may do to one order, its credit and its refunds so that both the
\* tables and the handlers stay sound.
RowStepSound(o) ==
    /\ orders[o].dispatched # "no" => orders'[o].dispatched # "no"
    /\ LeftCheckout(o) => LeftCheckout(o)'
    /\ refunds[o] > 0 => refunds'[o] > 0
    /\ orders'[o].paid <=> wallet'[o].status # "none"
    /\ wallet'[o].status = "completed" => orders'[o].dispatched # "no" \/ o \in overridden'
    /\ orders'[o].dispute = "refunded" => wallet'[o].status \notin {"pending", "completed"}
    /\ orders'[o].refundRef => refunds'[o] > 0
    /\ orders'[o].status = "unplaced" => orders'[o] = Unplaced
    /\ orders'[o].status \in {"shipped", "ready_for_collection"} => orders'[o].dispatched # "no"
    /\ orders'[o].dispute # "none" => LeftCheckout(o)'

LEMMA StepSound ==
    ASSUME TypeOK, EscrowInv, TypeOK',
           \A o \in Order : RowStepSound(o),
           \A w \in Worker : task'[w] = task[w] \/ TaskSound(task[w])'
    PROVE  EscrowInv'
<1>1. HandlersSound'
  BY HandlersStep DEF EscrowInv, RowStepSound
<1>2. QED
  BY <1>1 DEF RowStepSound, EscrowInv, CreditIffPaid, ReleasedOnlyAfterDispatch, DisputeRefundVoidsCredit,
     RefundRecordedOnlyIfIssued, BlankUntilPlaced, ShippedIsDispatched, DisputedLeftCheckout

\* An order and a credit no statement of the step touches.
LEMMA SameRow ==
    ASSUME EscrowInv, NEW o \in Order,
           orders'[o] = orders[o], wallet'[o] = wallet[o], refunds'[o] = refunds[o],
           overridden \subseteq overridden'
    PROVE  RowStepSound(o)
  BY DEF RowStepSound, EscrowInv, CreditIffPaid, ReleasedOnlyAfterDispatch, DisputeRefundVoidsCredit,
     RefundRecordedOnlyIfIssued, BlankUntilPlaced, ShippedIsDispatched, DisputedLeftCheckout, LeftCheckout

\* What the invariant says of one order.
LEMMA RowSound ==
    ASSUME EscrowInv, NEW o \in Order
    PROVE  /\ orders[o].paid <=> wallet[o].status # "none"
           /\ wallet[o].status = "completed" => orders[o].dispatched # "no" \/ o \in overridden
           /\ orders[o].dispute = "refunded" => wallet[o].status \notin {"pending", "completed"}
           /\ orders[o].refundRef => refunds[o] > 0
           /\ orders[o].status = "unplaced" => orders[o] = Unplaced
           /\ orders[o].status \in {"shipped", "ready_for_collection"} => orders[o].dispatched # "no"
           /\ orders[o].dispute # "none" => LeftCheckout(o)
  BY DEF EscrowInv, CreditIffPaid, ReleasedOnlyAfterDispatch, DisputeRefundVoidsCredit,
     RefundRecordedOnlyIfIssued, BlankUntilPlaced, ShippedIsDispatched, DisputedLeftCheckout

LEMMA InsertOrdersInv ==
    ASSUME TypeOK, EscrowInv, TypeOK', NEW S, InsertOrders(S)
    PROVE  EscrowInv'
<1>1. ASSUME NEW o \in Order PROVE RowStepSound(o)
  <2>1. CASE o \in S
    <3>1. orders[o].status = "unplaced" /\ wallet'[o] = wallet[o] /\ refunds'[o] = refunds[o]
      BY <2>1 DEF InsertOrders
    <3>2. orders'[o] = [Unplaced EXCEPT !.status = "awaiting_payment"]
      BY <2>1 DEF InsertOrders
    <3>3. QED
      BY <3>1, <3>2, RowSound DEF RowStepSound, Unplaced, LeftCheckout
  <2>2. CASE o \notin S
    BY <2>2, SameRow DEF InsertOrders
  <2>3. QED
    BY <2>1, <2>2
<1>2. QED
  BY <1>1, StepSound DEF InsertOrders

LEMMA MarkAbandonedInv ==
    ASSUME TypeOK, EscrowInv, TypeOK', NEW S, MarkAbandonedOrders(S)
    PROVE  EscrowInv'
<1>1. ASSUME NEW o \in Order PROVE RowStepSound(o)
  <2>1. CASE o \in S
    <3>1. orders[o].status = "awaiting_payment" /\ orders[o] \in Row
      BY <2>1 DEF MarkAbandonedOrders, TypeOK
    <3>2. orders'[o] = [orders[o] EXCEPT !.status = "abandoned"]
      BY <2>1 DEF MarkAbandonedOrders
    <3>3. UNCHANGED <<wallet, refunds, overridden>>
      BY DEF MarkAbandonedOrders
    <3>4. QED
      BY <3>1, <3>2, <3>3, RowSound, RowFields DEF RowStepSound, LeftCheckout
  <2>2. CASE o \notin S
    BY <2>2, SameRow DEF MarkAbandonedOrders
  <2>3. QED
    BY <2>1, <2>2
<1>2. QED
  BY <1>1, StepSound DEF MarkAbandonedOrders

LEMMA BuyerPaysInv ==
    ASSUME TypeOK, EscrowInv, TypeOK', NEW r, NEW S, BuyerPays(r, S)
    PROVE  EscrowInv'
  BY SameRow, StepSound DEF BuyerPays

LEMMA ConfirmCommitInv ==
    ASSUME TypeOK, EscrowInv, TypeOK', NEW w \in Worker, ConfirmCommit(w)
    PROVE  EscrowInv'
<1> DEFINE S == MarkedPaid(task[w].targets)
<1>1. UNCHANGED <<refunds, overridden>>
  BY DEF ConfirmCommit
<1>2. ASSUME NEW o \in Order PROVE RowStepSound(o)
  <2>1. CASE o \in S
    <3>1. Unpaid(o) /\ orders[o] \in Row
      BY <2>1 DEF MarkedPaid, TypeOK
    <3>2. orders'[o] = [orders[o] EXCEPT !.status = "confirmed", !.paid = TRUE]
      BY <2>1 DEF ConfirmCommit
    <3>3. IF wallet[o].status = "none" THEN wallet'[o].status = "pending" ELSE wallet'[o] = wallet[o]
      BY <2>1 DEF ConfirmCommit
    <3>4. /\ orders'[o].status = "confirmed" /\ orders'[o].paid = TRUE
          /\ orders'[o].dispatched = orders[o].dispatched
          /\ orders'[o].dispute = orders[o].dispute /\ orders'[o].refundRef = orders[o].refundRef
      BY <3>1, <3>2, RowFields
    <3>5. orders[o].dispute = "none"
      BY <3>1, RowSound DEF Unpaid, LeftCheckout
    <3>6. QED
      BY <1>1, <3>1, <3>3, <3>4, <3>5, RowSound DEF RowStepSound, LeftCheckout
  <2>2. CASE o \notin S
    BY <2>2, <1>1, SameRow DEF ConfirmCommit
  <2>3. QED
    BY <2>1, <2>2
<1>3. \A v \in Worker : task'[v] = task[v] \/ TaskSound(task[v])'
  BY DEF ConfirmCommit, Finish, Become, TypeOK, TaskSound, Idle
<1>4. QED
  BY <1>2, <1>3, StepSound

-----------------------------------------------------------------------------
(* Steps that write one order. *)

\* A row and its credit rewritten, the others left alone.
LEMMA OneRow ==
    ASSUME TypeOK, EscrowInv, TypeOK', NEW o \in Order, RowStepSound(o),
           \A p \in Order : p # o =>
               orders'[p] = orders[p] /\ wallet'[p] = wallet[p] /\ refunds'[p] = refunds[p],
           overridden \subseteq overridden',
           \A w \in Worker : task'[w] = task[w] \/ TaskSound(task[w])'
    PROVE  EscrowInv'
<1>1. \A p \in Order : RowStepSound(p)
  BY SameRow
<1>2. QED
  BY <1>1, StepSound

\* What ReleaseCredit and VoidCredit do to each credit.
LEMMA ReleaseCreditRows ==
    ASSUME TypeOK, NEW o \in Order, NEW p \in Order
    PROVE  /\ p # o => ReleaseCredit({o})[p] = wallet[p]
           /\ wallet[o].status = "pending" => ReleaseCredit({o})[o].status = "completed"
           /\ wallet[o].status # "pending" => ReleaseCredit({o})[o] = wallet[o]
  BY DEF ReleaseCredit, TypeOK, Credit

LEMMA VoidCreditRows ==
    ASSUME TypeOK, NEW o \in Order, NEW p \in Order, NEW from
    PROVE  /\ p # o => VoidCredit(o, from)[p] = wallet[p]
           /\ wallet[o].status \in from => VoidCredit(o, from)[o].status = "failed"
           /\ wallet[o].status \notin from => VoidCredit(o, from)[o] = wallet[o]
  BY DEF VoidCredit, TypeOK, Credit

LEMMA AtomicInv ==
    ASSUME TypeOK, EscrowInv, TypeOK', NEW o \in Order,
           \/ ConfirmDelivery(o) \/ ReleaseEscrow(o) \/ DismissDispute(o) \/ HubIntake(o)
           \/ WindowPasses(o)
    PROVE  EscrowInv'
<1> orders[o] \in Row
  BY DEF TypeOK
<1>1. CASE ConfirmDelivery(o)
  <2>1. /\ orders'[o] = [orders[o] EXCEPT !.status = "delivered", !.confirmed = TRUE]
        /\ \A p \in Order : p # o => orders'[p] = orders[p]
    BY <1>1 DEF ConfirmDelivery, TypeOK
  <2>2. UNCHANGED <<refunds, overridden, task>> /\ wallet' = ReleaseCredit({o})
    BY <1>1 DEF ConfirmDelivery
  <2>3. orders[o].status \in {"shipped", "ready_for_collection"}
    BY <1>1 DEF ConfirmDelivery
  <2>4. RowStepSound(o)
    BY <2>1, <2>2, <2>3, ReleaseCreditRows, RowSound, RowFields DEF RowStepSound, LeftCheckout
  <2>5. QED
    BY <2>1, <2>2, <2>4, ReleaseCreditRows, OneRow
<1>2. CASE ReleaseEscrow(o)
  <2>1. UNCHANGED <<orders, refunds, task>> /\ wallet' = ReleaseCredit({o}) /\ o \in overridden'
    BY <1>2 DEF ReleaseEscrow
  <2>2. wallet[o].status = "pending" /\ overridden \subseteq overridden'
    BY <1>2 DEF ReleaseEscrow
  <2>3. RowStepSound(o)
    BY <2>1, <2>2, ReleaseCreditRows, RowSound DEF RowStepSound, LeftCheckout
  <2>4. QED
    BY <2>1, <2>2, <2>3, ReleaseCreditRows, OneRow
<1>3. CASE DismissDispute(o)
  <2>1. /\ orders'[o] = [orders[o] EXCEPT !.dispute = "dismissed"]
        /\ \A p \in Order : p # o => orders'[p] = orders[p]
    BY <1>3 DEF DismissDispute, TypeOK
  <2>2. UNCHANGED <<wallet, refunds, overridden, task>> /\ orders[o].dispute = "reported"
    BY <1>3 DEF DismissDispute
  <2>3. RowStepSound(o)
    BY <2>1, <2>2, RowSound, RowFields DEF RowStepSound, LeftCheckout
  <2>4. QED
    BY <2>1, <2>2, <2>3, OneRow
<1>4. CASE HubIntake(o)
  <2>1. /\ orders'[o] = [orders[o] EXCEPT !.status = "at_hub", !.hub = TRUE]
        /\ \A p \in Order : p # o => orders'[p] = orders[p]
    BY <1>4 DEF HubIntake, TypeOK
  <2>2. UNCHANGED <<wallet, refunds, overridden, task>>
    BY <1>4 DEF HubIntake
  <2>3. RowStepSound(o)
    BY <2>1, <2>2, RowSound, RowFields DEF RowStepSound, LeftCheckout
  <2>4. QED
    BY <2>1, <2>2, <2>3, OneRow
<1>5. CASE WindowPasses(o)
  <2>1. /\ orders'[o] = [orders[o] EXCEPT !.dispatched = "overdue"]
        /\ \A p \in Order : p # o => orders'[p] = orders[p]
    BY <1>5 DEF WindowPasses, TypeOK
  <2>2. UNCHANGED <<wallet, refunds, overridden, task>> /\ orders[o].dispatched = "recent"
    BY <1>5 DEF WindowPasses
  <2>3. orders[o].status # "unplaced"
    BY <2>2, RowSound DEF Unplaced
  <2>4. RowStepSound(o)
    BY <2>1, <2>2, <2>3, RowSound, RowFields DEF RowStepSound, LeftCheckout
  <2>5. QED
    BY <2>1, <2>2, <2>4, OneRow
<1>6. QED
  BY <1>1, <1>2, <1>3, <1>4, <1>5

-----------------------------------------------------------------------------
(* Disputes and refunds. *)

\* The other handlers stay where they are, and w turns to t.
LEMMA Becomes ==
    ASSUME TypeOK, NEW w \in Worker, NEW t, task' = [task EXCEPT ![w] = t]
    PROVE  task'[w] = t /\ \A v \in Worker : v # w => task'[v] = task[v]
  BY DEF TypeOK

\* A worker that has gone idle, or back to its dispatch, relies on nothing.
LEMMA IdleSound ==
    ASSUME NEW w \in Worker, task'[w].op \in {"idle", "vendor", "dispatch", "cancelRead", "cancelCall"}
    PROVE  TaskSound(task[w])'
  BY DEF TaskSound

LEMMA ResumeSound ==
    ASSUME NEW w \in Worker, NEW t, task'[w] \in {Resume(t), Idle}
    PROVE  TaskSound(task[w])'
<1>1. Resume(t).op \in {"idle", "dispatch"} /\ Idle.op = "idle"
  BY DEF Resume, Idle
<1>2. QED
  BY <1>1, IdleSound

LEMMA DisputesInv ==
    ASSUME TypeOK, EscrowInv, TypeOK', NEW w \in Worker, Disputes(w)
    PROVE  EscrowInv'
<1> task[w] \in Task /\ TaskSound(task[w])
  BY DEF TypeOK, EscrowInv, HandlersSound
<1>1. ASSUME NEW o \in Order, ReportMissingRead(w, o) \/ DisputeRefundRead(w, o) PROVE EscrowInv'
  <2>1. UNCHANGED <<orders, wallet, refunds, overridden>>
    BY <1>1 DEF ReportMissingRead, DisputeRefundRead
  <2>2. LeftCheckout(o)
    BY <1>1, RowSound DEF ReportMissingRead, DisputeRefundRead, LeftCheckout
  <2>3. PICK op \in {"report", "disputeCall"} : task' = [task EXCEPT ![w] = [op |-> op, order |-> o]]
    BY <1>1 DEF ReportMissingRead, DisputeRefundRead, Start
  <2>4. task'[w] = [op |-> op, order |-> o] /\ \A v \in Worker : v # w => task'[v] = task[v]
    BY <2>3, Becomes
  <2>5. TaskSound(task[w])'
    BY <2>1, <2>2, <2>4 DEF TaskSound, LeftCheckout
  <2>6. QED
    BY <2>1, <2>4, <2>5, QuietStep
<1>2. ASSUME ReportMissingWrite(w) PROVE EscrowInv'
  <2>0. PICK o \in Order : o = task[w].order
    BY <1>2, TaskFields DEF ReportMissingWrite
  <2>1. LeftCheckout(o)
    BY <1>2, <2>0 DEF ReportMissingWrite, TaskSound
  <2>2. orders[o] \in Row
    BY DEF TypeOK
  <2>3. /\ orders'[o] = [orders[o] EXCEPT !.dispute = "reported"]
        /\ \A p \in Order : p # o => orders'[p] = orders[p]
    BY <1>2, <2>0 DEF ReportMissingWrite, TypeOK
  <2>4. UNCHANGED <<wallet, refunds, overridden>>
    BY <1>2 DEF ReportMissingWrite
  <2>5. RowStepSound(o)
    BY <2>1, <2>2, <2>3, <2>4, RowSound, RowFields DEF RowStepSound, LeftCheckout
  <2>6. \A v \in Worker : task'[v] = task[v] \/ TaskSound(task[v])'
    BY <1>2 DEF ReportMissingWrite, Finish, Become, TypeOK, TaskSound, Idle
  <2>7. QED
    BY <2>3, <2>4, <2>5, <2>6, OneRow
<1>3. ASSUME DisputeRefundTx(w) PROVE EscrowInv'
  <2>0. PICK o \in Order : o = task[w].order
    BY <1>3, TaskFields DEF DisputeRefundTx
  <2>1. LeftCheckout(o) /\ refunds[o] > 0
    BY <1>3, <2>0 DEF DisputeRefundTx, TaskSound
  <2>2. orders[o] \in Row
    BY DEF TypeOK
  <2>3. /\ orders'[o] = [orders[o] EXCEPT !.status = "cancelled", !.dispute = "refunded", !.refundRef = TRUE]
        /\ \A p \in Order : p # o => orders'[p] = orders[p]
    BY <1>3, <2>0 DEF DisputeRefundTx, TypeOK
  <2>4. UNCHANGED <<refunds, overridden>> /\ wallet' = VoidCredit(o, {"pending", "completed"})
    BY <1>3, <2>0 DEF DisputeRefundTx
  <2>5. RowStepSound(o)
    <3>1. /\ orders'[o].status = "cancelled" /\ orders'[o].paid = orders[o].paid
          /\ orders'[o].dispatched = orders[o].dispatched
          /\ orders'[o].dispute = "refunded" /\ orders'[o].refundRef = TRUE
      BY <2>2, <2>3, RowFields
    <3>2. /\ wallet'[o].status \notin {"pending", "completed"}
          /\ wallet'[o].status = "none" <=> wallet[o].status = "none"
      BY <2>4, VoidCreditRows
    <3>3. QED
      BY <2>1, <2>4, <3>1, <3>2, RowSound DEF RowStepSound, LeftCheckout
  <2>6. \A v \in Worker : task'[v] = task[v] \/ TaskSound(task[v])'
    BY <1>3 DEF DisputeRefundTx, Finish, Become, TypeOK, TaskSound, Idle
  <2>7. QED
    BY <2>3, <2>4, <2>5, <2>6, VoidCreditRows, OneRow
<1>4. QED
  BY <1>1, <1>2, <1>3 DEF Disputes

LEMMA RefundsInv ==
    ASSUME TypeOK, EscrowInv, TypeOK', NEW w \in Worker,
           CancelAndRefund(w) \/ PaystackRefund(w) \/ RefundAnswerLost(w) \/ CancelFails(w)
    PROVE  EscrowInv'
<1> task[w] \in Task /\ TaskSound(task[w])
  BY DEF TypeOK, EscrowInv, HandlersSound
<1>1. ASSUME CancelRead(w) \/ CancelFails(w) PROVE EscrowInv'
  <2>1. UNCHANGED <<orders, wallet, refunds, overridden>>
    BY <1>1 DEF CancelRead, CancelFails
  <2>2. CASE task' = [task EXCEPT ![w] = Resume(task[w])]
    <3>1. task'[w] = Resume(task[w]) /\ \A v \in Worker : v # w => task'[v] = task[v]
      BY <2>2, Becomes
    <3>2. TaskSound(task[w])'
      BY <3>1, ResumeSound
    <3>3. QED
      BY <2>1, <3>1, <3>2, QuietStep
  <2>3. CASE CancelRead(w) /\ task' = [task EXCEPT ![w] = [task[w] EXCEPT !.op = "cancelCall"]]
    <3>1. task[w] = Cancelling("cancelRead", task[w].order, task[w].ship, task[w].noshow)
      BY <2>3, TaskFields DEF CancelRead, RefundOp
    <3>2. [task[w] EXCEPT !.op = "cancelCall"].op = "cancelCall"
      BY <3>1 DEF Cancelling
    <3>3. task'[w].op = "cancelCall" /\ \A v \in Worker : v # w => task'[v] = task[v]
      BY <2>3, <3>2, Becomes
    <3>4. QED
      BY <2>1, <3>3, IdleSound, QuietStep
  <2>4. QED
    BY <1>1, <2>2, <2>3 DEF CancelRead, CancelFails, Become
<1>2. ASSUME CancelTx(w) PROVE EscrowInv'
  <2>0. PICK o \in Order : o = task[w].order
    BY <1>2, TaskFields DEF CancelTx, RefundOp
  <2>1. refunds[o] > 0
    BY <1>2, <2>0 DEF CancelTx, TaskSound
  <2>2. orders[o] \in Row
    BY DEF TypeOK
  <2>3. /\ orders'[o] = [orders[o] EXCEPT !.status = "cancelled", !.refundRef = TRUE]
        /\ \A p \in Order : p # o => orders'[p] = orders[p]
    BY <1>2, <2>0 DEF CancelTx, TypeOK
  <2>4. UNCHANGED <<refunds, overridden>> /\ wallet' = VoidCredit(o, {"pending"})
    BY <1>2, <2>0 DEF CancelTx
  <2>5. RowStepSound(o)
    <3>1. /\ orders'[o].status = "cancelled" /\ orders'[o].paid = orders[o].paid
          /\ orders'[o].dispatched = orders[o].dispatched
          /\ orders'[o].dispute = orders[o].dispute /\ orders'[o].refundRef = TRUE
      BY <2>2, <2>3, RowFields
    <3>2. \/ wallet[o].status = "pending" /\ wallet'[o].status = "failed"
          \/ wallet[o].status # "pending" /\ wallet'[o] = wallet[o]
      BY <2>4, VoidCreditRows
    <3>3. QED
      BY <2>1, <2>4, <3>1, <3>2, RowSound DEF RowStepSound, LeftCheckout
  <2>6. \A v \in Worker : task'[v] = task[v] \/ TaskSound(task[v])'
    <3>1. task'[w] = Resume(task[w]) /\ \A v \in Worker : v # w => task'[v] = task[v]
      BY <1>2, Becomes DEF CancelTx, Become
    <3>2. TaskSound(task[w])'
      BY <3>1, ResumeSound
    <3>3. QED
      BY <3>1, <3>2
  <2>7. QED
    BY <2>3, <2>4, <2>5, <2>6, VoidCreditRows, OneRow
<1>3. ASSUME RefundAccepted(w) \/ RefundAnswerLost(w) \/ RefundRejected(w) PROVE EscrowInv'
  <2>1. task[w].op \in {"disputeCall", "cancelCall"}
    BY <1>3 DEF RefundAccepted, RefundAnswerLost, RefundRejected, Refunding
  <2>0. PICK o \in Order : o = task[w].order
    <3>1. task[w].order \in Order
      BY <2>1, TaskFields DEF RefundOp
    <3>2. QED
      BY <3>1
  <2>2. UNCHANGED <<orders, wallet, overridden>>
    BY <1>3 DEF RefundAccepted, RefundAnswerLost, RefundRejected
  <2>3. \A p \in Order : refunds[p] \in Nat
    BY DEF TypeOK
  <2>4. \A p \in Order : refunds'[p] = refunds[p] \/ refunds'[p] > refunds[p]
    BY <1>3, <2>3 DEF RefundAccepted, RefundAnswerLost, RefundRejected, TypeOK
  <2>5. CASE RefundAccepted(w)
    <3>1. refunds'[o] > 0
      BY <2>0, <2>3, <2>5 DEF RefundAccepted, TypeOK
    <3>2. task'[w] = AfterRefund(task[w]) /\ \A v \in Worker : v # w => task'[v] = task[v]
      BY <2>5, Becomes DEF RefundAccepted, Become
    <3>3. CASE task[w].op = "disputeCall"
      <4>1. task[w] = [op |-> "disputeCall", order |-> o] /\ LeftCheckout(o)
        BY <2>0, <3>3, TaskFields DEF TaskSound
      <4>2. task'[w].op = "disputeTx" /\ task'[w].order = o
        BY <3>2, <3>3, <4>1 DEF AfterRefund
      <4>3. TaskSound(task[w])'
        BY <2>2, <3>1, <4>1, <4>2 DEF TaskSound, LeftCheckout
      <4>4. QED
        BY <2>2, <2>4, <3>2, <4>3, QuietStep
    <3>4. CASE task[w].op = "cancelCall"
      <4>1. task[w] = Cancelling("cancelCall", o, task[w].ship, task[w].noshow)
        BY <2>0, <3>4, TaskFields DEF RefundOp
      <4>2. task'[w].op = "cancelTx" /\ task'[w].order = o
        BY <3>2, <3>4, <4>1 DEF AfterRefund, Cancelling
      <4>3. TaskSound(task[w])'
        BY <3>1, <4>2 DEF TaskSound
      <4>4. QED
        BY <2>2, <2>4, <3>2, <4>3, QuietStep
    <3>5. QED
      BY <2>1, <3>3, <3>4
  <2>6. CASE RefundAnswerLost(w) \/ RefundRejected(w)
    <3>1. task'[w] = AfterError(task[w]) /\ \A v \in Worker : v # w => task'[v] = task[v]
      BY <2>6, Becomes DEF RefundAnswerLost, RefundRejected, Become
    <3>2. TaskSound(task[w])'
      BY <3>1, ResumeSound DEF AfterError
    <3>3. QED
      BY <2>2, <2>4, <3>1, <3>2, QuietStep
  <2>7. QED
    BY <1>3, <2>5, <2>6
<1>4. QED
  BY <1>1, <1>2, <1>3 DEF CancelAndRefund, PaystackRefund

-----------------------------------------------------------------------------
(* Confirming, the vendor, the hub and the sweep. *)

LEMMA ConfirmPaymentInv ==
    ASSUME TypeOK, EscrowInv, TypeOK', NEW w \in Worker, ConfirmPayment(w)
    PROVE  EscrowInv'
<1>1. ASSUME NEW r \in Ref, ConfirmRead(w, r) PROVE EscrowInv'
  <2>1. UNCHANGED <<orders, wallet, refunds, overridden>>
    BY <1>1 DEF ConfirmRead
  <2>2. /\ task'[w] = [op |-> "confirm", ref |-> r, targets |-> OnRef(r)]
        /\ \A v \in Worker : v # w => task'[v] = task[v]
    BY <1>1, Becomes DEF ConfirmRead, Start
  <2>3. TaskSound(task[w])'
    BY <2>2 DEF TaskSound
  <2>4. QED
    BY <2>1, <2>2, <2>3, QuietStep
<1>2. ASSUME ConfirmRefused(w) PROVE EscrowInv'
  <2>1. UNCHANGED <<orders, wallet, refunds, overridden>>
    BY <1>2 DEF ConfirmRefused
  <2>2. task'[w] = Idle /\ \A v \in Worker : v # w => task'[v] = task[v]
    BY <1>2, Becomes DEF ConfirmRefused, Finish, Become
  <2>3. TaskSound(task[w])'
    BY <2>2, ResumeSound
  <2>4. QED
    BY <2>1, <2>2, <2>3, QuietStep
<1>3. QED
  BY <1>1, <1>2, ConfirmCommitInv DEF ConfirmPayment

LEMMA UpdateOrderStatusInv ==
    ASSUME TypeOK, EscrowInv, TypeOK', NEW w \in Worker, UpdateOrderStatus(w)
    PROVE  EscrowInv'
<1>1. ASSUME NEW o \in Order, NEW want \in VendorStatus, UpdateOrderStatusRead(w, o, want) PROVE EscrowInv'
  <2>1. UNCHANGED <<orders, wallet, refunds, overridden>>
    BY <1>1 DEF UpdateOrderStatusRead
  <2>2. /\ task'[w] = [op |-> "vendor", order |-> o, want |-> want]
        /\ \A v \in Worker : v # w => task'[v] = task[v]
    BY <1>1, Becomes DEF UpdateOrderStatusRead, Start
  <2>3. TaskSound(task[w])'
    BY <2>2, IdleSound
  <2>4. QED
    BY <2>1, <2>2, <2>3, QuietStep
<1>2. ASSUME UpdateOrderStatusWrite(w) PROVE EscrowInv'
  <2>1. task[w] \in Task /\ task[w].op = "vendor"
    BY <1>2 DEF UpdateOrderStatusWrite, TypeOK
  <2>2. PICK o \in Order, want \in VendorStatus : o = task[w].order /\ want = task[w].want
    BY <2>1, TaskFields
  <2>3. orders[o] \in Row /\ Dispatched(o, want) \in {"no", "recent", "overdue"}
    BY DEF TypeOK, Dispatched, Row
  <2>4. /\ orders'[o] = [orders[o] EXCEPT !.status = want, !.dispatched = Dispatched(o, want)]
        /\ \A p \in Order : p # o => orders'[p] = orders[p]
    BY <1>2, <2>2 DEF UpdateOrderStatusWrite, TypeOK
  <2>5. UNCHANGED <<wallet, refunds, overridden>>
    BY <1>2 DEF UpdateOrderStatusWrite
  <2>6. RowStepSound(o)
    <3>1. /\ orders'[o].status = want /\ orders'[o].paid = orders[o].paid
          /\ orders'[o].dispatched = Dispatched(o, want)
          /\ orders'[o].dispute = orders[o].dispute /\ orders'[o].refundRef = orders[o].refundRef
      BY <2>3, <2>4, RowFields
    <3>2. /\ orders[o].dispatched # "no" => Dispatched(o, want) # "no"
          /\ want \in {"shipped", "ready_for_collection"} => Dispatched(o, want) # "no"
      BY DEF Dispatched
    <3>3. want \notin {"unplaced", "awaiting_payment", "abandoned"}
      BY DEF VendorStatus
    <3>4. QED
      BY <2>5, <3>1, <3>2, <3>3, RowSound DEF RowStepSound, LeftCheckout
  <2>7. \A v \in Worker : task'[v] = task[v] \/ TaskSound(task[v])'
    <3>1. /\ task'[w] \in {Cancelling("cancelRead", o, {}, {}), Idle}
          /\ \A v \in Worker : v # w => task'[v] = task[v]
      BY <1>2, <2>2, Becomes DEF UpdateOrderStatusWrite, Become
    <3>2. TaskSound(task[w])'
      BY <3>1 DEF TaskSound, Cancelling, Idle
    <3>3. QED
      BY <3>1, <3>2
  <2>8. QED
    BY <2>4, <2>5, <2>6, <2>7, OneRow
<1>3. QED
  BY <1>1, <1>2 DEF UpdateOrderStatus

LEMMA DispatchBatchInv ==
    ASSUME TypeOK, EscrowInv, TypeOK', NEW w \in Worker, DispatchBatch(w)
    PROVE  EscrowInv'
<1>1. ASSUME NEW r \in Ref, DispatchRead(w, r) PROVE EscrowInv'
  <2>1. UNCHANGED <<orders, wallet, refunds, overridden>>
    BY <1>1 DEF DispatchRead
  <2>2. task'[w].op = "dispatch" /\ \A v \in Worker : v # w => task'[v] = task[v]
    BY <1>1 DEF DispatchRead, Start, TypeOK
  <2>3. QED
    BY <2>1, <2>2, IdleSound, QuietStep
<1>2. ASSUME DispatchShip(w) PROVE EscrowInv'
  <2>1. task[w] \in Task /\ task[w].op = "dispatch"
    BY <1>2 DEF DispatchShip, TypeOK
  <2>2. PICK o \in task[w].ship :
            /\ orders' = [orders EXCEPT ![o] = [@ EXCEPT !.status = "shipped", !.dispatched = "recent"]]
            /\ Become(w, Dispatching(task[w].ship \ {o}, task[w].noshow))
    BY <1>2 DEF DispatchShip
  <2>3. o \in Order
    BY <2>1, <2>2, TaskFields
  <2>4. orders[o] \in Row
    BY <2>3 DEF TypeOK
  <2>5. /\ orders'[o] = [orders[o] EXCEPT !.status = "shipped", !.dispatched = "recent"]
        /\ \A p \in Order : p # o => orders'[p] = orders[p]
    BY <2>2, <2>3 DEF TypeOK
  <2>6. UNCHANGED <<wallet, refunds, overridden>>
    BY <1>2 DEF DispatchShip
  <2>7. RowStepSound(o)
    BY <2>3, <2>4, <2>5, <2>6, RowSound, RowFields DEF RowStepSound, LeftCheckout
  <2>8. \A v \in Worker : task'[v] = task[v] \/ TaskSound(task[v])'
    <3>1. /\ task'[w] = Dispatching(task[w].ship \ {o}, task[w].noshow)
          /\ \A v \in Worker : v # w => task'[v] = task[v]
      BY <2>2, Becomes DEF Become
    <3>2. task'[w].op \in {"idle", "dispatch"}
      BY <3>1 DEF Dispatching, Idle
    <3>3. QED
      BY <3>1, <3>2, IdleSound
  <2>9. QED
    BY <2>3, <2>5, <2>6, <2>7, <2>8, OneRow
<1>3. ASSUME DispatchNoShow(w) PROVE EscrowInv'
  <2>1. UNCHANGED <<orders, wallet, refunds, overridden>>
    BY <1>3 DEF DispatchNoShow
  <2>2. task'[w].op = "cancelRead" /\ \A v \in Worker : v # w => task'[v] = task[v]
    BY <1>3 DEF DispatchNoShow, Become, Cancelling, TypeOK
  <2>3. QED
    BY <2>1, <2>2, IdleSound, QuietStep
<1>4. QED
  BY <1>1, <1>2, <1>3 DEF DispatchBatch

LEMMA SweepInv ==
    ASSUME TypeOK, EscrowInv, TypeOK', NEW w \in Worker,
           ReleaseOverdueEscrow(w) \/ SweepStatementFails(w)
    PROVE  EscrowInv'
<1> task[w] \in Task /\ TaskSound(task[w])
  BY DEF TypeOK, EscrowInv, HandlersSound
<1>1. ASSUME SweepSelect(w) PROVE EscrowInv'
  <2>1. UNCHANGED <<orders, wallet, refunds, overridden>>
    BY <1>1 DEF SweepSelect
  <2>2. /\ task'[w] = [op |-> "sweep", todo |-> {o \in Order : Overdue(o)}]
        /\ \A v \in Worker : v # w => task'[v] = task[v]
    BY <1>1, Becomes DEF SweepSelect, Start
  <2>3. TaskSound(task[w])'
    BY <2>1, <2>2 DEF TaskSound, Overdue
  <2>4. QED
    BY <2>1, <2>2, <2>3, QuietStep
<1>2. ASSUME SweepMarkDelivered(w) PROVE EscrowInv'
  <2>1. PICK o \in task[w].todo :
            /\ orders' = IF orders[o].status = "shipped"
                         THEN [orders EXCEPT ![o] = [@ EXCEPT !.status = "delivered", !.confirmed = TRUE]]
                         ELSE orders
            /\ Become(w, [op |-> "sweepPay", order |-> o, todo |-> task[w].todo \ {o}])
    BY <1>2 DEF SweepMarkDelivered
  <2>2. o \in Order /\ \A p \in task[w].todo : p \in Order /\ orders[p].dispatched # "no"
    BY <1>2, <2>1, TaskFields DEF SweepMarkDelivered, TaskSound
  <2>3. orders[o] \in Row
    BY <2>2 DEF TypeOK
  <2>4. UNCHANGED <<wallet, refunds, overridden>>
    BY <1>2 DEF SweepMarkDelivered
  <2>5. \A p \in Order : p # o => orders'[p] = orders[p]
    BY <2>1, <2>2 DEF TypeOK
  <2>6. orders'[o].dispatched = orders[o].dispatched /\ RowStepSound(o)
    <3>1. CASE orders[o].status = "shipped"
      <4>1. orders'[o] = [orders[o] EXCEPT !.status = "delivered", !.confirmed = TRUE]
        BY <2>1, <2>2, <3>1 DEF TypeOK
      <4>2. QED
        BY <2>2, <2>3, <2>4, <3>1, <4>1, RowSound, RowFields DEF RowStepSound, LeftCheckout
    <3>2. CASE orders[o].status # "shipped"
      <4>1. orders'[o] = orders[o]
        BY <2>1, <3>2
      <4>2. QED
        BY <2>2, <2>4, <4>1, SameRow
    <3>3. QED
      BY <3>1, <3>2
  <2>7. \A v \in Worker : task'[v] = task[v] \/ TaskSound(task[v])'
    <3>1. /\ task'[w] = [op |-> "sweepPay", order |-> o, todo |-> task[w].todo \ {o}]
          /\ \A v \in Worker : v # w => task'[v] = task[v]
      BY <2>1, Becomes DEF Become
    <3>2. \A p \in task[w].todo : orders'[p].dispatched # "no"
      BY <2>2, <2>5, <2>6
    <3>3. TaskSound(task[w])'
      BY <2>1, <3>1, <3>2 DEF TaskSound
    <3>4. QED
      BY <3>1, <3>3
  <2>8. QED
    BY <2>2, <2>4, <2>5, <2>6, <2>7, OneRow
<1>3. ASSUME SweepReleaseWallet(w) PROVE EscrowInv'
  <2>1. PICK o \in Order : o = task[w].order
    BY <1>3, TaskFields DEF SweepReleaseWallet
  <2>2. /\ orders[o].dispatched # "no"
        /\ \A p \in task[w].todo : orders[p].dispatched # "no"
    BY <1>3, <2>1 DEF SweepReleaseWallet, TaskSound
  <2>3. UNCHANGED <<orders, refunds, overridden>> /\ wallet' = ReleaseCredit({o})
    BY <1>3, <2>1 DEF SweepReleaseWallet
  <2>4. RowStepSound(o)
    BY <2>2, <2>3, ReleaseCreditRows, RowSound DEF RowStepSound, LeftCheckout
  <2>5. \A v \in Worker : task'[v] = task[v] \/ TaskSound(task[v])'
    <3>1. task'[w] = Sweeping(task[w].todo) /\ \A v \in Worker : v # w => task'[v] = task[v]
      BY <1>3, Becomes DEF SweepReleaseWallet, Become
    <3>2. TaskSound(task[w])'
      BY <2>2, <2>3, <3>1 DEF TaskSound, Sweeping, Idle
    <3>3. QED
      BY <3>1, <3>2
  <2>6. QED
    BY <2>3, <2>4, <2>5, ReleaseCreditRows, OneRow
<1>4. ASSUME SweepStatementFails(w) PROVE EscrowInv'
  <2>1. UNCHANGED <<orders, wallet, refunds, overridden>>
    BY <1>4 DEF SweepStatementFails
  <2>2. PICK S : S \subseteq task[w].todo /\ task' = [task EXCEPT ![w] = Sweeping(S)]
    BY <1>4 DEF SweepStatementFails, Become
  <2>3. \A p \in S : orders[p].dispatched # "no"
    BY <1>4, <2>2 DEF SweepStatementFails, TaskSound
  <2>4. task'[w] = Sweeping(S) /\ \A v \in Worker : v # w => task'[v] = task[v]
    BY <2>2, Becomes
  <2>5. TaskSound(task[w])'
    BY <2>1, <2>3, <2>4 DEF TaskSound, Sweeping, Idle
  <2>6. QED
    BY <2>1, <2>4, <2>5, QuietStep
<1>5. QED
  BY <1>1, <1>2, <1>3, <1>4 DEF ReleaseOverdueEscrow

LEMMA FailInv ==
    ASSUME TypeOK, EscrowInv, TypeOK', NEW w \in Worker, Fail(w)
    PROVE  EscrowInv'
<1>1. UNCHANGED <<orders, wallet, refunds, overridden>>
  BY DEF Fail
<1>2. task'[w] = Idle /\ \A v \in Worker : v # w => task'[v] = task[v]
  BY Becomes DEF Fail, Finish, Become
<1>3. QED
  BY <1>1, <1>2, ResumeSound, QuietStep

-----------------------------------------------------------------------------
(* The theorems. *)

LEMMA InitInv == Init => EscrowInv
  BY DEF Init, Unplaced, Idle, EscrowInv, CreditIffPaid, ReleasedOnlyAfterDispatch,
     DisputeRefundVoidsCredit, RefundRecordedOnlyIfIssued, BlankUntilPlaced, ShippedIsDispatched,
     DisputedLeftCheckout, HandlersSound, TaskSound

LEMMA NextInv == TypeOK /\ EscrowInv /\ [SystemNext]_vars => EscrowInv'
<1> SUFFICES ASSUME TypeOK, EscrowInv, [SystemNext]_vars PROVE EscrowInv'
  OBVIOUS
<1> TypeOK'
  BY NextType
<1>1. CASE UNCHANGED vars
  BY <1>1, SameRow, StepSound DEF vars
<1>2. CASE Atomic \/ \E o \in Order : WindowPasses(o)
  <2>1. CASE Buyer \/ AbandonedSweep
    BY <2>1, InsertOrdersInv, BuyerPaysInv, MarkAbandonedInv
       DEF Buyer, AbandonedSweep, PlaceOrder, PlaceCheckout
  <2>2. QED
    BY <1>2, <2>1, AtomicInv DEF Atomic
<1>3. ASSUME NEW w \in Worker, Handler(w) PROVE EscrowInv'
  BY <1>3, ConfirmPaymentInv, UpdateOrderStatusInv, RefundsInv, DisputesInv, DispatchBatchInv, SweepInv
     DEF Handler
<1>4. ASSUME NEW w \in Worker, Fault(w) PROVE EscrowInv'
  BY <1>4, RefundsInv, SweepInv, FailInv DEF Fault
<1>5. QED
  BY <1>1, <1>2, <1>3, <1>4 DEF SystemNext, SystemStep

\* The tables and every handler in flight keep the escrow invariant, whatever
\* requests interleave, fail or are repeated.
THEOREM EscrowSound == SystemSpec => []EscrowInv
  BY InitType, InitInv, NextType, NextInv, PTL DEF SystemSpec

\* A vendor is credited exactly when an order is paid (ConfirmPayment).
THEOREM CreditedExactlyWhenPaid == SystemSpec => []CreditIffPaid
<1>1. EscrowInv => CreditIffPaid
  BY DEF EscrowInv
<1>2. QED
  BY <1>1, EscrowSound, PTL

\* Escrow reaches a vendor only for an order that was dispatched or that an admin
\* overrode (ConfirmDelivery, releaseOverdueEscrow, releaseEscrow).
THEOREM NothingReleasedUndispatched == SystemSpec => []ReleasedOnlyAfterDispatch
<1>1. EscrowInv => ReleasedOnlyAfterDispatch
  BY DEF EscrowInv
<1>2. QED
  BY <1>1, EscrowSound, PTL

\* A refunded dispute leaves its vendor nothing, held or released (DisputeRefund).
THEOREM RefundedDisputeVoid == SystemSpec => []DisputeRefundVoidsCredit
<1>1. EscrowInv => DisputeRefundVoidsCredit
  BY DEF EscrowInv
<1>2. QED
  BY <1>1, EscrowSound, PTL

\* The database never records a refund Paystack did not accept (cancelAndRefund,
\* DisputeRefund).
THEOREM RecordedRefundsIssued == SystemSpec => []RefundRecordedOnlyIfIssued
<1>1. EscrowInv => RefundRecordedOnlyIfIssued
  BY DEF EscrowInv
<1>2. QED
  BY <1>1, EscrowSound, PTL

-----------------------------------------------------------------------------
(* What a step does to a credit. *)

CreditForward(o) ==
    /\ CreditStep(wallet[o].status, wallet'[o].status)
    /\ wallet[o].status # "none" => wallet'[o].kobo = wallet[o].kobo

LEMMA ReleaseForward ==
    ASSUME TypeOK, NEW S, wallet' = ReleaseCredit(S), NEW o \in Order PROVE CreditForward(o)
  BY DEF CreditForward, CreditStep, ReleaseCredit, TypeOK, Credit

LEMMA VoidForward ==
    ASSUME TypeOK, NEW p \in Order, NEW from \in SUBSET {"pending", "completed"},
           wallet' = VoidCredit(p, from), NEW o \in Order
    PROVE  CreditForward(o)
  BY DEF CreditForward, CreditStep, VoidCredit, TypeOK, Credit

LEMMA HandlerForward ==
    ASSUME TypeOK, NEW w \in Worker, Handler(w), NEW o \in Order PROVE CreditForward(o)
<1>1. CASE ConfirmCommit(w)
  <2>1. \/ wallet'[o] = wallet[o]
        \/ wallet[o].status = "none" /\ wallet'[o].status = "pending"
    BY <1>1 DEF ConfirmCommit
  <2>2. QED
    BY <2>1 DEF CreditForward, CreditStep
<1>2. CASE DisputeRefundTx(w)
  <2>1. task[w].order \in Order
    BY <1>2, TaskFields DEF DisputeRefundTx, TypeOK
  <2>2. wallet' = VoidCredit(task[w].order, {"pending", "completed"})
    BY <1>2 DEF DisputeRefundTx
  <2>3. QED
    BY <2>1, <2>2, VoidForward
<1>3. CASE CancelTx(w)
  <2>1. task[w].order \in Order
    BY <1>3, TaskFields DEF CancelTx, TypeOK, RefundOp
  <2>2. wallet' = VoidCredit(task[w].order, {"pending"})
    BY <1>3 DEF CancelTx
  <2>3. QED
    BY <2>1, <2>2, VoidForward
<1>4. CASE SweepReleaseWallet(w)
  BY <1>4, ReleaseForward DEF SweepReleaseWallet
<1>5. CASE UNCHANGED wallet
  BY <1>5 DEF CreditForward, CreditStep
<1>6. ConfirmPayment(w) => ConfirmCommit(w) \/ UNCHANGED wallet
  BY DEF ConfirmPayment, ConfirmRead, ConfirmRefused
<1>7. UpdateOrderStatus(w) \/ DispatchBatch(w) => UNCHANGED wallet
  BY DEF UpdateOrderStatus, UpdateOrderStatusRead, UpdateOrderStatusWrite,
     DispatchBatch, DispatchRead, DispatchShip, DispatchNoShow
<1>8. CancelAndRefund(w) \/ PaystackRefund(w) => CancelTx(w) \/ UNCHANGED wallet
  BY DEF CancelAndRefund, CancelRead, PaystackRefund, RefundAccepted, RefundRejected
<1>9. Disputes(w) => DisputeRefundTx(w) \/ UNCHANGED wallet
  BY DEF Disputes, ReportMissingRead, ReportMissingWrite, DisputeRefundRead
<1>10. ReleaseOverdueEscrow(w) => SweepReleaseWallet(w) \/ UNCHANGED wallet
  BY DEF ReleaseOverdueEscrow, SweepSelect, SweepMarkDelivered
<1>11. QED
  BY <1>1, <1>2, <1>3, <1>4, <1>5, <1>6, <1>7, <1>8, <1>9, <1>10 DEF Handler

LEMMA NextForward ==
    ASSUME TypeOK, [SystemNext]_vars, NEW o \in Order PROVE CreditForward(o)
<1>1. CASE UNCHANGED wallet
  BY <1>1 DEF CreditForward, CreditStep
<1>2. UNCHANGED vars \/ Buyer \/ AbandonedSweep \/ (\E p \in Order : WindowPasses(p)) => UNCHANGED wallet
  BY DEF vars, Buyer, PlaceOrder, PlaceCheckout, InsertOrders, BuyerPays, AbandonedSweep,
     MarkAbandonedOrders, WindowPasses
<1>3. ASSUME NEW p \in Order, ConfirmDelivery(p) \/ ReleaseEscrow(p) \/ DismissDispute(p) \/ HubIntake(p)
      PROVE  CreditForward(o)
  <2>1. wallet' = ReleaseCredit({p}) \/ UNCHANGED wallet
    BY <1>3 DEF ConfirmDelivery, ReleaseEscrow, DismissDispute, HubIntake
  <2>2. QED
    BY <1>1, <2>1, ReleaseForward
<1>4. ASSUME NEW w \in Worker, Fault(w) PROVE UNCHANGED wallet
  BY <1>4 DEF Fault, RefundAnswerLost, CancelFails, SweepStatementFails, Fail
<1>5. QED
  BY <1>1, <1>2, <1>3, <1>4, HandlerForward DEF SystemNext, SystemStep, Atomic

\* A credit is held, then released or voided, and never comes back; its amount is
\* fixed when it is made, whatever order handlers write it in.
THEOREM CreditsMoveForward == SystemSpec => CreditMovesForward
<1>1. TypeOK /\ [SystemNext]_vars =>
        [\A o \in Order :
            /\ CreditStep(wallet[o].status, wallet'[o].status)
            /\ wallet[o].status # "none" => wallet'[o].kobo = wallet[o].kobo]_vars
  BY NextForward DEF CreditForward
<1>2. QED
  BY <1>1, TypeCorrect, PTL DEF SystemSpec, CreditMovesForward

-----------------------------------------------------------------------------
(* Baskets leave through the hub. *)

\* What a step may do to a row so that what the hub and the dispatches know stays true.
HubRow(o) ==
    /\ HasRow(o) => HasRow(o)'
    /\ orders[o].hub => orders'[o].hub
    /\ orders'[o].hub => orders[o].hub \/ HasRow(o)'
    /\ orders'[o].dispatched # "no" => orders[o].dispatched # "no" \/ orders'[o].hub \/ ~ThroughHub(o)

LEMMA HubKept ==
    ASSUME TypeOK, HubInv, TypeOK', BasketsWhole',
           \A o \in Order : HubRow(o),
           \A w \in Worker : TaskAtHub(task'[w])
    PROVE  HubInv'
<1>1. HubOnlyPlaced'
  BY DEF HubInv, HubOnlyPlaced, HubRow
<1>2. DispatchedFromHub'
  BY DEF HubInv, DispatchedFromHub, HubRow, ThroughHub
<1>3. ASSUME NEW w \in Worker PROVE TaskAtHub(task[w])'
  <2>1. task'[w] \in Task /\ TaskAtHub(task'[w])
    BY DEF TypeOK
  <2>2. /\ task'[w].op \in {"vendor", "report", "disputeCall", "disputeTx"} \cup RefundOp => task'[w].order \in Order
        /\ task'[w].op \in RefundOp \cup {"dispatch"} => task'[w].ship \subseteq Order /\ task'[w].noshow \subseteq Order
    BY <2>1, TaskFields
  <2>3. QED
    BY <2>1, <2>2 DEF TaskAtHub, HubRow, ThroughHub
<1>4. QED
  BY <1>1, <1>2, <1>3 DEF HubInv

\* A step that places no order.
LEMMA HubKeptOnFile ==
    ASSUME TypeOK, HubInv, TypeOK',
           \A o \in Order : HubRow(o) /\ (HasRow(o)' => HasRow(o)),
           \A w \in Worker : TaskAtHub(task'[w])
    PROVE  HubInv'
<1>1. BasketsWhole'
  <2>1. \A S \in Basket : S \subseteq Order
    BY BasketAssumption
  <2>2. QED
    BY <2>1 DEF BasketsWhole, HubInv, HubRow
<1>2. QED
  BY <1>1, HubKept

\* A step that writes the row of one order that is there already, and moves one handler.
LEMMA HubOneRow ==
    ASSUME TypeOK, HubInv, TypeOK', NEW o \in Order, NEW w \in Worker,
           HasRow(o), HasRow(o)', HubRow(o),
           \A p \in Order : p # o => orders'[p] = orders[p],
           \A v \in Worker : v # w => task'[v] = task[v],
           TaskAtHub(task'[w])
    PROVE  HubInv'
<1>1. \A p \in Order : HubRow(p) /\ (HasRow(p)' => HasRow(p))
  BY DEF HubInv, HubRow, HasRow, HubOnlyPlaced
<1>2. \A v \in Worker : TaskAtHub(task'[v])
  BY DEF HubInv
<1>3. QED
  BY <1>1, <1>2, HubKeptOnFile

\* A step that only moves one handler.
LEMMA HubNoRow ==
    ASSUME TypeOK, HubInv, TypeOK', NEW w \in Worker, UNCHANGED orders,
           \A v \in Worker : v # w => task'[v] = task[v],
           TaskAtHub(task'[w])
    PROVE  HubInv'
<1>1. \A p \in Order : HubRow(p) /\ (HasRow(p)' => HasRow(p))
  BY DEF HubInv, HubRow, HasRow, HubOnlyPlaced
<1>2. \A v \in Worker : TaskAtHub(task'[v])
  BY DEF HubInv
<1>3. QED
  BY <1>1, <1>2, HubKeptOnFile

\* A step that moves no handler.
LEMMA HubNoTask ==
    ASSUME TypeOK, HubInv, TypeOK', UNCHANGED task,
           \A o \in Order : HubRow(o) /\ (HasRow(o)' => HasRow(o))
    PROVE  HubInv'
  BY HubKeptOnFile DEF HubInv

\* No update of a row takes back what the hub received.
LEMMA RowHub ==
    ASSUME NEW r \in Row, NEW s, NEW d
    PROVE  /\ [r EXCEPT !.status = s].hub = r.hub
           /\ [r EXCEPT !.status = s, !.paid = TRUE].hub = r.hub
           /\ [r EXCEPT !.status = s, !.hub = TRUE].hub = TRUE
           /\ [r EXCEPT !.status = s, !.confirmed = TRUE].hub = r.hub
           /\ [r EXCEPT !.status = s, !.dispatched = d].hub = r.hub
           /\ [r EXCEPT !.dispatched = d].hub = r.hub
           /\ [r EXCEPT !.dispute = d].hub = r.hub
           /\ [r EXCEPT !.status = s, !.refundRef = TRUE].hub = r.hub
           /\ [r EXCEPT !.status = s, !.dispute = d, !.refundRef = TRUE].hub = r.hub
  BY DEF Row

\* The invariant asks nothing of an idle handler, of a confirmation or of the sweep.
LEMMA IdleAtHub ==
    ASSUME NEW t, t.op \in {"idle", "confirm", "sweep", "sweepPay"} PROVE TaskAtHub(t)
  BY DEF TaskAtHub, RefundOp

LEMMA DispatchAtHub ==
    ASSUME NEW A, NEW B, \A o \in A : orders[o].hub, \A o \in B : HasRow(o)
    PROVE  /\ TaskAtHub([op |-> "dispatch", ship |-> A, noshow |-> B])
           /\ TaskAtHub(Dispatching(A, B))
           /\ \A op \in RefundOp : \A o : HasRow(o) => TaskAtHub(Cancelling(op, o, A, B))
  BY IdleAtHub DEF TaskAtHub, Dispatching, Cancelling, Idle, RefundOp

LEMMA ResumeAtHub ==
    ASSUME NEW t \in Task, t.op \in RefundOp, TaskAtHub(t)
    PROVE  TaskAtHub(Resume(t)) /\ \A op \in RefundOp : TaskAtHub([t EXCEPT !.op = op])
<1>1. /\ t = Cancelling(t.op, t.order, t.ship, t.noshow)
      /\ \A o \in t.ship : orders[o].hub
      /\ \A o \in t.noshow : HasRow(o)
      /\ HasRow(t.order)
  BY TaskFields DEF TaskAtHub
<1>2. \A op \in RefundOp : [t EXCEPT !.op = op] = Cancelling(op, t.order, t.ship, t.noshow)
  BY <1>1 DEF Cancelling
<1>3. Resume(t) = Dispatching(t.ship, t.noshow)
  BY DEF Resume, Dispatching
<1>4. /\ TaskAtHub(Dispatching(t.ship, t.noshow))
      /\ \A op \in RefundOp : TaskAtHub(Cancelling(op, t.order, t.ship, t.noshow))
  BY <1>1, DispatchAtHub
<1>5. ASSUME NEW op \in RefundOp PROVE TaskAtHub([t EXCEPT !.op = op])
  BY <1>2, <1>4
<1>6. QED
  BY <1>3, <1>4, <1>5


\* Placing, paying, abandoning and confirming.
LEMMA HubInsertOrders ==
    ASSUME TypeOK, HubInv, TypeOK', NEW S \in Basket, InsertOrders(S) PROVE HubInv'
<1>1. S \in SUBSET Order /\ \A T \in Basket : T \subseteq Order /\ (T = S \/ T \cap S = {})
  BY BasketAssumption
<1>2. /\ \A o \in S : ~HasRow(o) /\ HasRow(o)' /\ ~orders'[o].hub /\ orders'[o].dispatched = "no"
      /\ \A o \in Order \ S : orders'[o] = orders[o]
      /\ UNCHANGED task
  BY <1>1 DEF InsertOrders, HasRow, Unplaced
<1>3. BasketsWhole'
  <2> SUFFICES ASSUME NEW T \in Basket, NEW o \in T, NEW p \in T, HasRow(o)' PROVE HasRow(p)'
    BY DEF BasketsWhole
  <2>1. CASE T = S
    BY <1>2, <2>1
  <2>2. CASE T \cap S = {}
    <3>1. orders'[o] = orders[o] /\ orders'[p] = orders[p]
      BY <1>1, <1>2, <2>2
    <3>2. QED
      BY <3>1 DEF HubInv, BasketsWhole, HasRow
  <2>3. QED
    BY <1>1, <2>1, <2>2
<1>4. ASSUME NEW o \in Order PROVE HubRow(o)
  <2>1. orders[o].hub => HasRow(o)
    BY DEF HubInv, HubOnlyPlaced
  <2>2. CASE o \in S
    BY <1>2, <2>1, <2>2 DEF HubRow
  <2>3. CASE o \notin S
    BY <1>2, <2>1, <2>3 DEF HubRow, HasRow
  <2>4. QED
    BY <2>2, <2>3
<1>5. \A w \in Worker : TaskAtHub(task'[w])
  BY <1>2 DEF HubInv
<1>6. QED
  BY <1>3, <1>4, <1>5, HubKept

LEMMA HubCheckout ==
    ASSUME TypeOK, HubInv, TypeOK', Buyer \/ AbandonedSweep PROVE HubInv'
<1>1. ASSUME NEW r \in Ref, NEW S \in Basket, BuyerPays(r, S) PROVE HubInv'
  <2>1. UNCHANGED <<orders, task>>
    BY <1>1 DEF BuyerPays
  <2>2. \A o \in Order : HubRow(o) /\ (HasRow(o)' => HasRow(o))
    BY <2>1 DEF HubRow, HasRow, HubInv, HubOnlyPlaced
  <2>3. QED
    BY <2>1, <2>2, HubNoTask
<1>2. ASSUME NEW S, MarkAbandonedOrders(S) PROVE HubInv'
  <2>1. UNCHANGED task
    BY <1>2 DEF MarkAbandonedOrders
  <2>2. ASSUME NEW o \in Order PROVE HubRow(o) /\ (HasRow(o)' => HasRow(o))
    <3>1. orders[o] \in Row
      BY DEF TypeOK
    <3>2. \/ orders'[o] = orders[o]
          \/ HasRow(o) /\ orders'[o] = [orders[o] EXCEPT !.status = "abandoned"]
      BY <1>2 DEF MarkAbandonedOrders, HasRow
    <3>3. CASE orders'[o] = orders[o]
      BY <3>3 DEF HubRow, HasRow, HubInv, HubOnlyPlaced
    <3>4. CASE HasRow(o) /\ orders'[o] = [orders[o] EXCEPT !.status = "abandoned"]
      BY <3>1, <3>4, RowFields, RowHub DEF HubRow, HasRow
    <3>5. QED
      BY <3>2, <3>3, <3>4
  <2>3. QED
    BY <2>1, <2>2, HubNoTask
<1>3. QED
  BY <1>1, <1>2, HubInsertOrders DEF Buyer, AbandonedSweep, PlaceOrder, PlaceCheckout

LEMMA HubConfirmPayment ==
    ASSUME TypeOK, HubInv, TypeOK', NEW w \in Worker, ConfirmPayment(w) PROVE HubInv'
<1>1. ASSUME NEW r \in Ref, ConfirmRead(w, r) PROVE HubInv'
  <2>1. task' = [task EXCEPT ![w] = [op |-> "confirm", ref |-> r, targets |-> OnRef(r)]]
    BY <1>1 DEF ConfirmRead, Start
  <2>2. /\ task'[w] = [op |-> "confirm", ref |-> r, targets |-> OnRef(r)]
        /\ \A v \in Worker : v # w => task'[v] = task[v]
    BY <2>1, Becomes
  <2>3. task'[w].op = "confirm"
    BY <2>2
  <2>4. QED
    BY <1>1, <2>2, <2>3, IdleAtHub, HubNoRow DEF ConfirmRead
<1>2. ASSUME ConfirmRefused(w) PROVE HubInv'
  <2>1. task'[w] = Idle /\ \A v \in Worker : v # w => task'[v] = task[v]
    BY <1>2, Becomes DEF ConfirmRefused, Finish, Become
  <2>2. QED
    BY <1>2, <2>1, IdleAtHub, HubNoRow DEF ConfirmRefused, Idle
<1>3. ASSUME ConfirmCommit(w) PROVE HubInv'
  <2>1. task'[w] = Idle /\ \A v \in Worker : v # w => task'[v] = task[v]
    BY <1>3, Becomes DEF ConfirmCommit, Finish, Become
  <2>2. TaskAtHub(task'[w])
    BY <2>1, IdleAtHub DEF Idle
  <2>3. ASSUME NEW o \in Order PROVE HubRow(o) /\ (HasRow(o)' => HasRow(o))
    <3>1. orders[o] \in Row
      BY DEF TypeOK
    <3>2. \/ orders'[o] = orders[o]
          \/ HasRow(o) /\ orders'[o] = [orders[o] EXCEPT !.status = "confirmed", !.paid = TRUE]
      BY <1>3 DEF ConfirmCommit, MarkedPaid, Unpaid, HasRow
    <3>3. CASE orders'[o] = orders[o]
      BY <3>3 DEF HubRow, HasRow, HubInv, HubOnlyPlaced
    <3>4. CASE HasRow(o) /\ orders'[o] = [orders[o] EXCEPT !.status = "confirmed", !.paid = TRUE]
      BY <3>1, <3>4, RowFields, RowHub DEF HubRow, HasRow
    <3>5. QED
      BY <3>2, <3>3, <3>4
  <2>4. \A v \in Worker : TaskAtHub(task'[v])
    BY <2>1, <2>2 DEF HubInv
  <2>5. QED
    BY <2>3, <2>4, HubKeptOnFile
<1>4. QED
  BY <1>1, <1>2, <1>3 DEF ConfirmPayment

\* The hub's intake, a buyer's confirmation, a dispute dismissed, and time.
LEMMA HubAtomic ==
    ASSUME TypeOK, HubInv, TypeOK', NEW o \in Order,
           \/ ConfirmDelivery(o) \/ ReleaseEscrow(o) \/ DismissDispute(o) \/ HubIntake(o)
           \/ WindowPasses(o)
    PROVE  HubInv'
<1>1. orders[o] \in Row /\ UNCHANGED task
  BY DEF TypeOK, ConfirmDelivery, ReleaseEscrow, DismissDispute, HubIntake, WindowPasses
<1>2. \A p \in Order : p # o => orders'[p] = orders[p]
  BY DEF TypeOK, ConfirmDelivery, ReleaseEscrow, DismissDispute, HubIntake, WindowPasses
<1>3. orders[o].hub => HasRow(o)
  BY DEF HubInv, HubOnlyPlaced
<1>4. HubRow(o) /\ (HasRow(o)' => HasRow(o))
  <2>1. CASE ConfirmDelivery(o)
    <3>1. HasRow(o) /\ orders'[o] = [orders[o] EXCEPT !.status = "delivered", !.confirmed = TRUE]
      BY <2>1 DEF ConfirmDelivery, TypeOK, HasRow
    <3>2. QED
      BY <1>1, <3>1, RowFields, RowHub DEF HubRow, HasRow
  <2>2. CASE ReleaseEscrow(o)
    BY <1>3, <2>2 DEF ReleaseEscrow, HubRow, HasRow
  <2>3. CASE DismissDispute(o)
    <3>1. orders'[o] = [orders[o] EXCEPT !.dispute = "dismissed"]
      BY <2>3 DEF DismissDispute, TypeOK
    <3>2. QED
      BY <1>1, <1>3, <3>1, RowFields, RowHub DEF HubRow, HasRow
  <2>4. CASE HubIntake(o)
    <3>1. HasRow(o) /\ orders'[o] = [orders[o] EXCEPT !.status = "at_hub", !.hub = TRUE]
      BY <2>4 DEF HubIntake, TypeOK, HasRow
    <3>2. QED
      BY <1>1, <3>1, RowFields, RowHub DEF HubRow, HasRow
  <2>5. CASE WindowPasses(o)
    <3>1. orders[o].dispatched = "recent" /\ orders'[o] = [orders[o] EXCEPT !.dispatched = "overdue"]
      BY <2>5 DEF WindowPasses, TypeOK
    <3>2. QED
      BY <1>1, <1>3, <3>1, RowFields, RowHub DEF HubRow, HasRow
  <2>6. QED
    BY <2>1, <2>2, <2>3, <2>4, <2>5
<1>5. \A p \in Order : HubRow(p) /\ (HasRow(p)' => HasRow(p))
  BY <1>2, <1>4 DEF HubInv, HubRow, HasRow, HubOnlyPlaced
<1>6. QED
  BY <1>1, <1>5, HubNoTask


\* An order the vendor may ship, or have collected, is not of a basket of several stores:
\* the others of its basket would be on its reference.
LEMMA VendorNotHub ==
    ASSUME TypeOK, HubInv, NEW o \in Order, NEW want \in {"shipped", "ready_for_collection"},
           HasRow(o), VendorMaySet(o, want)
    PROVE  ~ThroughHub(o)
<1> SUFFICES ASSUME o \notin Pickup, NEW S \in Basket, o \in S, NEW p \in S, StoreOf[p] # StoreOf[o]
             PROVE  FALSE
  BY DEF ThroughHub
<1>1. RefOf[p] = RefOf[o] /\ p \in Order
  BY BasketAssumption
<1>2. HasRow(p)
  BY DEF HubInv, BasketsWhole
<1>3. GoMarketiDelivers(o)
  BY <1>1, <1>2 DEF GoMarketiDelivers, OnRef, HasRow
<1>4. QED
  BY <1>3 DEF VendorMaySet

LEMMA HubUpdateOrderStatus ==
    ASSUME TypeOK, HubInv, TypeOK', NEW w \in Worker, UpdateOrderStatus(w) PROVE HubInv'
<1>1. ASSUME NEW o \in Order, NEW want \in VendorStatus, UpdateOrderStatusRead(w, o, want) PROVE HubInv'
  <2>1. HasRow(o) /\ VendorMaySet(o, want) /\ UNCHANGED orders
    BY <1>1 DEF UpdateOrderStatusRead, HasRow
  <2>2. /\ task'[w] = [op |-> "vendor", order |-> o, want |-> want]
        /\ \A v \in Worker : v # w => task'[v] = task[v]
    BY <1>1, Becomes DEF UpdateOrderStatusRead, Start
  <2>3. want \in {"shipped", "ready_for_collection"} => ~ThroughHub(o)
    BY <2>1, VendorNotHub
  <2>4. TaskAtHub(task'[w])
    BY <2>1, <2>2, <2>3 DEF TaskAtHub, RefundOp
  <2>5. QED
    BY <2>1, <2>2, <2>4, HubNoRow
<1>2. ASSUME UpdateOrderStatusWrite(w) PROVE HubInv'
  <2>1. task[w] \in Task /\ task[w].op = "vendor" /\ TaskAtHub(task[w])
    BY <1>2 DEF UpdateOrderStatusWrite, TypeOK, HubInv
  <2>2. PICK o \in Order, want \in VendorStatus : o = task[w].order /\ want = task[w].want
    BY <2>1, TaskFields
  <2>3. HasRow(o) /\ (want \in {"shipped", "ready_for_collection"} => ~ThroughHub(o))
    BY <2>1, <2>2 DEF TaskAtHub
  <2>4. orders[o] \in Row
    BY DEF TypeOK
  <2>5. /\ orders'[o] = [orders[o] EXCEPT !.status = want, !.dispatched = Dispatched(o, want)]
        /\ \A p \in Order : p # o => orders'[p] = orders[p]
    BY <1>2, <2>2 DEF UpdateOrderStatusWrite, TypeOK
  <2>6. HasRow(o)' /\ HubRow(o)
    <3>1. /\ orders'[o].status = want /\ orders'[o].hub = orders[o].hub
          /\ orders'[o].dispatched = Dispatched(o, want)
      BY <2>4, <2>5, RowFields, RowHub
    <3>2. want # "unplaced"
      BY DEF VendorStatus
    <3>3. QED
      BY <2>3, <3>1, <3>2 DEF HubRow, HasRow, Dispatched
  <2>7. /\ task'[w] \in {Cancelling("cancelRead", o, {}, {}), Idle}
        /\ \A v \in Worker : v # w => task'[v] = task[v]
    BY <1>2, <2>2, Becomes DEF UpdateOrderStatusWrite, Become
  <2>8. TaskAtHub(task'[w])
    <3>1. TaskAtHub(Cancelling("cancelRead", o, {}, {}))
      BY <2>3, DispatchAtHub DEF RefundOp
    <3>2. TaskAtHub(Idle)
      BY IdleAtHub DEF Idle
    <3>3. QED
      BY <2>7, <3>1, <3>2
  <2>9. QED
    BY <2>3, <2>5, <2>6, <2>7, <2>8, HubOneRow
<1>3. QED
  BY <1>1, <1>2 DEF UpdateOrderStatus

LEMMA HubDisputes ==
    ASSUME TypeOK, EscrowInv, HubInv, TypeOK', NEW w \in Worker, Disputes(w) PROVE HubInv'
<1>1. ASSUME NEW o \in Order, ReportMissingRead(w, o) \/ DisputeRefundRead(w, o) PROVE HubInv'
  <2>1. HasRow(o) /\ UNCHANGED orders
    BY <1>1 DEF ReportMissingRead, DisputeRefundRead, HasRow, EscrowInv, DisputedLeftCheckout, LeftCheckout
  <2>2. PICK op \in {"report", "disputeCall"} : task' = [task EXCEPT ![w] = [op |-> op, order |-> o]]
    BY <1>1 DEF ReportMissingRead, DisputeRefundRead, Start
  <2>3. task'[w] = [op |-> op, order |-> o] /\ \A v \in Worker : v # w => task'[v] = task[v]
    BY <2>2, Becomes
  <2>4. TaskAtHub(task'[w])
    BY <2>1, <2>3 DEF TaskAtHub, RefundOp
  <2>5. QED
    BY <2>1, <2>3, <2>4, HubNoRow
<1>2. ASSUME ReportMissingWrite(w) \/ DisputeRefundTx(w) PROVE HubInv'
  <2>1. task[w] \in Task /\ task[w].op \in {"report", "disputeTx"} /\ TaskAtHub(task[w])
    BY <1>2 DEF ReportMissingWrite, DisputeRefundTx, TypeOK, HubInv
  <2>2. PICK o \in Order : o = task[w].order
    BY <2>1, TaskFields
  <2>3. HasRow(o) /\ orders[o] \in Row
    BY <2>1, <2>2 DEF TaskAtHub, TypeOK
  <2>4. \A p \in Order : p # o => orders'[p] = orders[p]
    BY <1>2, <2>2 DEF ReportMissingWrite, DisputeRefundTx, TypeOK
  <2>5. HasRow(o)' /\ HubRow(o)
    <3>1. CASE ReportMissingWrite(w)
      <4>1. orders'[o] = [orders[o] EXCEPT !.dispute = "reported"]
        BY <2>2, <3>1 DEF ReportMissingWrite, TypeOK
      <4>2. QED
        BY <2>3, <4>1, RowFields, RowHub DEF HubRow, HasRow
    <3>2. CASE DisputeRefundTx(w)
      <4>1. orders'[o] = [orders[o] EXCEPT !.status = "cancelled", !.dispute = "refunded", !.refundRef = TRUE]
        BY <2>2, <3>2 DEF DisputeRefundTx, TypeOK
      <4>2. QED
        BY <2>3, <4>1, RowFields, RowHub DEF HubRow, HasRow
    <3>3. QED
      BY <1>2, <3>1, <3>2
  <2>6. task'[w] = Idle /\ \A v \in Worker : v # w => task'[v] = task[v]
    BY <1>2, Becomes DEF ReportMissingWrite, DisputeRefundTx, Finish, Become
  <2>7. TaskAtHub(task'[w])
    BY <2>6, IdleAtHub DEF Idle
  <2>8. QED
    BY <2>3, <2>4, <2>5, <2>6, <2>7, HubOneRow
<1>3. QED
  BY <1>1, <1>2 DEF Disputes

LEMMA HubRefunds ==
    ASSUME TypeOK, HubInv, TypeOK', NEW w \in Worker,
           CancelAndRefund(w) \/ PaystackRefund(w) \/ RefundAnswerLost(w) \/ CancelFails(w)
    PROVE  HubInv'
<1>1. task[w] \in Task /\ TaskAtHub(task[w])
  BY DEF TypeOK, HubInv
<1>2. ASSUME CancelTx(w) PROVE HubInv'
  <2>1. task[w].op \in RefundOp /\ task[w].order \in Order
    BY <1>1, <1>2, TaskFields DEF CancelTx, RefundOp
  <2>2. HasRow(task[w].order) /\ orders[task[w].order] \in Row
    BY <1>1, <2>1 DEF TaskAtHub, TypeOK
  <2>3. PICK o \in Order : o = task[w].order
    BY <2>1
  <2>4. /\ orders'[o] = [orders[o] EXCEPT !.status = "cancelled", !.refundRef = TRUE]
        /\ \A p \in Order : p # o => orders'[p] = orders[p]
    BY <1>2, <2>3 DEF CancelTx, TypeOK
  <2>5. HasRow(o)' /\ HubRow(o)
    BY <2>2, <2>3, <2>4, RowFields, RowHub DEF HubRow, HasRow
  <2>6. task'[w] = Resume(task[w]) /\ \A v \in Worker : v # w => task'[v] = task[v]
    BY <1>2, Becomes DEF CancelTx, Become
  <2>7. TaskAtHub(task'[w])
    BY <1>1, <2>1, <2>6, ResumeAtHub
  <2>8. QED
    BY <2>2, <2>3, <2>4, <2>5, <2>6, <2>7, HubOneRow
<1>3. ASSUME NEW t, task' = [task EXCEPT ![w] = t], UNCHANGED orders, TaskAtHub(t) PROVE HubInv'
  BY <1>3, Becomes, HubNoRow
<1>4. ASSUME CancelRead(w) \/ CancelFails(w) PROVE HubInv'
  <2>1. task[w].op \in RefundOp
    BY <1>4 DEF CancelRead, CancelFails, RefundOp
  <2>2. TaskAtHub(Resume(task[w])) /\ TaskAtHub([task[w] EXCEPT !.op = "cancelCall"])
    BY <1>1, <2>1, ResumeAtHub DEF RefundOp
  <2>3. /\ UNCHANGED orders
        /\ \/ task' = [task EXCEPT ![w] = Resume(task[w])]
           \/ task' = [task EXCEPT ![w] = [task[w] EXCEPT !.op = "cancelCall"]]
    BY <1>4 DEF CancelRead, CancelFails, Become
  <2>4. QED
    BY <1>3, <2>2, <2>3
<1>5. ASSUME RefundAccepted(w) \/ RefundAnswerLost(w) \/ RefundRejected(w) PROVE HubInv'
  <2>1. /\ task[w].op \in {"disputeCall", "cancelCall"} /\ UNCHANGED orders
        /\ \/ task' = [task EXCEPT ![w] = AfterRefund(task[w])]
           \/ task' = [task EXCEPT ![w] = AfterError(task[w])]
    BY <1>5 DEF RefundAccepted, RefundAnswerLost, RefundRejected, Refunding, Become
  <2>2. TaskAtHub(AfterRefund(task[w])) /\ TaskAtHub(AfterError(task[w]))
    <3>1. CASE task[w].op = "cancelCall"
      <4>1. AfterRefund(task[w]) = [task[w] EXCEPT !.op = "cancelTx"] /\ AfterError(task[w]) = Resume(task[w])
        BY <3>1 DEF AfterRefund, AfterError, RefundOp
      <4>2. QED
        BY <1>1, <3>1, <4>1, ResumeAtHub DEF RefundOp
    <3>2. CASE task[w].op = "disputeCall"
      <4>1. task[w] = [op |-> "disputeCall", order |-> task[w].order] /\ HasRow(task[w].order)
        BY <1>1, <3>2, TaskFields DEF TaskAtHub
      <4>2. AfterRefund(task[w]) = [op |-> "disputeTx", order |-> task[w].order] /\ AfterError(task[w]) = Idle
        BY <3>2, <4>1 DEF AfterRefund, AfterError, RefundOp
      <4>3. TaskAtHub(AfterRefund(task[w]))
        BY <4>1, <4>2 DEF TaskAtHub, RefundOp
      <4>4. TaskAtHub(Idle)
        BY IdleAtHub DEF Idle
      <4>5. QED
        BY <4>2, <4>3, <4>4
    <3>3. QED
      BY <2>1, <3>1, <3>2
  <2>3. QED
    BY <1>3, <2>1, <2>2
<1>6. QED
  BY <1>2, <1>4, <1>5 DEF CancelAndRefund, PaystackRefund

LEMMA HubDispatchBatch ==
    ASSUME TypeOK, HubInv, TypeOK', NEW w \in Worker, DispatchBatch(w) PROVE HubInv'
<1>1. task[w] \in Task /\ TaskAtHub(task[w])
  BY DEF TypeOK, HubInv
<1>2. ASSUME NEW r \in Ref, DispatchRead(w, r) PROVE HubInv'
  <2> DEFINE batch == {o \in OnRef(r) : orders[o].status \in {"confirmed", "at_hub"}}
             atHub == {o \in batch : orders[o].hub}
             t == [op |-> "dispatch", ship |-> atHub, noshow |-> batch \ atHub]
  <2>1. task' = [task EXCEPT ![w] = t] /\ UNCHANGED orders
    BY <1>2 DEF DispatchRead, Start
  <2>2. (\A o \in atHub : orders[o].hub) /\ (\A o \in batch \ atHub : HasRow(o))
    BY DEF OnRef, HasRow
  <2>3. TaskAtHub(t)
    BY <2>2, DispatchAtHub
  <2> HIDE DEF t
  <2>4. task'[w] = t /\ \A v \in Worker : v # w => task'[v] = task[v]
    BY <2>1, Becomes
  <2>5. QED
    BY <2>1, <2>3, <2>4, HubNoRow
<1>3. ASSUME task[w].op = "dispatch"
      PROVE  /\ \A o \in task[w].ship : o \in Order /\ orders[o].hub
             /\ \A o \in task[w].noshow : o \in Order /\ HasRow(o)
  BY <1>1, <1>3, TaskFields DEF TaskAtHub
<1>4. ASSUME DispatchShip(w) PROVE HubInv'
  <2>1. PICK o \in task[w].ship :
            /\ orders' = [orders EXCEPT ![o] = [@ EXCEPT !.status = "shipped", !.dispatched = "recent"]]
            /\ Become(w, Dispatching(task[w].ship \ {o}, task[w].noshow))
    BY <1>4 DEF DispatchShip
  <2>2. o \in Order /\ orders[o].hub /\ HasRow(o) /\ orders[o] \in Row
    BY <1>3, <1>4, <2>1 DEF DispatchShip, HubInv, HubOnlyPlaced, TypeOK
  <2>3. /\ orders'[o] = [orders[o] EXCEPT !.status = "shipped", !.dispatched = "recent"]
        /\ \A p \in Order : p # o => orders'[p] = orders[p]
    BY <2>1, <2>2 DEF TypeOK
  <2>4. HasRow(o)' /\ HubRow(o)
    BY <2>2, <2>3, RowFields, RowHub DEF HubRow, HasRow
  <2>5. /\ task'[w] = Dispatching(task[w].ship \ {o}, task[w].noshow)
        /\ \A v \in Worker : v # w => task'[v] = task[v]
    BY <2>1, Becomes DEF Become
  <2>6. TaskAtHub(task'[w])
    <3>1. (\A p \in task[w].ship \ {o} : orders[p].hub) /\ \A p \in task[w].noshow : HasRow(p)
      BY <1>3, <1>4 DEF DispatchShip
    <3>2. TaskAtHub(Dispatching(task[w].ship \ {o}, task[w].noshow))
      BY <3>1, DispatchAtHub
    <3>3. QED
      BY <2>5, <3>2
  <2>7. QED
    BY <2>2, <2>3, <2>4, <2>5, <2>6, HubOneRow
<1>5. ASSUME DispatchNoShow(w) PROVE HubInv'
  <2>1. PICK o \in task[w].noshow :
            Become(w, Cancelling("cancelRead", o, task[w].ship, task[w].noshow \ {o}))
    BY <1>5 DEF DispatchNoShow
  <2>2. /\ task'[w] = Cancelling("cancelRead", o, task[w].ship, task[w].noshow \ {o})
        /\ \A v \in Worker : v # w => task'[v] = task[v]
    BY <2>1, Becomes DEF Become
  <2>3. TaskAtHub(task'[w])
    <3>1. /\ \A p \in task[w].ship : orders[p].hub
          /\ \A p \in task[w].noshow \ {o} : HasRow(p)
          /\ HasRow(o)
      BY <1>3, <1>5, <2>1 DEF DispatchNoShow
    <3>2. TaskAtHub(Cancelling("cancelRead", o, task[w].ship, task[w].noshow \ {o}))
      BY <3>1, DispatchAtHub DEF RefundOp
    <3>3. QED
      BY <2>2, <3>2
  <2>4. UNCHANGED orders
    BY <1>5 DEF DispatchNoShow
  <2>5. QED
    BY <2>2, <2>3, <2>4, HubNoRow
<1>6. QED
  BY <1>2, <1>4, <1>5 DEF DispatchBatch

LEMMA HubSweep ==
    ASSUME TypeOK, HubInv, TypeOK', NEW w \in Worker,
           ReleaseOverdueEscrow(w) \/ SweepStatementFails(w)
    PROVE  HubInv'
<1>2. \A S : Sweeping(S).op \in {"idle", "sweep", "sweepPay"}
  BY DEF Sweeping, Idle
<1>3. TaskAtHub(task'[w]) /\ \A v \in Worker : v # w => task'[v] = task[v]
  <2>1. CASE SweepSelect(w)
    <3> DEFINE t == [op |-> "sweep", todo |-> {o \in Order : Overdue(o)}]
    <3>2. t.op = "sweep" /\ task' = [task EXCEPT ![w] = t]
      BY <2>1 DEF SweepSelect, Start
    <3> HIDE DEF t
    <3>3. task'[w] = t /\ \A v \in Worker : v # w => task'[v] = task[v]
      BY <3>2, Becomes
    <3>4. QED
      BY <3>2, <3>3, IdleAtHub
  <2>2. CASE SweepMarkDelivered(w)
    <3>1. PICK o \in task[w].todo :
              task' = [task EXCEPT ![w] = [op |-> "sweepPay", order |-> o, todo |-> task[w].todo \ {o}]]
      BY <2>2 DEF SweepMarkDelivered, Become
    <3> DEFINE t == [op |-> "sweepPay", order |-> o, todo |-> task[w].todo \ {o}]
    <3>2. t.op = "sweepPay" /\ task' = [task EXCEPT ![w] = t]
      BY <3>1
    <3> HIDE DEF t
    <3>3. task'[w] = t /\ \A v \in Worker : v # w => task'[v] = task[v]
      BY <3>2, Becomes
    <3>4. QED
      BY <3>2, <3>3, IdleAtHub
  <2>3. CASE SweepReleaseWallet(w) \/ SweepStatementFails(w)
    <3>1. PICK S : task' = [task EXCEPT ![w] = Sweeping(S)]
      BY <2>3 DEF SweepReleaseWallet, SweepStatementFails, Become
    <3> DEFINE t == Sweeping(S)
    <3>2. t.op \in {"idle", "sweep", "sweepPay"} /\ task' = [task EXCEPT ![w] = t]
      BY <1>2, <3>1
    <3> HIDE DEF t
    <3>3. task'[w] = t /\ \A v \in Worker : v # w => task'[v] = task[v]
      BY <3>2, Becomes
    <3>4. QED
      BY <3>2, <3>3, IdleAtHub
  <2>4. QED
    BY <2>1, <2>2, <2>3 DEF ReleaseOverdueEscrow
<1>4. CASE UNCHANGED orders
  BY <1>3, <1>4, HubNoRow
<1>5. CASE SweepMarkDelivered(w)
  <2>1. PICK o \in task[w].todo :
            orders' = IF orders[o].status = "shipped"
                      THEN [orders EXCEPT ![o] = [@ EXCEPT !.status = "delivered", !.confirmed = TRUE]]
                      ELSE orders
    BY <1>5 DEF SweepMarkDelivered
  <2>2. CASE orders[o].status = "shipped"
    <3>1. o \in Order /\ orders[o] \in Row /\ HasRow(o)
      BY <1>5, <2>1, <2>2, TaskFields DEF SweepMarkDelivered, TypeOK, HasRow
    <3>2. /\ orders'[o] = [orders[o] EXCEPT !.status = "delivered", !.confirmed = TRUE]
          /\ \A p \in Order : p # o => orders'[p] = orders[p]
      BY <2>1, <2>2, <3>1 DEF TypeOK
    <3>3. HasRow(o)' /\ HubRow(o)
      BY <3>1, <3>2, RowFields, RowHub DEF HubRow, HasRow
    <3>4. QED
      BY <1>3, <3>1, <3>2, <3>3, HubOneRow
  <2>3. QED
    BY <1>4, <2>1, <2>2
<1>6. QED
  BY <1>4, <1>5 DEF ReleaseOverdueEscrow, SweepStatementFails, SweepSelect, SweepReleaseWallet

LEMMA NextHub == TypeOK /\ EscrowInv /\ HubInv /\ [SystemNext]_vars => HubInv'
<1> SUFFICES ASSUME TypeOK, EscrowInv, HubInv, [SystemNext]_vars PROVE HubInv'
  OBVIOUS
<1> TypeOK'
  BY NextType
<1>1. CASE UNCHANGED vars
  <2>1. UNCHANGED <<orders, task>>
    BY <1>1 DEF vars
  <2>2. QED
    BY <2>1 DEF HubInv, BasketsWhole, HubOnlyPlaced, DispatchedFromHub, TaskAtHub, HasRow
<1>2. CASE Atomic \/ \E o \in Order : WindowPasses(o)
  BY <1>2, HubCheckout, HubAtomic DEF Atomic
<1>3. ASSUME NEW w \in Worker, Handler(w) PROVE HubInv'
  BY <1>3, HubConfirmPayment, HubUpdateOrderStatus, HubRefunds, HubDisputes, HubDispatchBatch, HubSweep
     DEF Handler
<1>4. ASSUME NEW w \in Worker, Fault(w) PROVE HubInv'
  <2>1. CASE Fail(w)
    <3>1. UNCHANGED orders /\ task'[w] = Idle /\ \A v \in Worker : v # w => task'[v] = task[v]
      BY <2>1, Becomes DEF Fail, Finish, Become
    <3>2. TaskAtHub(task'[w])
      BY <3>1, IdleAtHub DEF Idle
    <3>3. QED
      BY <3>1, <3>2, HubNoRow
  <2>2. QED
    BY <1>4, <2>1, HubRefunds, HubSweep DEF Fault
<1>5. QED
  BY <1>1, <1>2, <1>3, <1>4 DEF SystemNext, SystemStep

LEMMA InitHub == Init \/ InitPaid => HubInv
<1>1. Idle.op = "idle"
  BY DEF Idle
<1>2. TaskAtHub(Idle)
  BY <1>1, IdleAtHub
<1>3. ASSUME Init PROVE HubInv
  <2>1. \A S \in Basket : S \subseteq Order
    BY BasketAssumption
  <2>2. QED
    BY <1>2, <1>3, <2>1 DEF Init, Unplaced, HubInv, BasketsWhole, HubOnlyPlaced, DispatchedFromHub, HasRow
<1>4. ASSUME InitPaid PROVE HubInv
  <2>1. \A o \in Order : orders[o].status = "confirmed" /\ orders[o].dispatched = "no" /\ ~orders[o].hub
    BY <1>4 DEF InitPaid, Unplaced
  <2>2. \A S \in Basket : S \subseteq Order
    BY BasketAssumption
  <2>3. \A w \in Worker : task[w] = Idle
    BY <1>4 DEF InitPaid
  <2>4. QED
    BY <1>2, <2>1, <2>2, <2>3 DEF HubInv, BasketsWhole, HubOnlyPlaced, DispatchedFromHub, HasRow
<1>5. QED
  BY <1>3, <1>4

\* A basket that has been paid for is a state the invariants allow.
LEMMA PaidInv == InitPaid => TypeOK /\ EscrowInv
<1> SUFFICES ASSUME InitPaid PROVE TypeOK /\ EscrowInv
  OBVIOUS
<1>1. \A o \in Order : \A S : CreditKobo(o, S) \in Nat
  BY OrderAssumption DEF CreditKobo
<1>2. \A r \in Ref : SumKobo(OnRef(r)) \in Nat
  BY SumKoboType DEF OnRef
<1>3. orders \in [Order -> Row] /\ refunds \in [Order -> Nat] /\ overridden \subseteq Order
  BY DEF InitPaid, Unplaced, Row, OrderStatus
<1>4. wallet \in [Order -> Credit] /\ charged \in [Ref -> Nat] /\ task \in [Worker -> Task]
  BY <1>1, <1>2, IdleType DEF InitPaid, Credit
<1>5. \A o \in Order :
        /\ orders[o].status = "confirmed" /\ orders[o].paid = TRUE /\ orders[o].dispute = "none"
        /\ orders[o].refundRef = FALSE /\ wallet[o].status = "pending"
  BY DEF InitPaid, Unplaced
<1>6. \A w \in Worker : task[w] = Idle
  BY DEF InitPaid
<1>7. QED
  BY <1>3, <1>4, <1>5, <1>6 DEF TypeOK, Idle, EscrowInv, CreditIffPaid, ReleasedOnlyAfterDispatch,
     DisputeRefundVoidsCredit, RefundRecordedOnlyIfIssued, BlankUntilPlaced, ShippedIsDispatched,
     DisputedLeftCheckout, LeftCheckout, HandlersSound, TaskSound

LEMMA HubInvShips == HubInv => BasketShipsThroughHub
<1> SUFFICES ASSUME HubInv, NEW S \in Basket, NEW o \in S, NEW p \in S,
                    StoreOf[o] # StoreOf[p], o \notin Pickup, orders[o].dispatched # "no"
             PROVE  orders[o].hub
  BY DEF BasketShipsThroughHub
<1>1. o \in Order
  BY BasketAssumption
<1>2. ThroughHub(o)
  BY DEF ThroughHub
<1>3. QED
  BY <1>1, <1>2 DEF HubInv, DispatchedFromHub

LEMMA HubInvariant == SystemSpec => []HubInv
  BY TypeCorrect, EscrowSound, InitHub, NextHub, PTL DEF SystemSpec

\* An order of a basket that spans stores reaches its buyer only through the hub, from
\* checkout on, whatever the vendor read before the basket changed under it
\* (vendorMaySet, dispatchBatch).
THEOREM BasketsLeaveThroughHub == SystemSpec => []BasketShipsThroughHub
  BY HubInvariant, HubInvShips, PTL

\* The same of a basket that is already paid for, with the vendors and the hub at work on
\* it and any of their requests failing (dispatchBatch, cancelAndRefund).
THEOREM PaidBasketsLeaveThroughHub == HubSpec => []BasketShipsThroughHub
<1>1. HubStep => SystemNext
  BY DEF HubStep, SystemNext, SystemStep, Atomic, Handler, Fault
<1>2. HubSpec => [](TypeOK /\ EscrowInv /\ HubInv)
  BY <1>1, PaidInv, InitHub, NextType, NextInv, NextHub, PTL DEF HubSpec
<1>3. QED
  BY <1>2, HubInvShips, PTL
-----------------------------------------------------------------------------
(* What is shown of the rows.  A row goes forward column by column, so     *)
(* that what is listed stays listed and what is summed up only grows; the  *)
(* stores on a reference only become more, so what GoMarketi delivers it   *)
(* goes on delivering.                                                     *)

\* What a step that places nothing may do to a row.
RowForward(o) ==
    /\ HasRow(o)' <=> HasRow(o)
    /\ LeftCheckout(o) => LeftCheckout(o)'
    /\ orders[o].paid => orders'[o].paid
    /\ orders'[o].paid => orders[o].paid \/ LeftCheckout(o)'
    /\ orders[o].hub => orders'[o].hub
    /\ orders[o].refundRef => orders'[o].refundRef
    /\ orders[o].dispatched # "no" => orders'[o].dispatched # "no"

RowsForward == \A o \in Order : RowForward(o)

LEMMA RowsStay == UNCHANGED orders => RowsForward
  BY DEF RowsForward, RowForward, HasRow, LeftCheckout

\* One row moved forward, the others left alone.
LEMMA OneForward ==
    ASSUME NEW o \in Order, RowForward(o), \A p \in Order : p # o => orders'[p] = orders[p]
    PROVE  RowsForward
  BY DEF RowsForward, RowForward, HasRow, LeftCheckout

\* A row that is there given a status beyond checkout, whatever else is noted on it.
LEMMA MovedOn ==
    ASSUME TypeOK, NEW o \in Order, HasRow(o),
           NEW s, s \notin {"unplaced", "awaiting_payment", "abandoned"},
           \/ orders'[o] = [orders[o] EXCEPT !.status = s, !.paid = TRUE]
           \/ orders'[o] = [orders[o] EXCEPT !.status = s, !.hub = TRUE]
           \/ orders'[o] = [orders[o] EXCEPT !.status = s, !.confirmed = TRUE]
           \/ orders'[o] = [orders[o] EXCEPT !.status = s, !.refundRef = TRUE]
    PROVE  RowForward(o)
<1> orders[o] \in Row
  BY DEF TypeOK
<1>1. CASE orders'[o] = [orders[o] EXCEPT !.status = s, !.paid = TRUE]
  BY <1>1, RowFields, RowHub DEF RowForward, HasRow, LeftCheckout
<1>2. CASE orders'[o] = [orders[o] EXCEPT !.status = s, !.hub = TRUE]
  BY <1>2, RowFields, RowHub DEF RowForward, HasRow, LeftCheckout
<1>3. CASE orders'[o] = [orders[o] EXCEPT !.status = s, !.confirmed = TRUE]
  BY <1>3, RowFields, RowHub DEF RowForward, HasRow, LeftCheckout
<1>4. CASE orders'[o] = [orders[o] EXCEPT !.status = s, !.refundRef = TRUE]
  BY <1>4, RowFields, RowHub DEF RowForward, HasRow, LeftCheckout
<1>5. QED
  BY <1>1, <1>2, <1>3, <1>4

\* One whose dispatch is noted with its status.
LEMMA SentOn ==
    ASSUME TypeOK, NEW o \in Order, HasRow(o),
           NEW s, s \notin {"unplaced", "awaiting_payment", "abandoned"},
           NEW d, d = "no" => orders[o].dispatched = "no",
           orders'[o] = [orders[o] EXCEPT !.status = s, !.dispatched = d]
    PROVE  RowForward(o)
<1> orders[o] \in Row
  BY DEF TypeOK
<1>1. QED
  BY RowFields, RowHub DEF RowForward, HasRow, LeftCheckout

\* A row that keeps its status.
LEMMA MarkedOn ==
    ASSUME TypeOK, NEW o \in Order, NEW d,
           \/ orders'[o] = [orders[o] EXCEPT !.dispute = d]
           \/ d # "no" /\ orders'[o] = [orders[o] EXCEPT !.dispatched = d]
    PROVE  RowForward(o)
<1> orders[o] \in Row
  BY DEF TypeOK
<1>1. CASE orders'[o] = [orders[o] EXCEPT !.dispute = d]
  BY <1>1, RowFields, RowHub DEF RowForward, HasRow, LeftCheckout
<1>2. CASE d # "no" /\ orders'[o] = [orders[o] EXCEPT !.dispatched = d]
  BY <1>2, RowFields, RowHub DEF RowForward, HasRow, LeftCheckout
<1>3. QED
  BY <1>1, <1>2

LEMMA AtomicForward ==
    ASSUME TypeOK, NEW o \in Order,
           \/ ConfirmDelivery(o) \/ ReleaseEscrow(o) \/ DismissDispute(o) \/ HubIntake(o)
           \/ WindowPasses(o)
    PROVE  RowsForward
<1>1. \A p \in Order : p # o => orders'[p] = orders[p]
  BY DEF TypeOK, ConfirmDelivery, ReleaseEscrow, DismissDispute, HubIntake, WindowPasses
<1>2. CASE ConfirmDelivery(o)
  <2>1. HasRow(o) /\ orders'[o] = [orders[o] EXCEPT !.status = "delivered", !.confirmed = TRUE]
    BY <1>2 DEF ConfirmDelivery, TypeOK, HasRow
  <2>2. QED
    BY <1>1, <2>1, MovedOn, OneForward
<1>3. CASE ReleaseEscrow(o)
  BY <1>3, RowsStay DEF ReleaseEscrow
<1>4. CASE DismissDispute(o)
  <2>1. orders'[o] = [orders[o] EXCEPT !.dispute = "dismissed"]
    BY <1>4 DEF DismissDispute, TypeOK
  <2>2. QED
    BY <1>1, <2>1, MarkedOn, OneForward
<1>5. CASE HubIntake(o)
  <2>1. HasRow(o) /\ orders'[o] = [orders[o] EXCEPT !.status = "at_hub", !.hub = TRUE]
    BY <1>5 DEF HubIntake, TypeOK, HasRow
  <2>2. QED
    BY <1>1, <2>1, MovedOn, OneForward
<1>6. CASE WindowPasses(o)
  <2>1. orders'[o] = [orders[o] EXCEPT !.dispatched = "overdue"]
    BY <1>6 DEF WindowPasses, TypeOK
  <2>2. QED
    BY <1>1, <2>1, MarkedOn, OneForward
<1>7. QED
  BY <1>2, <1>3, <1>4, <1>5, <1>6

LEMMA CheckoutForward ==
    ASSUME TypeOK, NEW S, MarkAbandonedOrders(S) PROVE RowsForward
<1> SUFFICES ASSUME NEW o \in Order PROVE RowForward(o)
  BY DEF RowsForward
<1>1. CASE o \in S
  <2>1. orders[o] \in Row /\ orders[o].status = "awaiting_payment"
    BY <1>1 DEF MarkAbandonedOrders, TypeOK
  <2>2. orders'[o] = [orders[o] EXCEPT !.status = "abandoned"]
    BY <1>1 DEF MarkAbandonedOrders
  <2>3. QED
    BY <2>1, <2>2, RowFields, RowHub DEF RowForward, HasRow, LeftCheckout
<1>2. CASE o \notin S
  BY <1>2 DEF MarkAbandonedOrders, RowForward, HasRow, LeftCheckout
<1>3. QED
  BY <1>1, <1>2

LEMMA ConfirmForward ==
    ASSUME TypeOK, NEW w \in Worker, ConfirmPayment(w) PROVE RowsForward
<1>1. CASE ConfirmCommit(w)
  <2> SUFFICES ASSUME NEW o \in Order PROVE RowForward(o)
    BY DEF RowsForward
  <2>1. \/ orders'[o] = orders[o]
        \/ Unpaid(o) /\ orders'[o] = [orders[o] EXCEPT !.status = "confirmed", !.paid = TRUE]
    BY <1>1 DEF ConfirmCommit, MarkedPaid
  <2>2. CASE orders'[o] = orders[o]
    BY <2>2 DEF RowForward, HasRow, LeftCheckout
  <2>3. CASE Unpaid(o) /\ orders'[o] = [orders[o] EXCEPT !.status = "confirmed", !.paid = TRUE]
    BY <2>3, MovedOn DEF Unpaid, HasRow
  <2>4. QED
    BY <2>1, <2>2, <2>3
<1>2. QED
  BY <1>1, RowsStay DEF ConfirmPayment, ConfirmRead, ConfirmRefused

LEMMA VendorForward ==
    ASSUME TypeOK, HubInv, NEW w \in Worker, UpdateOrderStatus(w) PROVE RowsForward
<1>1. CASE UpdateOrderStatusWrite(w)
  <2>1. task[w] \in Task /\ task[w].op = "vendor" /\ TaskAtHub(task[w])
    BY <1>1 DEF UpdateOrderStatusWrite, TypeOK, HubInv
  <2>2. PICK o \in Order, want \in VendorStatus : o = task[w].order /\ want = task[w].want
    BY <2>1, TaskFields
  <2>3. HasRow(o) /\ want \notin {"unplaced", "awaiting_payment", "abandoned"}
    BY <2>1, <2>2 DEF TaskAtHub, VendorStatus
  <2>4. /\ orders'[o] = [orders[o] EXCEPT !.status = want, !.dispatched = Dispatched(o, want)]
        /\ \A p \in Order : p # o => orders'[p] = orders[p]
    BY <1>1, <2>2 DEF UpdateOrderStatusWrite, TypeOK
  <2>5. Dispatched(o, want) = "no" => orders[o].dispatched = "no"
    BY DEF Dispatched
  <2>6. RowForward(o)
    BY <2>3, <2>4, <2>5, SentOn
  <2>7. QED
    BY <2>4, <2>6, OneForward
<1>2. QED
  BY <1>1, RowsStay DEF UpdateOrderStatus, UpdateOrderStatusRead

LEMMA DisputesForward ==
    ASSUME TypeOK, HubInv, NEW w \in Worker, Disputes(w) PROVE RowsForward
<1>1. CASE ReportMissingWrite(w) \/ DisputeRefundTx(w)
  <2>1. task[w] \in Task /\ task[w].op \in {"report", "disputeTx"} /\ TaskAtHub(task[w])
    BY <1>1 DEF ReportMissingWrite, DisputeRefundTx, TypeOK, HubInv
  <2>2. PICK o \in Order : o = task[w].order
    BY <2>1, TaskFields
  <2>3. HasRow(o)
    BY <2>1, <2>2 DEF TaskAtHub
  <2>4. \A p \in Order : p # o => orders'[p] = orders[p]
    BY <1>1, <2>2 DEF ReportMissingWrite, DisputeRefundTx, TypeOK
  <2>5. \/ orders'[o] = [orders[o] EXCEPT !.dispute = "reported"]
        \/ orders'[o] = [orders[o] EXCEPT !.status = "cancelled", !.dispute = "refunded", !.refundRef = TRUE]
    BY <1>1, <2>2 DEF ReportMissingWrite, DisputeRefundTx, TypeOK
  <2>6. RowForward(o)
    <3>1. CASE orders'[o] = [orders[o] EXCEPT !.dispute = "reported"]
      BY <3>1, MarkedOn
    <3>2. CASE orders'[o] = [orders[o] EXCEPT !.status = "cancelled", !.dispute = "refunded", !.refundRef = TRUE]
      <4>1. orders[o] \in Row
        BY DEF TypeOK
      <4>2. QED
        BY <2>3, <3>2, <4>1, RowFields, RowHub DEF RowForward, HasRow, LeftCheckout
    <3>3. QED
      BY <2>5, <3>1, <3>2
  <2>7. QED
    BY <2>4, <2>6, OneForward
<1>2. QED
  BY <1>1, RowsStay DEF Disputes, ReportMissingRead, DisputeRefundRead

LEMMA RefundsForward ==
    ASSUME TypeOK, HubInv, NEW w \in Worker, CancelAndRefund(w) PROVE RowsForward
<1>1. CASE CancelTx(w)
  <2>1. task[w] \in Task /\ task[w].op \in RefundOp /\ TaskAtHub(task[w])
    BY <1>1 DEF CancelTx, TypeOK, HubInv, RefundOp
  <2>2. PICK o \in Order : o = task[w].order
    BY <2>1, TaskFields
  <2>3. HasRow(o)
    BY <2>1, <2>2 DEF TaskAtHub
  <2>4. /\ orders'[o] = [orders[o] EXCEPT !.status = "cancelled", !.refundRef = TRUE]
        /\ \A p \in Order : p # o => orders'[p] = orders[p]
    BY <1>1, <2>2 DEF CancelTx, TypeOK
  <2>5. QED
    BY <2>3, <2>4, MovedOn, OneForward
<1>2. QED
  BY <1>1, RowsStay DEF CancelAndRefund, CancelRead

LEMMA DispatchForward ==
    ASSUME TypeOK, HubInv, NEW w \in Worker, DispatchBatch(w) PROVE RowsForward
<1>1. CASE DispatchShip(w)
  <2>1. task[w] \in Task /\ task[w].op = "dispatch" /\ TaskAtHub(task[w])
    BY <1>1 DEF DispatchShip, TypeOK, HubInv
  <2>2. PICK o \in task[w].ship :
            orders' = [orders EXCEPT ![o] = [@ EXCEPT !.status = "shipped", !.dispatched = "recent"]]
    BY <1>1 DEF DispatchShip
  <2>3. o \in Order /\ HasRow(o)
    BY <2>1, <2>2, TaskFields DEF TaskAtHub, HubInv, HubOnlyPlaced
  <2>4. /\ orders'[o] = [orders[o] EXCEPT !.status = "shipped", !.dispatched = "recent"]
        /\ \A p \in Order : p # o => orders'[p] = orders[p]
    BY <2>2, <2>3 DEF TypeOK
  <2>5. RowForward(o)
    BY <2>3, <2>4, SentOn
  <2>6. QED
    BY <2>3, <2>4, <2>5, OneForward
<1>2. QED
  BY <1>1, RowsStay DEF DispatchBatch, DispatchRead, DispatchNoShow

LEMMA SweepForward ==
    ASSUME TypeOK, NEW w \in Worker, ReleaseOverdueEscrow(w) PROVE RowsForward
<1>1. CASE SweepMarkDelivered(w)
  <2>1. PICK o \in task[w].todo :
            orders' = IF orders[o].status = "shipped"
                      THEN [orders EXCEPT ![o] = [@ EXCEPT !.status = "delivered", !.confirmed = TRUE]]
                      ELSE orders
    BY <1>1 DEF SweepMarkDelivered
  <2>2. CASE orders[o].status = "shipped"
    <3>1. o \in Order /\ HasRow(o)
      BY <1>1, <2>1, <2>2, TaskFields DEF SweepMarkDelivered, TypeOK, HasRow
    <3>2. /\ orders'[o] = [orders[o] EXCEPT !.status = "delivered", !.confirmed = TRUE]
          /\ \A p \in Order : p # o => orders'[p] = orders[p]
      BY <2>1, <2>2, <3>1 DEF TypeOK
    <3>3. QED
      BY <3>1, <3>2, MovedOn, OneForward
  <2>3. QED
    BY <2>1, <2>2, RowsStay
<1>2. QED
  BY <1>1, RowsStay DEF ReleaseOverdueEscrow, SweepSelect, SweepReleaseWallet

\* A step places a basket, or moves the rows forward.
LEMMA StepForward ==
    ASSUME TypeOK, HubInv, [SystemNext]_vars
    PROVE  (\E S \in Basket : InsertOrders(S)) \/ RowsForward
<1>1. CASE UNCHANGED vars
  BY <1>1, RowsStay DEF vars
<1>2. CASE Buyer \/ AbandonedSweep
  BY <1>2, RowsStay, CheckoutForward DEF Buyer, PlaceOrder, PlaceCheckout, BuyerPays, AbandonedSweep
<1>3. CASE \E o \in Order : \/ ConfirmDelivery(o) \/ ReleaseEscrow(o) \/ DismissDispute(o) \/ HubIntake(o)
                            \/ WindowPasses(o)
  BY <1>3, AtomicForward
<1>4. ASSUME NEW w \in Worker, Handler(w) PROVE RowsForward
  <2>1. PaystackRefund(w) => UNCHANGED orders
    BY DEF PaystackRefund, RefundAccepted, RefundRejected
  <2>2. QED
    BY <1>4, <2>1, RowsStay, ConfirmForward, VendorForward, RefundsForward, DisputesForward, DispatchForward,
       SweepForward DEF Handler
<1>5. ASSUME NEW w \in Worker, Fault(w) PROVE RowsForward
  BY <1>5, RowsStay DEF Fault, RefundAnswerLost, CancelFails, SweepStatementFails, Fail
<1>6. QED
  BY <1>1, <1>2, <1>3, <1>4, <1>5 DEF SystemNext, SystemStep, Atomic

\* The paid orders have left checkout.
FiguresInv == \A o \in Order : orders[o].paid => LeftCheckout(o)

\* A basket is placed: new rows that await their payment.
LEMMA PlacedRows ==
    ASSUME EscrowInv, NEW S \in Basket, InsertOrders(S)
    PROVE  /\ S \subseteq Order
           /\ \A o \in S : /\ orders[o] = Unplaced /\ ~HasRow(o) /\ HasRow(o)'
                           /\ ~orders'[o].paid /\ ~LeftCheckout(o)'
           /\ \A o \in Order \ S : orders'[o] = orders[o]
<1>1. S \subseteq Order
  BY BasketAssumption
<1>2. \A o \in S : orders[o].status = "unplaced" /\ orders'[o] = [Unplaced EXCEPT !.status = "awaiting_payment"]
  BY <1>1 DEF InsertOrders
<1>3. \A o \in S : orders'[o].status = "awaiting_payment" /\ ~orders'[o].paid
  BY <1>2 DEF Unplaced
<1>4. \A o \in Order \ S : orders'[o] = orders[o]
  BY DEF InsertOrders
<1>5. \A o \in S : orders[o] = Unplaced
  BY <1>1, <1>2 DEF EscrowInv, BlankUntilPlaced
<1>6. QED
  BY <1>1, <1>2, <1>3, <1>4, <1>5 DEF HasRow, LeftCheckout

LEMMA FiguresStart == Init => FiguresInv
  BY DEF Init, Unplaced, FiguresInv, HasRow

LEMMA FiguresKept == TypeOK /\ EscrowInv /\ HubInv /\ FiguresInv /\ [SystemNext]_vars => FiguresInv'
<1> SUFFICES ASSUME TypeOK, EscrowInv, HubInv, FiguresInv, [SystemNext]_vars PROVE FiguresInv'
  OBVIOUS
<1>1. CASE RowsForward
  BY <1>1 DEF RowsForward, RowForward, FiguresInv
<1>2. ASSUME NEW S \in Basket, InsertOrders(S) PROVE FiguresInv'
  <2>1. ASSUME NEW o \in Order, orders'[o].paid PROVE LeftCheckout(o)'
    BY <1>2, <2>1, PlacedRows DEF FiguresInv, LeftCheckout
  <2>2. QED
    BY <2>1 DEF FiguresInv
<1>3. QED
  BY <1>1, <1>2, StepForward

\* What no step takes back from a row, placed or not.
RowGrows(o) ==
    /\ HasRow(o) => HasRow(o)'
    /\ LeftCheckout(o) => LeftCheckout(o)'
    /\ orders[o].paid => orders'[o].paid
    /\ orders[o].hub => orders'[o].hub
    /\ orders[o].refundRef => orders'[o].refundRef
    /\ orders[o].dispatched # "no" => orders'[o].dispatched # "no"

LEMMA RowsGrow ==
    ASSUME TypeOK, EscrowInv, HubInv, [SystemNext]_vars, NEW o \in Order
    PROVE  RowGrows(o)
<1>1. CASE RowsForward
  BY <1>1 DEF RowsForward, RowForward, RowGrows
<1>2. ASSUME NEW S \in Basket, InsertOrders(S) PROVE RowGrows(o)
  <2>1. CASE o \in S
    <3>1. orders[o] = Unplaced
      BY <1>2, <2>1, PlacedRows
    <3>2. QED
      BY <3>1 DEF Unplaced, RowGrows, HasRow, LeftCheckout
  <2>2. CASE o \notin S
    <3>1. orders'[o] = orders[o]
      BY <1>2, <2>2, PlacedRows
    <3>2. QED
      BY <3>1 DEF RowGrows, HasRow, LeftCheckout
  <2>3. QED
    BY <2>1, <2>2
<1>3. QED
  BY <1>1, <1>2, StepForward

\* The stores on a reference only become more.
LEMMA DelivererStays ==
    ASSUME TypeOK, EscrowInv, HubInv, [SystemNext]_vars, NEW o \in Order, GoMarketiDelivers(o)
    PROVE  GoMarketiDelivers(o)'
<1>1. PICK p \in OnRef(RefOf[o]) : StoreOf[p] # StoreOf[o]
  BY DEF GoMarketiDelivers
<1>2. p \in Order /\ HasRow(p) /\ RowGrows(p)
  BY <1>1, RowsGrow DEF OnRef, HasRow
<1>3. p \in OnRef(RefOf[o])'
  BY <1>1, <1>2 DEF OnRef, RowGrows, HasRow
<1>4. QED
  BY <1>1, <1>3 DEF GoMarketiDelivers

\* A larger set of orders sums up to no less.
LEMMA MoreSumsMore ==
    ASSUME NEW F \in [Order -> Nat], NEW A \in SUBSET Order, NEW B \in SUBSET A
    PROVE  /\ SumFunctionOnSet(F, B) <= SumFunctionOnSet(F, A)
           /\ SumFunctionOnSet(F, A) \in Nat /\ SumFunctionOnSet(F, B) \in Nat
           /\ Cardinality(B) <= Cardinality(A)
<1>1. IsFiniteSet(Order) /\ F \in [Order -> Int] /\ \A x \in A \ B : F[x] >= 0
  BY OrderAssumption
<1>2. B \in SUBSET Order
  OBVIOUS
<1>3. SumFunctionOnSet(F, B) <= SumFunctionOnSet(F, A)
  BY <1>1, SumSubset
<1>4. SumFunctionOnSet(F, A) \in Nat /\ SumFunctionOnSet(F, B) \in Nat
  BY <1>1, <1>2, SumNat
<1>5. Cardinality(B) <= Cardinality(A)
  BY <1>1, FS_Subset
<1>6. QED
  BY <1>3, <1>4, <1>5

LEMMA MoreKobo ==
    ASSUME NEW A \in SUBSET Order, NEW B \in SUBSET A
    PROVE  SumKobo(B) <= SumKobo(A) /\ SumKobo(A) \in Nat /\ SumKobo(B) \in Nat
<1> DEFINE F == [o \in Order |-> TotalKobo(o)]
<1>1. F \in [Order -> Nat]
  BY OrderAssumption DEF TotalKobo
<1> HIDE DEF F
<1>2. QED
  BY <1>1, MoreSumsMore DEF SumKobo, F

\* The vendor's lists and figures.
StoreFigures(s) ==
    /\ ListedByVendor(s) \subseteq ListedByVendor(s)'
    /\ GetCustomer(s).totalOrders <= GetCustomer(s)'.totalOrders
    /\ GetCustomer(s).totalSpentKobo <= GetCustomer(s)'.totalSpentKobo
    /\ GetRevenueTrend(s).orders <= GetRevenueTrend(s)'.orders
    /\ GetTopProducts(s) <= GetTopProducts(s)'
    /\ GetAnalyticsOverview(s)'.revenueKobo < GetAnalyticsOverview(s).revenueKobo =>
           \E o \in Kept(s) : orders'[o].status = "cancelled"

LEMMA StoresForward ==
    ASSUME \A o \in Order : RowGrows(o), NEW s
    PROVE  StoreFigures(s)
<1>1. /\ ListedByVendor(s) \subseteq ListedByVendor(s)'
      /\ PaidFor(s) \in SUBSET PaidFor(s)' /\ PaidFor(s)' \in SUBSET Order
      /\ GetVendorSales(s) \in SUBSET GetVendorSales(s)' /\ GetVendorSales(s)' \in SUBSET Order
  BY DEF RowGrows, HasRow, LeftCheckout, ListedByVendor, PaidFor, GetVendorSales, Placed
<1>2. ItemsKobo \in [Order -> Nat]
  BY OrderAssumption
<1>3. Cardinality(PaidFor(s)) <= Cardinality(PaidFor(s)') /\ SumKobo(PaidFor(s)) <= SumKobo(PaidFor(s)')
  BY <1>1, <1>2, MoreSumsMore, MoreKobo
<1>4. GetTopProducts(s) <= GetTopProducts(s)'
  BY <1>1, <1>2, MoreSumsMore DEF GetTopProducts
<1>5. ASSUME \A o \in Kept(s) : orders'[o].status # "cancelled"
      PROVE  ~(SumKobo(Kept(s)') < SumKobo(Kept(s)))
  <2>1. Kept(s) \in SUBSET Kept(s)' /\ Kept(s)' \in SUBSET Order
    BY <1>1, <1>5 DEF Kept
  <2>2. SumKobo(Kept(s)) <= SumKobo(Kept(s)') /\ SumKobo(Kept(s)') \in Nat /\ SumKobo(Kept(s)) \in Nat
    BY <2>1, MoreKobo
  <2>3. QED
    BY <2>2
<1>6. QED
  BY <1>1, <1>3, <1>4, <1>5 DEF StoreFigures, GetCustomer, GetRevenueTrend, GetAnalyticsOverview, SumKobo, TotalKobo

\* The admin's batch.
LEMMA BatchesForward ==
    ASSUME \A o \in Order : RowGrows(o), NEW r, NEW o \in DOMAIN GetBatch(r)
    PROVE  /\ o \in DOMAIN GetBatch(r)'
           /\ GetBatch(r)[o].row.hub => GetBatch(r)'[o].row.hub
           /\ GetBatch(r)[o].row.refundRef => GetBatch(r)'[o].row.refundRef
<1>1. o \in Order /\ o \in OnRef(r) /\ o \in OnRef(r)'
  BY DEF GetBatch, OnRef, RowGrows, HasRow
<1>2. GetBatch(r)[o].row = orders[o]
  BY <1>1 DEF GetBatch
<1>3. o \in DOMAIN GetBatch(r)' /\ GetBatch(r)'[o].row = orders'[o]
  BY <1>1 DEF GetBatch
<1>4. QED
  BY <1>1, <1>2, <1>3 DEF RowGrows

\* The buyer's order.
LEMMA ViewsForward ==
    ASSUME TypeOK, EscrowInv, HubInv, [SystemNext]_vars, NEW o \in DOMAIN GetMyOrders
    PROVE  /\ GetPublicOrder(o)' # {}
           /\ ShownStep(GetMyOrders[o].escrow, GetMyOrders'[o].escrow)
           /\ GetMyOrders[o].fulfilment = "gomarketi" => GetMyOrders'[o].fulfilment = "gomarketi"
           /\ GetMyOrders[o].dispatched => GetMyOrders'[o].dispatched
<1>1. o \in Order /\ HasRow(o) /\ o \in Placed
  BY DEF GetMyOrders, Placed, HasRow
<1>2. RowGrows(o) /\ CreditForward(o)
  BY <1>1, RowsGrow, NextForward
<1>3. o \in Placed'
  BY <1>1, <1>2 DEF Placed, RowGrows, HasRow
<1>4. GetMyOrders[o] = OrderView(o) /\ GetMyOrders'[o] = OrderView(o)'
  BY <1>1, <1>3 DEF GetMyOrders
<1>5. /\ OrderView(o).escrow = EscrowStatus(o) /\ OrderView(o)'.escrow = EscrowStatus(o)'
      /\ OrderView(o).fulfilment = Fulfilment(o) /\ OrderView(o)'.fulfilment = Fulfilment(o)'
      /\ OrderView(o).dispatched = (orders[o].dispatched # "no")
      /\ OrderView(o)'.dispatched = (orders'[o].dispatched # "no")
  BY DEF OrderView
<1>6. ShownStep(EscrowStatus(o), EscrowStatus(o)')
  BY <1>2 DEF CreditForward, CreditStep, EscrowStatus, ShownStep
<1>7. Fulfilment(o) = "gomarketi" => Fulfilment(o)' = "gomarketi"
  BY <1>1, DelivererStays DEF Fulfilment
<1>8. GetPublicOrder(o)' # {}
  BY <1>3 DEF GetPublicOrder
<1>9. QED
  BY <1>2, <1>4, <1>5, <1>6, <1>7, <1>8 DEF RowGrows

\* What the buyer, the vendor and the admin are shown never goes back, whatever requests come
\* under a reference and whichever handlers are at work on the rows while they are read; an
\* order the vendor delivers may become GoMarketi's, never the other way round (orderColumns,
\* paidOnly).
THEOREM FiguresDoHold == SystemSpec => FiguresHold
<1>1. SystemSpec => []FiguresInv
  BY TypeCorrect, EscrowSound, HubInvariant, FiguresStart, FiguresKept, PTL DEF SystemSpec
<1>2. FiguresInv => PaidAreListed
  BY DEF FiguresInv, LeftCheckout, PaidAreListed, PaidFor, ListedByVendor, Abandoned, Placed
<1>3. TypeOK /\ EscrowInv /\ HubInv /\ [SystemNext]_vars => FiguresStep
  <2> SUFFICES ASSUME TypeOK, EscrowInv, HubInv, [SystemNext]_vars PROVE FiguresStep
    OBVIOUS
  <2>1. \A o \in Order : RowGrows(o)
    BY RowsGrow
  <2>2. \A s \in Store : StoreFigures(s)
    BY <2>1, StoresForward
  <2>3. QED
    BY <2>1, <2>2, BatchesForward, ViewsForward DEF FiguresStep, StoreFigures
<1>4. QED
  BY <1>1, <1>2, <1>3, TypeCorrect, EscrowSound, HubInvariant, PTL DEF SystemSpec, FiguresHold

=============================================================================
