------------------------------- MODULE Notices -------------------------------
(***************************************************************************)
(* What the stores and the buyers are told of a payment.  The confirmation *)
(* that commits reads the reference once more and tells of every order it  *)
(* finds; it has told nobody when it fails before that, and those that     *)
(* follow find everything paid and tell nobody.                            *)
(***************************************************************************)
EXTENDS Checkout

VARIABLES
    telling,        \* telling[w]: the reference worker w has committed and not told of yet, at most one
    receipts,       \* receipts[o]: how often the payment of o was told of
    missed          \* history: references whose confirmation failed after its commit

noticeVars == <<telling, receipts, missed>>
noticesVars == <<vars, noticeVars>>

NoticesInit ==
    /\ Init
    /\ telling = [w \in Worker |-> {}]
    /\ receipts = [o \in Order |-> 0]
    /\ missed = {}

-----------------------------------------------------------------------------

\* The goroutine is at work until it has told.
ConfirmStarts(w) == telling[w] = {} /\ \E r \in Ref : ConfirmRead(w, r)

CommitThenTell(w) ==
    /\ ConfirmCommit(w)
    /\ telling' = [telling EXCEPT ![w] = {task[w].ref}]
    /\ UNCHANGED <<receipts, missed>>

FindOrdersByPaymentRef(r) == OnRef(r)

\* The store's dashboard, the buyer's receipt and the vendor's alert, each sent on the side;
\* one that fails is noted as a background error and not sent again.
NotifyOrderCreated(S) ==
    receipts' = [o \in Order |-> IF o \in S THEN receipts[o] + 1 ELSE receipts[o]]

\* Mutant: one order of the reference is told of.
FirstOrder(r) == {CHOOSE o \in OnRef(r) : TRUE}

\* Whether an order is paid is not looked at again.
ToTell(r) == FindOrdersByPaymentRef(r)

NotifyPaidOrders(w) ==
    /\ telling[w] # {}
    /\ NotifyOrderCreated(UNION {ToTell(r) : r \in telling[w]})
    /\ telling' = [telling EXCEPT ![w] = {}]
    /\ UNCHANGED <<vars, missed>>

\* The read fails, or the service stops.
TellingFails(w) ==
    /\ telling[w] # {}
    /\ missed' = missed \cup telling[w]
    /\ telling' = [telling EXCEPT ![w] = {}]
    /\ UNCHANGED <<vars, receipts>>

NoticesStep ==
    \/ (Buyer \/ AbandonedSweep) /\ UNCHANGED noticeVars
    \/ \E w \in Worker :
        \/ (ConfirmStarts(w) \/ ConfirmRefused(w)) /\ UNCHANGED noticeVars
        \/ CommitThenTell(w)
        \/ NotifyPaidOrders(w)
        \/ TellingFails(w)

NoticesSpec == NoticesInit /\ [][NoticesStep \/ \E w \in Worker : Fail(w) /\ UNCHANGED noticeVars]_noticesVars

\* A confirmation that arrives is run to its end, and as long as an order on a reference is
\* unpaid one more arrives: Paystack's webhook follows the charge.  Strong fairness, since Go
\* starts a goroutine for every request and only this model makes one wait for a free worker.
\* No statement fails before the commit; what is committed is also told, or that fails.
NoticesFairness ==
    /\ \A r \in Ref : SF_noticesVars(\E w \in Worker :
           telling[w] = {} /\ ConfirmRead(w, r) /\ UNCHANGED noticeVars)
    /\ \A w \in Worker : WF_noticesVars((ConfirmRefused(w) /\ UNCHANGED noticeVars) \/ CommitThenTell(w))
    /\ \A w \in Worker : WF_noticesVars(NotifyPaidOrders(w) \/ TellingFails(w))

NoticesLiveSpec == NoticesInit /\ [][NoticesStep]_noticesVars /\ NoticesFairness

-----------------------------------------------------------------------------

\* Nobody who has been paid goes untold, whichever of the racing confirmations marked the
\* order, unless a confirmation fails between its commit and the telling (ConfirmPayment).
PaidAreTold ==
    \A o \in Order : orders[o].paid =>
        \/ receipts[o] > 0
        \/ \E w \in Worker : RefOf[o] \in telling[w]
        \/ RefOf[o] \in missed

\* Stated by a comment: "a buyer should not receive a receipt for money that never left their
\* account" (notifyPaidOrders).
ReceiptOnlyForPaid == \A o \in Order : receipts[o] > 0 => orders[o].paid

=============================================================================
