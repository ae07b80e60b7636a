---------------------------- MODULE NoticesProofs ----------------------------
(***************************************************************************)
(* Theorems about checkout: what a confirmed payment credits, settles and  *)
(* tells of, for any baskets, references and number of confirmations at    *)
(* once.  What a confirmation goes by is the orders it read, and the       *)
(* orders of a reference only become more: of any two reads one holds the  *)
(* other, and prices are positive, so two reads that both cover the one    *)
(* charge are the same read.  The first of them to commit settles it, and  *)
(* those that follow find nothing left to pay.                             *)
(***************************************************************************)
EXTENDS Notices, OrderSystemProofs

-----------------------------------------------------------------------------
(* The inductive invariant. *)

Confirming(w) == task[w].op = "confirm"

\* Nothing but checkout happens to these orders.
CheckoutRows ==
    \A o \in Order :
        /\ orders[o].status \in {"unplaced", "awaiting_payment", "abandoned", "confirmed"}
        /\ orders[o].paid <=> orders[o].status = "confirmed"

\* A paid order is credited for the orders it was settled with.
CreditRows ==
    \A o \in Order :
        /\ orders[o].paid <=> wallet[o].status # "none"
        /\ wallet[o].kobo = IF orders[o].paid THEN CreditKobo(o, Settled(RefOf[o])) ELSE 0

\* A basket is placed as a whole.
Whole(T) == \A o \in T : \E S \in Basket : o \in S /\ S \subseteq T

PlacedWhole == \A r \in Ref : Whole(OnRef(r)) /\ Whole(Settled(r))

ChargedForBasket ==
    \A r \in Ref : charged[r] # 0 =>
        \E S \in Basket : S \subseteq OnRef(r) /\ charged[r] = SumKobo(S)

\* What a confirmation read is there, whole, and it has told nobody yet.
ReadsInv ==
    \A w \in Worker :
        /\ task[w] = Idle \/ Confirming(w)
        /\ Confirming(w) =>
              /\ task[w].targets \subseteq OnRef(task[w].ref)
              /\ Whole(task[w].targets)
              /\ telling[w] = {}

Nested(A, B) == A \subseteq B \/ B \subseteq A

\* Of two reads of a reference one holds the other.
ReadsNested ==
    \A w, u \in Worker :
        Confirming(w) /\ Confirming(u) /\ task[w].ref = task[u].ref =>
            Nested(task[w].targets, task[u].targets)

\* What is settled is what the charge was for, and was one of those reads.
SettledOnce ==
    \A r \in Ref : Settled(r) # {} =>
        /\ charged[r] = SumKobo(Settled(r))
        /\ \A w \in Worker : Confirming(w) /\ task[w].ref = r => Nested(task[w].targets, Settled(r))

NoticesType ==
    /\ TypeOK
    /\ telling \in [Worker -> SUBSET Ref]
    /\ receipts \in [Order -> Nat]
    /\ missed \subseteq Ref

NoticesInv ==
    /\ NoticesType
    /\ CheckoutRows
    /\ CreditRows
    /\ PlacedWhole
    /\ ChargedForBasket
    /\ ReadsInv
    /\ ReadsNested
    /\ SettledOnce
    /\ PaidAreTold

-----------------------------------------------------------------------------
(* What orders cost together tells sets of them apart when one holds the   *)
(* other.                                                                  *)

Prices == [o \in Order |-> TotalKobo(o)]

LEMMA PricesType ==
    /\ IsFiniteSet(Order)
    /\ Prices \in [Order -> Nat] /\ Prices \in [Order -> Int]
    /\ \A o \in Order : Prices[o] = TotalKobo(o) /\ TotalKobo(o) \in Nat /\ TotalKobo(o) > 0
<1>1. \A o \in Order : TotalKobo(o) \in Nat /\ TotalKobo(o) > 0
  BY OrderAssumption DEF TotalKobo
<1>2. QED
  BY <1>1, OrderAssumption DEF Prices

LEMMA SumKoboSum == \A S : SumKobo(S) = SumFunctionOnSet(Prices, S)
  BY DEF SumKobo, Prices

LEMMA MoreCostsMore ==
    ASSUME NEW A \in SUBSET Order, NEW B \in SUBSET A, SumKobo(A) = SumKobo(B)
    PROVE  A = B
<1>1. SUFFICES ASSUME NEW x \in A \ B PROVE FALSE
  OBVIOUS
<1>2. A \ {x} \in SUBSET Order /\ B \in SUBSET (A \ {x})
  OBVIOUS
<1>3. SumFunctionOnSet(Prices, A) = Prices[x] + SumFunctionOnSet(Prices, A \ {x})
  BY PricesType, SumRemove
<1>4. SumFunctionOnSet(Prices, B) <= SumFunctionOnSet(Prices, A \ {x})
  <2>1. \A y \in (A \ {x}) \ B : Prices[y] >= 0
    BY PricesType
  <2> DEFINE C == A \ {x}
  <2>2. C \in SUBSET Order /\ B \in SUBSET C /\ \A y \in C \ B : Prices[y] >= 0
    BY <1>2, <2>1
  <2> HIDE DEF C
  <2>3. SumFunctionOnSet(Prices, B) <= SumFunctionOnSet(Prices, C)
    BY <2>2, PricesType, SumSubset
  <2>4. QED
    BY <2>3 DEF C
<1>5. SumFunctionOnSet(Prices, A \ {x}) \in Int /\ SumFunctionOnSet(Prices, B) \in Int
  BY <1>2, PricesType, SumInt
<1>6. QED
  BY <1>3, <1>4, <1>5, PricesType, SumKoboSum

LEMMA SomethingCosts ==
    ASSUME NEW A \in SUBSET Order, A # {}
    PROVE  SumKobo(A) # 0
<1>1. SumKobo({}) = 0
  BY SumKoboSum, SumEmpty
<1>2. QED
  BY <1>1, MoreCostsMore

LEMMA NestedAndEqual ==
    \A A, B \in SUBSET Order : Nested(A, B) /\ SumKobo(A) = SumKobo(B) => A = B
  BY MoreCostsMore DEF Nested

-----------------------------------------------------------------------------
(* What a step leaves alone. *)

LEMMA SettledWithin ==
    ASSUME CheckoutRows, NEW r \in Ref
    PROVE  Settled(r) \subseteq OnRef(r) /\ OnRef(r) \subseteq Order /\ Settled(r) \subseteq Order
  BY DEF CheckoutRows, Settled, OnRef

\* The rows and the charges stand.
LEMMA RowsStand ==
    ASSUME NoticesInv, UNCHANGED <<orders, wallet, charged>>
    PROVE  /\ CheckoutRows' /\ CreditRows' /\ PlacedWhole' /\ ChargedForBasket'
           /\ \A r \in Ref : Settled(r)' = Settled(r) /\ OnRef(r)' = OnRef(r)
<1>1. \A r : Settled(r)' = Settled(r) /\ OnRef(r)' = OnRef(r)
  BY DEF Settled, OnRef
<1>2. CheckoutRows' /\ CreditRows'
  BY <1>1 DEF NoticesInv, CheckoutRows, CreditRows, CreditKobo
<1>3. PlacedWhole' /\ ChargedForBasket'
  BY <1>1 DEF NoticesInv, PlacedWhole, ChargedForBasket, Whole
<1>4. QED
  BY <1>1, <1>2, <1>3

\* Workers that go on confirming read what they did before, and others stopped.
LEMMA ReadsStand ==
    ASSUME NoticesInv, UNCHANGED <<orders, wallet, charged>>,
           \A w \in Worker : \/ task'[w] = Idle
                             \/ task'[w] = task[w] /\ telling'[w] \in {telling[w], {}}
    PROVE  ReadsInv' /\ ReadsNested' /\ SettledOnce'
<1>1. \A r \in Ref : Settled(r)' = Settled(r) /\ OnRef(r)' = OnRef(r)
  BY RowsStand
<1>2. \A w \in Worker : Confirming(w)' =>
          Confirming(w) /\ task'[w] = task[w] /\ task[w].ref \in Ref /\ telling'[w] \in {telling[w], {}}
  BY TaskFields DEF Confirming, Idle, NoticesInv, NoticesType, TypeOK
<1>3. ReadsInv'
  <2>1. ASSUME NEW w \in Worker PROVE task'[w] = Idle \/ Confirming(w)'
    BY DEF NoticesInv, ReadsInv, Confirming
  <2>2. ASSUME NEW w \in Worker, Confirming(w)'
        PROVE  /\ (task[w].targets \subseteq OnRef(task[w].ref))'
               /\ Whole(task[w].targets)'
               /\ telling'[w] = {}
    <3>1. /\ Confirming(w) /\ task'[w] = task[w] /\ OnRef(task[w].ref)' = OnRef(task[w].ref)
      BY <1>2, <2>2 DEF OnRef
    <3>2. telling'[w] = {}
      BY <1>2, <2>2, <3>1 DEF NoticesInv, ReadsInv
    <3>3. QED
      BY <3>1, <3>2 DEF NoticesInv, ReadsInv, Whole
  <2>3. QED
    BY <2>1, <2>2 DEF ReadsInv
<1>4. ReadsNested'
  BY <1>2 DEF NoticesInv, ReadsNested, Nested
<1>5. SettledOnce'
  BY <1>1, <1>2 DEF NoticesInv, SettledOnce, Nested, SumKobo, TotalKobo
<1>6. QED
  BY <1>3, <1>4, <1>5

-----------------------------------------------------------------------------
(* One lemma per action. *)

LEMMA InsertOrdersNotices ==
    ASSUME NoticesInv, NEW S \in Basket, InsertOrders(S), UNCHANGED noticeVars, TypeOK'
    PROVE  NoticesInv'
<1> USE DEF InsertOrders, noticeVars
<1>1. \A o \in Order : orders'[o] = IF o \in S THEN [Unplaced EXCEPT !.status = "awaiting_payment"] ELSE orders[o]
  OBVIOUS
<1>2. \A o \in Order : o \in S => orders[o].status = "unplaced" /\ ~orders[o].paid
  BY BasketAssumption DEF NoticesInv, CheckoutRows
<1>3. \A o \in Order : /\ orders'[o].status = IF o \in S THEN "awaiting_payment" ELSE orders[o].status
                       /\ orders'[o].paid = IF o \in S THEN FALSE ELSE orders[o].paid
  BY <1>1 DEF Unplaced
<1>4. \A o \in Order : orders'[o].paid <=> orders[o].paid
  BY <1>2, <1>3
<1>5. \A r \in Ref : Settled(r)' = Settled(r)
  BY <1>4 DEF Settled
<1>6. \A r \in Ref : OnRef(r) \subseteq OnRef(r)'
  BY <1>3 DEF OnRef
<1>7. CheckoutRows'
  BY <1>2, <1>3, <1>4 DEF NoticesInv, CheckoutRows
<1>8. CreditRows'
  BY <1>4, <1>5, OrderAssumption DEF NoticesInv, CreditRows, CreditKobo
<1>9. PlacedWhole'
  <2>1. ASSUME NEW r \in Ref, NEW o \in OnRef(r)' PROVE \E T \in Basket : o \in T /\ T \subseteq OnRef(r)'
    <3>1. CASE o \in S
      <4>1. \A p \in S : p \in Order /\ RefOf[p] = r
        BY <3>1, BasketAssumption DEF OnRef
      <4>2. S \subseteq OnRef(r)'
        BY <1>3, <4>1 DEF OnRef
      <4>3. QED
        BY <3>1, <4>2
    <3>2. CASE o \notin S
      <4>1. o \in OnRef(r)
        BY <1>3, <3>2 DEF OnRef
      <4>2. QED
        BY <1>6, <4>1 DEF NoticesInv, PlacedWhole, Whole
    <3>3. QED
      BY <3>1, <3>2
  <2>2. ASSUME NEW r \in Ref PROVE Whole(Settled(r))'
    BY <1>5 DEF NoticesInv, PlacedWhole, Whole
  <2>3. QED
    BY <2>1, <2>2 DEF PlacedWhole, Whole
<1>10. ChargedForBasket'
  BY <1>6 DEF NoticesInv, ChargedForBasket, SumKobo, TotalKobo
<1>11. \A w \in Worker : Confirming(w) => task[w].ref \in Ref
  BY TaskFields DEF Confirming, NoticesInv, NoticesType, TypeOK
<1>12. ReadsInv' /\ ReadsNested'
  BY <1>6, <1>11 DEF NoticesInv, ReadsInv, ReadsNested, Confirming, Whole, Nested
<1>13. SettledOnce'
  BY <1>5, <1>11 DEF NoticesInv, SettledOnce, Confirming, Nested, SumKobo, TotalKobo
<1>14. PaidAreTold'
  BY <1>4 DEF NoticesInv, PaidAreTold
<1>15. NoticesType'
  BY DEF NoticesInv, NoticesType
<1>16. QED
  BY <1>7, <1>8, <1>9, <1>10, <1>12, <1>13, <1>14, <1>15 DEF NoticesInv

LEMMA BuyerPaysNotices ==
    ASSUME NoticesInv, NEW r \in Ref, NEW S \in Basket, BuyerPays(r, S), UNCHANGED noticeVars, TypeOK'
    PROVE  NoticesInv'
<1> USE DEF BuyerPays, noticeVars
<1>1. \A q \in Ref : Settled(q)' = Settled(q) /\ OnRef(q)' = OnRef(q)
  BY DEF Settled, OnRef
<1>2. \A q \in Ref : charged'[q] = IF q = r THEN SumKobo(S) ELSE charged[q]
  BY DEF NoticesInv, NoticesType, TypeOK
<1>3. Settled(r) = {}
  BY SettledWithin, SomethingCosts DEF NoticesInv, SettledOnce
<1>4. CheckoutRows' /\ CreditRows' /\ PlacedWhole'
  BY <1>1, OrderAssumption DEF NoticesInv, CheckoutRows, CreditRows, CreditKobo, PlacedWhole, Whole
<1>5. ChargedForBasket'
  BY <1>1, <1>2 DEF NoticesInv, ChargedForBasket, SumKobo, TotalKobo
<1>6. \A w \in Worker : Confirming(w) => task[w].ref \in Ref
  BY TaskFields DEF Confirming, NoticesInv, NoticesType, TypeOK
<1>7. ReadsInv' /\ ReadsNested'
  BY <1>1, <1>6 DEF NoticesInv, ReadsInv, ReadsNested, Confirming, Whole, Nested
<1>8. SettledOnce'
  BY <1>1, <1>2, <1>3, <1>6 DEF NoticesInv, SettledOnce, Confirming, Nested, SumKobo, TotalKobo
<1>9. NoticesType' /\ PaidAreTold'
  BY DEF NoticesInv, NoticesType, PaidAreTold
<1>10. QED
  BY <1>4, <1>5, <1>7, <1>8, <1>9 DEF NoticesInv

LEMMA MarkAbandonedNotices ==
    ASSUME NoticesInv, NEW S \in SUBSET Order, MarkAbandonedOrders(S), UNCHANGED noticeVars, TypeOK'
    PROVE  NoticesInv'
<1> USE DEF MarkAbandonedOrders, noticeVars
<1>0. \A o \in Order : orders[o] \in Row
  BY DEF NoticesInv, NoticesType, TypeOK
<1>1. \A o \in Order : /\ orders'[o].status = IF o \in S THEN "abandoned" ELSE orders[o].status
                       /\ orders'[o].paid = orders[o].paid
  BY <1>0 DEF Row
<1>2. \A o \in Order : orders'[o].status = "unplaced" <=> orders[o].status = "unplaced"
  BY <1>1
<1>3. \A q \in Ref : Settled(q)' = Settled(q) /\ OnRef(q)' = OnRef(q)
  BY <1>1, <1>2 DEF Settled, OnRef
<1>4. CheckoutRows' /\ CreditRows' /\ PlacedWhole'
  BY <1>1, <1>3, OrderAssumption DEF NoticesInv, CheckoutRows, CreditRows, CreditKobo, PlacedWhole, Whole
<1>5. ChargedForBasket'
  BY <1>3 DEF NoticesInv, ChargedForBasket, SumKobo, TotalKobo
<1>6. \A w \in Worker : Confirming(w) => task[w].ref \in Ref
  BY TaskFields DEF Confirming, NoticesInv, NoticesType, TypeOK
<1>7. ReadsInv' /\ ReadsNested'
  BY <1>3, <1>6 DEF NoticesInv, ReadsInv, ReadsNested, Confirming, Whole, Nested
<1>8. SettledOnce'
  BY <1>3, <1>6 DEF NoticesInv, SettledOnce, Confirming, Nested, SumKobo, TotalKobo
<1>9. NoticesType' /\ PaidAreTold'
  BY <1>1 DEF NoticesInv, NoticesType, PaidAreTold
<1>10. QED
  BY <1>4, <1>5, <1>7, <1>8, <1>9 DEF NoticesInv

LEMMA ConfirmStartsNotices ==
    ASSUME NoticesInv, NEW w \in Worker, ConfirmStarts(w), UNCHANGED noticeVars, TypeOK'
    PROVE  NoticesInv'
<1>1. PICK r \in Ref : ConfirmRead(w, r)
  BY DEF ConfirmStarts
<1> DEFINE t == [op |-> "confirm", ref |-> r, targets |-> OnRef(r)]
<1>2. /\ telling[w] = {} /\ task' = [task EXCEPT ![w] = t]
      /\ UNCHANGED <<orders, wallet, charged>> /\ UNCHANGED <<telling, receipts, missed>>
  BY <1>1 DEF ConfirmStarts, ConfirmRead, Start, noticeVars
<1>3. task'[w] = t /\ \A u \in Worker \ {w} : task'[u] = task[u]
  BY <1>2 DEF NoticesInv, NoticesType, TypeOK
<1>4. \A q \in Ref : Settled(q)' = Settled(q) /\ OnRef(q)' = OnRef(q)
  BY <1>2, RowsStand
<1>5. Settled(r) \subseteq OnRef(r)
  BY SettledWithin DEF NoticesInv
<1>6. \A u \in Worker : Confirming(u) => task[u].ref \in Ref /\ task[u].targets \subseteq OnRef(task[u].ref)
  BY TaskFields DEF Confirming, NoticesInv, NoticesType, TypeOK, ReadsInv
<1>7. ReadsInv'
  <2>1. ASSUME NEW u \in Worker, u # w
        PROVE  /\ task'[u] = Idle \/ Confirming(u)'
               /\ Confirming(u)' => /\ (task[u].targets \subseteq OnRef(task[u].ref))'
                                    /\ Whole(task[u].targets)'
                                    /\ telling'[u] = {}
    BY <1>2, <1>3, <1>4, <1>6, <2>1 DEF NoticesInv, ReadsInv, Confirming, Whole
  <2>2. Confirming(w)' /\ task'[w].targets = OnRef(r) /\ task'[w].ref = r
    BY <1>3 DEF Confirming
  <2>3. Whole(OnRef(r)) /\ OnRef(r)' = OnRef(r)
    BY <1>4 DEF NoticesInv, PlacedWhole
  <2>4. (task[w].targets \subseteq OnRef(task[w].ref))' /\ Whole(task[w].targets)' /\ telling'[w] = {}
    BY <1>2, <2>2, <2>3 DEF Whole, OnRef
  <2>5. QED
    BY <2>1, <2>2, <2>4 DEF ReadsInv
<1>8. ReadsNested'
  <2>1. ASSUME NEW u \in Worker, NEW x \in Worker, Confirming(u)', Confirming(x)', task'[u].ref = task'[x].ref
        PROVE  Nested(task'[u].targets, task'[x].targets)
    <3>1. CASE u # w /\ x # w
      BY <1>3, <2>1, <3>1 DEF NoticesInv, ReadsNested, Confirming
    <3>2. CASE u = w /\ x # w
      BY <1>3, <1>6, <2>1, <3>2 DEF Confirming, Nested
    <3>3. CASE u # w /\ x = w
      BY <1>3, <1>6, <2>1, <3>3 DEF Confirming, Nested
    <3>4. CASE u = w /\ x = w
      BY <3>4 DEF Nested
    <3>5. QED
      BY <3>1, <3>2, <3>3, <3>4
  <2>2. QED
    BY <2>1 DEF ReadsNested, Nested
<1>9. SettledOnce'
  <2>1. ASSUME NEW q \in Ref, Settled(q)' # {}, NEW u \in Worker, Confirming(u)', task'[u].ref = q
        PROVE  Nested(task'[u].targets, Settled(q))
    <3>1. CASE u = w
      BY <1>3, <1>5, <2>1, <3>1 DEF Nested
    <3>2. CASE u # w
      BY <1>3, <1>4, <2>1, <3>2 DEF NoticesInv, SettledOnce, Confirming
    <3>3. QED
      BY <3>1, <3>2
  <2>2. QED
    BY <1>2, <1>4, <2>1 DEF NoticesInv, SettledOnce, Nested, SumKobo, TotalKobo
<1>10. NoticesType' /\ PaidAreTold'
  BY <1>2 DEF NoticesInv, NoticesType, PaidAreTold
<1>11. QED
  BY <1>2, <1>7, <1>8, <1>9, <1>10, RowsStand DEF NoticesInv

\* A confirmation is refused, or ends without a word.
LEMMA ConfirmEndsNotices ==
    ASSUME NoticesInv, NEW w \in Worker, task' = [task EXCEPT ![w] = Idle],
           UNCHANGED <<orders, wallet, charged>>, UNCHANGED noticeVars, TypeOK'
    PROVE  NoticesInv'
<1>1. \A u \in Worker : \/ task'[u] = Idle
                        \/ task'[u] = task[u] /\ telling'[u] \in {telling[u], {}}
  BY DEF NoticesInv, NoticesType, TypeOK, noticeVars
<1>2. NoticesType' /\ PaidAreTold'
  BY DEF NoticesInv, NoticesType, PaidAreTold, noticeVars
<1>3. QED
  BY <1>1, <1>2, RowsStand, ReadsStand DEF NoticesInv

LEMMA TellingNotices ==
    ASSUME NoticesInv, NEW w \in Worker, NotifyPaidOrders(w) \/ TellingFails(w)
    PROVE  NoticesInv'
<1>1. /\ UNCHANGED vars /\ telling' = [telling EXCEPT ![w] = {}]
      /\ UNCHANGED <<orders, wallet, charged>> /\ task' = task
  BY DEF NotifyPaidOrders, TellingFails, vars
<1>2. \A u \in Worker : /\ task'[u] = task[u] /\ telling'[u] \in {telling[u], {}}
                        /\ telling'[u] = IF u = w THEN {} ELSE telling[u]
  BY <1>1 DEF NoticesInv, NoticesType
<1>3. TypeOK'
  BY <1>1 DEF NoticesInv, NoticesType, TypeOK, vars
<1>4. CASE NotifyPaidOrders(w)
  <2>1. \A o \in Order : /\ receipts'[o] \in Nat
                         /\ receipts'[o] >= receipts[o]
                         /\ o \in UNION {ToTell(r) : r \in telling[w]} => receipts'[o] > 0
    BY <1>4 DEF NotifyPaidOrders, NotifyOrderCreated, NoticesInv, NoticesType
  <2>2. NoticesType'
    BY <1>1, <1>3, <1>4, <2>1
       DEF NoticesInv, NoticesType, NotifyPaidOrders, NotifyOrderCreated
  <2>3. \A o \in Order : orders[o].paid /\ RefOf[o] \in telling[w] => receipts'[o] > 0
    <3>1. \A o \in Order : orders[o].paid => o \in ToTell(RefOf[o])
      BY OrderAssumption DEF ToTell, FindOrdersByPaymentRef, OnRef, NoticesInv, CheckoutRows
    <3>2. QED
      BY <2>1, <3>1
  <2>4. PaidAreTold'
    BY <1>1, <1>2, <1>4, <2>1, <2>3 DEF NoticesInv, NoticesType, PaidAreTold, NotifyPaidOrders
  <2>5. QED
    BY <1>1, <1>2, <2>2, <2>4, RowsStand, ReadsStand DEF NoticesInv
<1>5. CASE TellingFails(w)
  <2>1. NoticesType'
    BY <1>1, <1>3, <1>5 DEF NoticesInv, NoticesType, TellingFails
  <2>2. PaidAreTold'
    BY <1>1, <1>2, <1>5 DEF NoticesInv, PaidAreTold, TellingFails
  <2>3. QED
    BY <1>1, <1>2, <2>1, <2>2, RowsStand, ReadsStand DEF NoticesInv
<1>6. QED
  BY <1>4, <1>5

\* The charge is settled: the same orders were read, and nothing of them is unpaid.
LEMMA CommitAgain ==
    ASSUME NoticesInv, NEW w \in Worker, ConfirmCommit(w), Settled(task[w].ref) # {}
    PROVE  UNCHANGED <<orders, wallet, charged>>
<1> DEFINE r == task[w].ref
           T == task[w].targets
<1>1. /\ Confirming(w) /\ r \in Ref /\ T \subseteq Order /\ charged[r] = SumKobo(T)
  BY TaskFields DEF ConfirmCommit, ChargeCovers, Confirming, NoticesInv, NoticesType, TypeOK
<1>2. charged[r] = SumKobo(Settled(r)) /\ Nested(T, Settled(r)) /\ Settled(r) \subseteq Order
  BY <1>1, SettledWithin DEF NoticesInv, SettledOnce
<1>3. T = Settled(r)
  <2>1. SumKobo(T) = SumKobo(Settled(r))
    BY <1>1, <1>2
  <2>2. QED
    BY <1>1, <1>2, <2>1, NestedAndEqual
<1>4. MarkedPaid(T) = {}
  BY <1>3 DEF MarkedPaid, Settled, Unpaid, NoticesInv, CheckoutRows
<1>5. orders' = [o \in Order |-> orders[o]] /\ wallet' = [o \in Order |-> wallet[o]]
  BY <1>4 DEF ConfirmCommit
<1>6. orders' = orders /\ wallet' = wallet
  BY <1>5 DEF NoticesInv, NoticesType, TypeOK
<1>7. QED
  BY <1>6 DEF ConfirmCommit

\* The charge is settled by this commit, with every order that was read.
LEMMA CommitSettles ==
    ASSUME NoticesInv, NEW w \in Worker, ConfirmCommit(w), Settled(task[w].ref) = {}
    PROVE  /\ task[w].ref \in Ref /\ task[w].targets \subseteq OnRef(task[w].ref)
           /\ charged[task[w].ref] = SumKobo(task[w].targets)
           /\ \A o \in Order :
                /\ o \in task[w].targets => ~orders[o].paid /\ RefOf[o] = task[w].ref
                /\ orders'[o].paid <=> orders[o].paid \/ o \in task[w].targets
                /\ orders'[o].status = IF o \in task[w].targets THEN "confirmed" ELSE orders[o].status
                /\ wallet'[o] = IF o \in task[w].targets
                                THEN [status |-> "pending", kobo |-> CreditKobo(o, task[w].targets)]
                                ELSE wallet[o]
           /\ \A q \in Ref : Settled(q)' = IF q = task[w].ref THEN task[w].targets ELSE Settled(q)
           /\ \A q \in Ref : OnRef(q)' = OnRef(q)
<1> DEFINE r == task[w].ref
           T == task[w].targets
<1>1. /\ Confirming(w) /\ r \in Ref /\ T \subseteq Order /\ charged[r] = SumKobo(T) /\ T \subseteq OnRef(r)
  BY TaskFields DEF ConfirmCommit, ChargeCovers, Confirming, NoticesInv, NoticesType, TypeOK, ReadsInv
<1>2. \A o \in T : /\ ~orders[o].paid /\ RefOf[o] = r /\ Unpaid(o) /\ orders[o].status # "unplaced"
                   /\ wallet[o].status = "none"
  BY <1>1 DEF Settled, OnRef, Unpaid, NoticesInv, CheckoutRows, CreditRows
<1>3. MarkedPaid(T) = T
  BY <1>2 DEF MarkedPaid
<1>4. \A o \in Order :
        /\ orders'[o] = IF o \in T THEN [orders[o] EXCEPT !.status = "confirmed", !.paid = TRUE] ELSE orders[o]
        /\ wallet'[o] = IF o \in T THEN [status |-> "pending", kobo |-> CreditKobo(o, T)] ELSE wallet[o]
  BY <1>2, <1>3 DEF ConfirmCommit
<1>5. \A o \in Order : orders[o] \in Row
  BY DEF NoticesInv, NoticesType, TypeOK
<1>6. \A o \in Order : /\ orders'[o].paid <=> orders[o].paid \/ o \in T
                       /\ orders'[o].status = IF o \in T THEN "confirmed" ELSE orders[o].status
  BY <1>4, <1>5 DEF Row
<1>7. \A q \in Ref : Settled(q)' = IF q = r THEN T ELSE Settled(q)
  BY <1>1, <1>2, <1>6 DEF Settled
<1>8. \A q \in Ref : OnRef(q)' = OnRef(q)
  BY <1>2, <1>6 DEF OnRef
<1>9. QED
  BY <1>1, <1>2, <1>4, <1>6, <1>7, <1>8

LEMMA CommitNotices ==
    ASSUME NoticesInv, NEW w \in Worker, CommitThenTell(w), TypeOK'
    PROVE  NoticesInv'
<1> DEFINE r == task[w].ref
           T == task[w].targets
<1>1. /\ ConfirmCommit(w) /\ Confirming(w) /\ telling' = [telling EXCEPT ![w] = {r}]
      /\ UNCHANGED <<receipts, missed>> /\ task' = [task EXCEPT ![w] = Idle] /\ charged' = charged
      /\ r \in Ref
  BY TaskFields DEF CommitThenTell, ConfirmCommit, Confirming, Finish, Become, NoticesInv, NoticesType, TypeOK
<1>2. \A u \in Worker : IF u = w THEN task'[u] = Idle /\ telling'[u] = {r}
                                 ELSE task'[u] = task[u] /\ telling'[u] = telling[u]
  BY <1>1 DEF NoticesInv, NoticesType, TypeOK
<1>3. telling[w] = {}
  BY <1>1 DEF NoticesInv, ReadsInv
<1>4. NoticesType'
  BY <1>1 DEF NoticesInv, NoticesType
<1>5. CASE Settled(r) # {}
  <2>1. UNCHANGED <<orders, wallet, charged>>
    BY <1>1, <1>5, CommitAgain
  <2>2. PaidAreTold'
    BY <1>1, <1>2, <1>3, <2>1 DEF NoticesInv, PaidAreTold
  <2>3. ReadsInv' /\ ReadsNested' /\ SettledOnce'
    BY <1>2, <2>1, ReadsStand
  <2>4. QED
    BY <1>4, <2>1, <2>2, <2>3, RowsStand DEF NoticesInv
<1>6. CASE Settled(r) = {}
  <2>1. /\ T \subseteq OnRef(r) /\ charged[r] = SumKobo(T)
        /\ \A o \in Order :
             /\ o \in T => ~orders[o].paid /\ RefOf[o] = r
             /\ orders'[o].paid <=> orders[o].paid \/ o \in T
             /\ orders'[o].status = IF o \in T THEN "confirmed" ELSE orders[o].status
             /\ wallet'[o] = IF o \in T THEN [status |-> "pending", kobo |-> CreditKobo(o, T)] ELSE wallet[o]
        /\ \A q \in Ref : Settled(q)' = IF q = r THEN T ELSE Settled(q)
        /\ \A q \in Ref : OnRef(q)' = OnRef(q)
    BY <1>1, <1>6, CommitSettles
  <2>2. CheckoutRows'
    BY <2>1 DEF NoticesInv, CheckoutRows
  <2>3. CreditRows'
    <3>1. ASSUME NEW o \in Order
          PROVE  /\ orders'[o].paid <=> wallet'[o].status # "none"
                 /\ wallet'[o].kobo = IF orders'[o].paid THEN CreditKobo(o, Settled(RefOf[o])') ELSE 0
      <4>1. CASE o \in T
        <5>1. wallet'[o] = [status |-> "pending", kobo |-> CreditKobo(o, T)] /\ orders'[o].paid
          BY <2>1, <4>1
        <5>2. RefOf[o] = r
          BY <2>1, <4>1
        <5>3. Settled(RefOf[o])' = T
          BY <1>1, <2>1, <5>2
        <5>4. QED
          BY <5>1, <5>3
      <4>2. CASE o \notin T
        <5>1. RefOf[o] \in Ref
          BY OrderAssumption
        <5>2. orders[o].paid => RefOf[o] # r
          BY <1>6 DEF Settled
        <5>3. QED
          BY <2>1, <4>2, <5>1, <5>2 DEF NoticesInv, CreditRows
      <4>3. QED
        BY <4>1, <4>2
    <3>2. QED
      BY <3>1 DEF CreditRows, CreditKobo
  <2>4. PlacedWhole' /\ ChargedForBasket'
    <3>1. Whole(T)
      BY <1>1 DEF NoticesInv, ReadsInv
    <3>2. QED
      BY <1>1, <2>1, <3>1 DEF NoticesInv, PlacedWhole, ChargedForBasket, Whole, SumKobo, TotalKobo
  <2>5. \A u \in Worker : Confirming(u)' => u # w /\ Confirming(u) /\ task'[u] = task[u] /\ task[u].ref \in Ref
    BY <1>2, TaskFields DEF Confirming, Idle, NoticesInv, NoticesType, TypeOK
  <2>6. ReadsInv'
    <3>1. ASSUME NEW u \in Worker
          PROVE  /\ task'[u] = Idle \/ Confirming(u)'
                 /\ Confirming(u)' => /\ (task[u].targets \subseteq OnRef(task[u].ref))'
                                      /\ Whole(task[u].targets)'
                                      /\ telling'[u] = {}
      <4>1. task'[u] = Idle \/ Confirming(u)'
        BY <1>2 DEF NoticesInv, ReadsInv, Confirming
      <4>2. ASSUME Confirming(u)'
            PROVE  (task[u].targets \subseteq OnRef(task[u].ref))' /\ Whole(task[u].targets)' /\ telling'[u] = {}
        <5>1. Confirming(u) /\ task'[u] = task[u] /\ OnRef(task[u].ref)' = OnRef(task[u].ref) /\ telling'[u] = telling[u]
          BY <1>2, <2>1, <2>5, <4>2 DEF OnRef
        <5>2. QED
          BY <5>1 DEF NoticesInv, ReadsInv, Whole
      <4>3. QED
        BY <4>1, <4>2
    <3>2. QED
      BY <3>1 DEF ReadsInv
  <2>7. ReadsNested'
    BY <2>5 DEF NoticesInv, ReadsNested, Nested
  <2>8. SettledOnce'
    <3>1. ASSUME NEW q \in Ref, Settled(q)' # {}
          PROVE  /\ charged'[q] = SumKobo(Settled(q)')
                 /\ \A u \in Worker : Confirming(u)' /\ task'[u].ref = q => Nested(task'[u].targets, Settled(q)')
      <4>1. CASE q = r
        BY <1>1, <2>1, <2>5, <4>1 DEF NoticesInv, ReadsNested
      <4>2. CASE q # r
        BY <1>1, <2>1, <2>5, <3>1, <4>2 DEF NoticesInv, SettledOnce
      <4>3. QED
        BY <4>1, <4>2
    <3>2. QED
      BY <3>1 DEF SettledOnce, SumKobo, TotalKobo, Nested
  <2>9. PaidAreTold'
    BY <1>1, <1>2, <1>3, <2>1 DEF NoticesInv, PaidAreTold
  <2>10. QED
    BY <1>4, <2>2, <2>3, <2>4, <2>6, <2>7, <2>8, <2>9 DEF NoticesInv
<1>7. QED
  BY <1>5, <1>6

-----------------------------------------------------------------------------
(* The inductive step. *)

NoticesNext == NoticesStep \/ \E w \in Worker : Fail(w) /\ UNCHANGED noticeVars

LEMMA InitNotices == NoticesInit => NoticesInv
<1> SUFFICES ASSUME NoticesInit PROVE NoticesInv
  OBVIOUS
<1>1. TypeOK
  BY InitType DEF NoticesInit
<1>2. \A o \in Order : orders[o] = Unplaced /\ wallet[o] = [status |-> "none", kobo |-> 0]
  BY DEF NoticesInit, Init
<1>3. \A r \in Ref : Settled(r) = {} /\ OnRef(r) = {} /\ charged[r] = 0
  BY <1>2 DEF Settled, OnRef, Unplaced, NoticesInit, Init
<1>4. CheckoutRows /\ CreditRows
  BY <1>2 DEF CheckoutRows, CreditRows, Unplaced
<1>5. PlacedWhole /\ ChargedForBasket /\ SettledOnce
  BY <1>3 DEF PlacedWhole, ChargedForBasket, SettledOnce, Whole
<1>6. ReadsInv /\ ReadsNested
  BY DEF ReadsInv, ReadsNested, Confirming, Idle, NoticesInit, Init
<1>7. PaidAreTold
  BY <1>2 DEF PaidAreTold, Unplaced
<1>8. NoticesType
  BY <1>1 DEF NoticesType, NoticesInit
<1>9. QED
  BY <1>4, <1>5, <1>6, <1>7, <1>8 DEF NoticesInv

LEMMA NextNotices == NoticesInv /\ [NoticesNext]_noticesVars => NoticesInv'
<1> SUFFICES ASSUME NoticesInv, [NoticesNext]_noticesVars PROVE NoticesInv'
  OBVIOUS
<1>0. TypeOK
  BY DEF NoticesInv, NoticesType
<1>1. CASE (Buyer \/ AbandonedSweep) /\ UNCHANGED noticeVars
  <2>0. TypeOK'
    BY <1>0, <1>1, BuyerType
  <2>1. ASSUME NEW S \in Basket, InsertOrders(S) PROVE NoticesInv'
    BY <1>1, <2>0, <2>1, InsertOrdersNotices
  <2>2. ASSUME NEW r \in Ref, NEW S \in Basket, BuyerPays(r, S) PROVE NoticesInv'
    BY <1>1, <2>0, <2>2, BuyerPaysNotices
  <2>3. ASSUME NEW S \in SUBSET Order, MarkAbandonedOrders(S) PROVE NoticesInv'
    BY <1>1, <2>0, <2>3, MarkAbandonedNotices
  <2>4. QED
    BY <1>1, <2>1, <2>2, <2>3 DEF Buyer, AbandonedSweep, PlaceOrder, PlaceCheckout
<1>2. ASSUME NEW w \in Worker, ConfirmStarts(w) /\ UNCHANGED noticeVars PROVE NoticesInv'
  BY <1>0, <1>2, ConfirmPaymentType, ConfirmStartsNotices DEF ConfirmStarts, ConfirmPayment
<1>3. ASSUME NEW w \in Worker, (ConfirmRefused(w) \/ Fail(w)) /\ UNCHANGED noticeVars PROVE NoticesInv'
  <2>1. task' = [task EXCEPT ![w] = Idle] /\ UNCHANGED <<orders, wallet, charged, refunds, overridden>>
    BY <1>3 DEF ConfirmRefused, Fail, Finish, Become
  <2>2. TypeOK'
    BY <1>0, <2>1, IdleType DEF TypeOK
  <2>3. QED
    BY <1>3, <2>1, <2>2, ConfirmEndsNotices
<1>4. ASSUME NEW w \in Worker, CommitThenTell(w) PROVE NoticesInv'
  BY <1>0, <1>4, ConfirmPaymentType, CommitNotices DEF CommitThenTell, ConfirmPayment
<1>5. ASSUME NEW w \in Worker, NotifyPaidOrders(w) \/ TellingFails(w) PROVE NoticesInv'
  BY <1>5, TellingNotices
<1>6. CASE UNCHANGED noticesVars
  <2>1. UNCHANGED <<orders, wallet, charged, refunds, overridden, task>> /\ UNCHANGED <<telling, receipts, missed>>
    BY <1>6 DEF noticesVars, vars, noticeVars
  <2>2. NoticesType' /\ PaidAreTold'
    BY <2>1 DEF NoticesInv, NoticesType, TypeOK, PaidAreTold
  <2>3. QED
    BY <2>1, <2>2, RowsStand, ReadsStand DEF NoticesInv
<1>7. QED
  BY <1>1, <1>2, <1>3, <1>4, <1>5, <1>6 DEF NoticesNext, NoticesStep

\* What the confirmations keep, on rows, charges and reads alike.
THEOREM CheckoutInvariant == NoticesSpec => []NoticesInv
<1>1. NoticesSpec <=> NoticesInit /\ [][NoticesNext]_noticesVars
  BY DEF NoticesSpec, NoticesNext
<1>2. QED
  BY <1>1, InitNotices, NextNotices, PTL

-----------------------------------------------------------------------------
(* What is credited. *)

LEMMA CreditsWithinPrices ==
    ASSUME NoticesInv, NEW o \in Order
    PROVE  /\ wallet[o].kobo \in Nat
           /\ ~orders[o].paid => wallet[o].kobo = 0
           /\ wallet[o].kobo <= TotalKobo(o)
<1>1. wallet[o].kobo = IF orders[o].paid THEN CreditKobo(o, Settled(RefOf[o])) ELSE 0
  BY DEF NoticesInv, CreditRows
<1>2. QED
  BY <1>1, OrderAssumption DEF CreditKobo, TotalKobo

LEMMA CreditsAreCovered == NoticesInv => CreditsCovered
<1> SUFFICES ASSUME NoticesInv, NEW r \in Ref
             PROVE  SumFunctionOnSet([o \in Order |-> wallet[o].kobo], {o \in Order : RefOf[o] = r}) <= charged[r]
  BY DEF CreditsCovered
<1> DEFINE K == [o \in Order |-> wallet[o].kobo]
           U == {o \in Order : RefOf[o] = r}
           G == Part(Prices, Settled(r))
<1>1. Settled(r) \in SUBSET Order /\ U \in SUBSET Order
  BY DEF Settled
<1>2. K \in [Order -> Int] /\ \A o \in Order : K[o] = wallet[o].kobo
  BY CreditsWithinPrices
<1>3. G \in [Order -> Int] /\ \A o \in Order : G[o] = IF o \in Settled(r) THEN Prices[o] ELSE 0
  BY PricesType, PartType
<1> HIDE DEF K, G
<1>4. \A o \in U : K[o] <= G[o]
  BY <1>2, <1>3, CreditsWithinPrices, PricesType DEF Settled
<1> HIDE DEF U
<1>5. SumFunctionOnSet(K, U) <= SumFunctionOnSet(G, U)
  BY <1>1, <1>2, <1>3, <1>4, PricesType, SumAtMost
<1>6. SumFunctionOnSet(G, U) <= SumFunctionOnSet(G, Order)
  <2>1. Order \in SUBSET Order /\ \A x \in Order \ U : G[x] >= 0
    BY <1>3, PricesType
  <2>2. QED
    BY <1>1, <1>3, <2>1, PricesType, SumSubset
<1>7. SumFunctionOnSet(G, Order) = SumKobo(Settled(r))
  BY <1>1, PricesType, SumOfPart, SumKoboSum DEF G
<1>8. SumKobo(Settled(r)) <= charged[r]
  <2>1. CASE Settled(r) = {}
    <3>1. SumKobo({}) = 0
      BY SumKoboSum, SumEmpty
    <3>2. charged[r] \in Nat
      BY DEF NoticesInv, NoticesType, TypeOK
    <3>3. QED
      BY <2>1, <3>1, <3>2
  <2>2. CASE Settled(r) # {}
    <3>1. charged[r] = SumKobo(Settled(r)) /\ SumKobo(Settled(r)) \in Nat
      BY <1>1, <2>2, SumKoboType DEF NoticesInv, SettledOnce
    <3>2. QED
      BY <3>1
  <2>3. QED
    BY <2>1, <2>2
<1>9. /\ SumFunctionOnSet(K, U) \in Int /\ SumFunctionOnSet(G, U) \in Int
      /\ SumFunctionOnSet(G, Order) \in Int /\ charged[r] \in Int
  <2>1. Order \in SUBSET Order
    OBVIOUS
  <2>2. QED
    BY <1>1, <1>2, <1>3, <2>1, PricesType, SumInt DEF NoticesInv, NoticesType, TypeOK
<1>10. QED
  BY <1>5, <1>6, <1>7, <1>8, <1>9 DEF K, U

\* An order is credited for what was paid with it.
LEMMA FeesFollowPayment == NoticesInv => FeeForLoneOrder
<1> SUFFICES ASSUME NoticesInv, NEW o \in Order, orders[o].paid
             PROVE  wallet[o].kobo = ItemsKobo[o] + (IF Settled(RefOf[o]) = {o} THEN FeeKobo[o] ELSE 0)
  BY DEF FeeForLoneOrder
<1> DEFINE A == Settled(RefOf[o])
<1>1. o \in A /\ A \subseteq Order /\ IsFiniteSet(A)
  BY OrderAssumption, FS_Subset DEF Settled
<1>2. wallet[o].kobo = ItemsKobo[o] + (IF Cardinality(A) = 1 THEN FeeKobo[o] ELSE 0)
  BY DEF NoticesInv, CreditRows, CreditKobo
<1>3. Cardinality(A) = 1 <=> A = {o}
  <2>1. Cardinality(A) = 1 => \E x : A = {x}
    BY <1>1, FS_Singleton
  <2>2. QED
    BY <1>1, <2>1, FS_Singleton
<1>4. QED
  BY <1>2, <1>3

\* Where requests are alike, the orders a charge settled are one request's.
LEMMA SettledIsBasket ==
    ASSUME NoticesInv, NEW r \in Ref, Settled(r) # {}, Alike(r)
    PROVE  Settled(r) \in Basket
<1>1. PICK o : o \in Settled(r)
  OBVIOUS
<1>2. o \in Order /\ RefOf[o] = r /\ Settled(r) \in SUBSET Order
  BY <1>1 DEF Settled
<1>3. PICK S \in Basket : o \in S /\ S \subseteq Settled(r)
  BY <1>1 DEF NoticesInv, PlacedWhole, Whole
<1>4. charged[r] = SumKobo(Settled(r)) /\ charged[r] # 0
  BY <1>2, SomethingCosts DEF NoticesInv, SettledOnce
<1>5. PICK T \in Basket : T \subseteq OnRef(r) /\ charged[r] = SumKobo(T)
  BY <1>4 DEF NoticesInv, ChargedForBasket
<1>6. S \subseteq OnRef(r)
  BY <1>3, SettledWithin DEF NoticesInv
<1>7. SumKobo(S) = SumKobo(T)
  BY <1>5, <1>6 DEF Alike
<1>8. S = Settled(r)
  <2>1. S \in SUBSET Settled(r) /\ SumKobo(Settled(r)) = SumKobo(S)
    BY <1>3, <1>4, <1>5, <1>7
  <2>2. QED
    BY <1>2, <2>1, MoreCostsMore
<1>9. QED
  BY <1>3, <1>8

LEMMA FeesFollow == NoticesInv => FeeFollowsDeliverer
<1> SUFFICES ASSUME NoticesInv, NEW o \in Order, orders[o].paid, Alike(RefOf[o])
             PROVE  wallet[o].kobo = ItemsKobo[o] + (IF GoMarketiDelivers(o) THEN 0 ELSE FeeKobo[o])
  BY DEF FeeFollowsDeliverer, DeliveryEarned
<1> DEFINE r == RefOf[o]
           A == Settled(r)
<1>1. r \in Ref /\ o \in A
  BY OrderAssumption DEF Settled
<1>2. A \in Basket
  BY <1>1, SettledIsBasket
<1>3. A \subseteq OnRef(r)
  BY <1>1, SettledWithin DEF NoticesInv
<1>4. wallet[o].kobo = ItemsKobo[o] + (IF A = {o} THEN FeeKobo[o] ELSE 0)
  BY FeesFollowPayment DEF FeeForLoneOrder
<1>5. CASE A = {o}
  <2>1. ASSUME NEW p \in OnRef(r) PROVE StoreOf[p] = StoreOf[o]
    <3>1. PICK S \in Basket : p \in S /\ S \subseteq OnRef(r)
      BY <1>1 DEF NoticesInv, PlacedWhole, Whole
    <3>2. {StoreOf[q] : q \in S} = {StoreOf[q] : q \in A}
      BY <1>2, <1>3, <3>1 DEF Alike
    <3>3. QED
      BY <1>5, <3>1, <3>2
  <2>2. ~GoMarketiDelivers(o)
    BY <2>1 DEF GoMarketiDelivers
  <2>3. QED
    BY <1>4, <1>5, <2>2
<1>6. CASE A # {o}
  <2>1. PICK p \in A : p # o
    BY <1>1, <1>6
  <2>2. StoreOf[p] # StoreOf[o]
    BY <1>1, <1>2, <1>3, <2>1 DEF Alike
  <2>3. GoMarketiDelivers(o)
    BY <1>3, <2>1, <2>2 DEF GoMarketiDelivers
  <2>4. QED
    BY <1>4, <1>6, <2>3
<1>7. QED
  BY <1>5, <1>6

\* However many confirmations race and whatever requests come under a reference, its vendors
\* are credited no more than was charged for it and the delivery fee goes with an order paid
\* alone.  Where the requests are alike, that is with whoever delivers.
THEOREM CreditsMatchCharges == NoticesSpec => []CreditsAsCharged
<1>1. NoticesInv => CreditsAsCharged
  BY CreditsAreCovered, FeesFollowPayment, FeesFollow DEF CreditsAsCharged
<1>2. QED
  BY <1>1, CheckoutInvariant, PTL

\* Nobody who has been paid goes untold but by a confirmation that fails after its commit.
THEOREM EveryPaymentTold == NoticesSpec => []PaidAreTold
<1>1. NoticesInv => PaidAreTold
  BY DEF NoticesInv
<1>2. QED
  BY <1>1, CheckoutInvariant, PTL

-----------------------------------------------------------------------------
(* The refinement. *)

LEMMA TotalIsSum == \A S : SettlementMap!Total(S) = SumKobo(S)
  BY DEF SettlementMap!Total, SettlementMap!SumFunctionOnSet, SettlementMap!FoldFunctionOnSet,
         SettlementMap!MapThenFoldSet, SumKobo, TotalKobo, SumFunctionOnSet, FoldFunctionOnSet, MapThenFoldSet

LEMMA InitSettles == NoticesInit => SettlementMap!Init
<1> SUFFICES ASSUME NoticesInit PROVE SettlementMap!Init
  OBVIOUS
<1>1. \A r \in Ref : Settled(r) = {}
  BY DEF Settled, Unplaced, NoticesInit, Init
<1>2. charged = [r \in Ref |-> 0]
  BY DEF NoticesInit, Init
<1>3. QED
  BY <1>1, <1>2 DEF SettlementMap!Init

LEMMA StepSettles ==
    NoticesInv /\ NoticesInv' /\ [NoticesNext]_noticesVars
        => [SettlementMap!Next]_<<charged, [r \in Ref |-> Settled(r)]>>
<1> SUFFICES ASSUME NoticesInv, NoticesInv', [NoticesNext]_noticesVars
             PROVE  \/ SettlementMap!Next
                    \/ charged' = charged /\ \A r \in Ref : Settled(r)' = Settled(r)
  OBVIOUS
<1>1. CASE UNCHANGED <<orders, charged>>
  BY <1>1 DEF Settled
<1>2. ASSUME NEW S \in Basket, InsertOrders(S)
      PROVE  charged' = charged /\ \A r \in Ref : Settled(r)' = Settled(r)
  <2>1. \A o \in Order : orders'[o].paid <=> orders[o].paid
    BY <1>2 DEF InsertOrders, Unplaced, NoticesInv, CheckoutRows
  <2>2. QED
    BY <1>2, <2>1 DEF InsertOrders, Settled
<1>3. ASSUME NEW S \in SUBSET Order, MarkAbandonedOrders(S)
      PROVE  charged' = charged /\ \A r \in Ref : Settled(r)' = Settled(r)
  <2>1. \A o \in Order : orders'[o].paid <=> orders[o].paid
    BY <1>3 DEF MarkAbandonedOrders, NoticesInv, NoticesType, TypeOK, Row
  <2>2. QED
    BY <1>3, <2>1 DEF MarkAbandonedOrders, Settled
<1>4. ASSUME NEW r \in Ref, NEW S \in Basket, BuyerPays(r, S) PROVE SettlementMap!Next
  <2>1. S \in SUBSET {o \in Order : RefOf[o] = r} /\ S # {}
    BY <1>4, BasketAssumption DEF BuyerPays, OnRef
  <2>2. charged[r] = 0 /\ charged' = [charged EXCEPT ![r] = SettlementMap!Total(S)]
    BY <1>4, TotalIsSum DEF BuyerPays
  <2>3. [q \in Ref |-> Settled(q)]' = [q \in Ref |-> Settled(q)]
    BY <1>4 DEF BuyerPays, Settled
  <2>4. SettlementMap!Charge(r)
    BY <2>1, <2>2, <2>3 DEF SettlementMap!Charge
  <2>5. QED
    BY <2>4 DEF SettlementMap!Next
<1>5. ASSUME NEW w \in Worker, CommitThenTell(w), Settled(task[w].ref) = {}, task[w].targets # {}
      PROVE  SettlementMap!Next
  <2> DEFINE r == task[w].ref
             T == task[w].targets
  <2>1. /\ r \in Ref /\ T \subseteq OnRef(r) /\ charged[r] = SumKobo(T)
        /\ \A q \in Ref : Settled(q)' = IF q = r THEN T ELSE Settled(q)
    BY <1>5, CommitSettles DEF CommitThenTell
  <2>2. charged' = charged
    BY <1>5 DEF CommitThenTell, ConfirmCommit
  <2>3. T \in SUBSET {o \in Order : RefOf[o] = r} /\ T \in SUBSET Order
    BY <2>1 DEF OnRef
  <2>4. charged[r] # 0 /\ SettlementMap!Total(T) = charged[r]
    BY <1>5, <2>1, <2>3, SomethingCosts, TotalIsSum
  <2>5. [q \in Ref |-> Settled(q)]' = [[q \in Ref |-> Settled(q)] EXCEPT ![r] = T]
    BY <2>1
  <2>6. SettlementMap!Settle(r)
    BY <1>5, <2>1, <2>2, <2>3, <2>4, <2>5 DEF SettlementMap!Settle
  <2>7. QED
    BY <2>1, <2>6 DEF SettlementMap!Next
<1>6. ASSUME NEW w \in Worker, CommitThenTell(w), Settled(task[w].ref) = {}, task[w].targets = {}
      PROVE  charged' = charged /\ \A r \in Ref : Settled(r)' = Settled(r)
  <2>1. \A q \in Ref : Settled(q)' = IF q = task[w].ref THEN {} ELSE Settled(q)
    BY <1>6, CommitSettles DEF CommitThenTell
  <2>2. QED
    BY <1>6, <2>1 DEF CommitThenTell, ConfirmCommit
<1>7. ASSUME NEW w \in Worker, CommitThenTell(w), Settled(task[w].ref) # {}
      PROVE  UNCHANGED <<orders, charged>>
  BY <1>7, CommitAgain DEF CommitThenTell
<1>8. ASSUME NEW w \in Worker,
             ConfirmStarts(w) \/ ConfirmRefused(w) \/ Fail(w) \/ NotifyPaidOrders(w) \/ TellingFails(w)
      PROVE  UNCHANGED <<orders, charged>>
  BY <1>8 DEF ConfirmStarts, ConfirmRead, ConfirmRefused, Fail, NotifyPaidOrders, TellingFails, vars
<1>9. CASE UNCHANGED noticesVars
  BY <1>1, <1>9 DEF noticesVars, vars
<1>10. CASE Buyer \/ AbandonedSweep
  BY <1>2, <1>3, <1>4, <1>10 DEF Buyer, AbandonedSweep, PlaceOrder, PlaceCheckout
<1>11. CASE NoticesNext
  BY <1>1, <1>5, <1>6, <1>7, <1>8, <1>10, <1>11 DEF NoticesNext, NoticesStep
<1>12. QED
  BY <1>9, <1>11

\* Racing and repeated confirmations are one settlement of exactly the orders whose totals make
\* up the charge.
THEOREM ConfirmationsSettle == NoticesSpec => ImplementsSettlement
<1>1. NoticesSpec <=> NoticesInit /\ [][NoticesNext]_noticesVars
  BY DEF NoticesSpec, NoticesNext
<1>2. QED
  BY <1>1, InitSettles, StepSettles, CheckoutInvariant, PTL DEF ImplementsSettlement, SettlementMap!Spec
=============================================================================
