------------------------------ MODULE OffersProofs ------------------------------
(***************************************************************************)
(* Theorems about price offers: types, the deal invariant, and that the    *)
(* table of offers implements Haggle.                                      *)
(***************************************************************************)
EXTENDS Offers, TLAPS

\* A row of the table, whatever its status.
Haggled == [status: OfferStatus, buyer: Buyer, product: Product, list: Kobo, offer: Kobo,
            counter: Kobo \cup {0}, agreed: Kobo \cup {0}, moves: 1 .. MaxBuyerOffers,
            lapsed: BOOLEAN, today: BOOLEAN, soldTo: SUBSET Order]

LEMMA RowCases ==
    ASSUME NEW r \in OfferRow
    PROVE  /\ r.status # "none" => r \in Haggled
           /\ r.status = "none" => r = NoOffer
  BY DEF OfferRow, Haggled, NoOffer, OfferStatus

\* The updates the moves make, field by field.
LEMMA SettleFields ==
    ASSUME NEW r \in Haggled, NEW s \in OfferStatus
    PROVE  /\ Settle(r, s) \in Haggled
           /\ Settle(r, s).status = s
           /\ \A f \in {"offer", "counter", "agreed", "list", "lapsed", "soldTo"} : Settle(r, s)[f] = r[f]
  BY DEF Haggled, Settle

LEMMA DealFields ==
    ASSUME NEW r \in Haggled, NEW a \in Kobo
    PROVE  LET d == Deal(r, a)
           IN  /\ d \in Haggled
               /\ d.status = "accepted" /\ d.agreed = a /\ d.lapsed = FALSE
               /\ d.offer = r.offer /\ d.counter = r.counter /\ d.list = r.list /\ d.soldTo = r.soldTo
  BY DEF Haggled, Deal, OfferStatus

LEMMA TimeFields ==
    ASSUME NEW r \in Haggled
    PROVE  /\ [r EXCEPT !.today = FALSE] \in Haggled
           /\ \A f \in {"status", "offer", "counter", "agreed", "list", "lapsed", "soldTo"} :
                  [r EXCEPT !.today = FALSE][f] = r[f]
           /\ [r EXCEPT !.lapsed = TRUE] \in Haggled
           /\ [r EXCEPT !.lapsed = TRUE].lapsed = TRUE
           /\ \A f \in {"status", "offer", "counter", "agreed", "list", "soldTo"} :
                  [r EXCEPT !.lapsed = TRUE][f] = r[f]
  BY DEF Haggled

LEMMA ComebackFields ==
    ASSUME NEW r \in Haggled, NEW x \in Kobo, r.moves < MaxBuyerOffers,
           NEW b \in {"accepted", "pending"}
    PROVE  LET c == Comeback(r, x, b)
           IN  /\ c \in Haggled
               /\ c.offer = x /\ c.lapsed = FALSE
               /\ \/ c.status = "accepted" /\ c.agreed = x
                  \/ c.status = "pending" /\ c.agreed = 0
               /\ c.counter = r.counter /\ c.list = r.list /\ c.soldTo = r.soldTo
<1>1. r.moves + 1 \in 1 .. MaxBuyerOffers
  BY OfferAssumption DEF Haggled, OfferAssumption
<1>2. QED
  BY <1>1 DEF Haggled, OfferStatus, Comeback

LEMMA AskFields ==
    ASSUME NEW r \in Haggled, NEW y \in Kobo
    PROVE  LET c == [r EXCEPT !.counter = y, !.status = "countered", !.lapsed = FALSE]
           IN  /\ c \in Haggled
               /\ c.counter = y /\ c.status = "countered" /\ c.lapsed = FALSE
               /\ c.offer = r.offer /\ c.agreed = r.agreed /\ c.list = r.list /\ c.soldTo = r.soldTo
  BY DEF Haggled, OfferStatus

LEMMA SoldFields ==
    ASSUME NEW r \in Haggled, NEW o \in Order
    PROVE  LET c == Sold(r, o)
           IN  /\ c \in Haggled
               /\ c.status = "redeemed" /\ c.soldTo = {o}
               /\ c.offer = r.offer /\ c.counter = r.counter /\ c.agreed = r.agreed /\ c.list = r.list
  BY DEF Haggled, OfferStatus, Sold

-----------------------------------------------------------------------------
(* Moves. *)

\* What a buyer's, a vendor's or a clock's step does to one row: r becomes s.
Move(r, s) ==
    /\ r \in Haggled /\ s \in Haggled
    /\ s.list = r.list /\ s.soldTo = r.soldTo
    /\ \/ /\ s.status = r.status /\ s.offer = r.offer /\ s.counter = r.counter /\ s.agreed = r.agreed
          /\ s.lapsed = r.lapsed \/ (s.lapsed = TRUE /\ r.status \in {"pending", "countered", "accepted"})
       \/ /\ r.status \in {"pending", "countered"} /\ s.status \in {"declined", "withdrawn"}
          /\ ~r.lapsed
          /\ s.offer = r.offer /\ s.counter = r.counter /\ s.agreed = r.agreed
       \/ /\ r.status = "countered" /\ s.status = "accepted"
          /\ ~r.lapsed /\ ~s.lapsed
          /\ s.offer = r.offer /\ s.counter = r.counter /\ s.agreed = r.counter
       \/ /\ r.status = "pending" /\ s.status = "accepted"
          /\ ~r.lapsed /\ ~s.lapsed
          /\ s.offer = r.offer /\ s.counter = r.counter /\ s.agreed = r.offer
       \/ /\ r.status = "countered" /\ s.status \in {"pending", "accepted"}
          /\ ~r.lapsed /\ ~s.lapsed
          /\ s.counter = r.counter /\ r.offer < s.offer /\ s.offer < r.counter
          /\ s.agreed = IF s.status = "accepted" THEN s.offer ELSE 0
       \/ /\ r.status = "pending" /\ s.status = "countered"
          /\ ~r.lapsed /\ ~s.lapsed
          /\ s.offer = r.offer /\ r.offer < s.counter /\ s.counter < r.list /\ s.agreed = r.agreed

Moves(n) == BuyerMove(n) \/ VendorMove(n) \/ DayPasses(n) \/ WindowPasses(n)

LEMMA LiveRow ==
    ASSUME OffersTypeOK, NEW n \in Offer, Created(n)
    PROVE  offers[n] \in Haggled
  BY RowCases DEF OffersTypeOK, Created

\* Every such step is a move of one row and touches nothing else.
LEMMA MoveShape ==
    ASSUME OffersTypeOK, DealInv, NEW n \in Offer, Moves(n)
    PROVE  \E s \in Haggled : Move(offers[n], s) /\ Put(n, s)
<1> DEFINE r == offers[n]
<1>0. Created(n) => r \in Haggled
  BY LiveRow
<1>1. CASE BuyerAccept(n)
  <2>1. r \in Haggled /\ r.status = "countered" /\ ~r.lapsed
    BY <1>0, <1>1 DEF BuyerAccept, Live, Lapsed, Open
  <2>a. r.offer < r.counter
    BY <2>1 DEF DealInv, RowSound
  <2>b. r.offer \in Nat \ {0} /\ r.counter \in Kobo \cup {0}
    BY <2>1, OfferAssumption DEF OfferAssumption, Haggled
  <2>2. r.counter \in Kobo
    BY <2>a, <2>b
  <2>3. Move(r, Deal(r, r.counter))
    BY <2>1, <2>2, DealFields DEF Move
  <2>4. QED
    BY <1>1, <2>1, <2>2, <2>3, DealFields DEF BuyerAccept
<1>2. CASE BuyerDecline(n) \/ BuyerWithdraw(n) \/ VendorDecline(n)
  <2>1. r \in Haggled /\ r.status \in {"pending", "countered"} /\ ~r.lapsed
    BY <1>0, <1>2 DEF BuyerDecline, BuyerWithdraw, VendorDecline, Live, Lapsed, Open
  <2>2. PICK s \in {"declined", "withdrawn"} : Put(n, Settle(r, s))
    BY <1>2 DEF BuyerDecline, BuyerWithdraw, VendorDecline
  <2>3. s \in OfferStatus
    BY DEF OfferStatus
  <2>4. Move(r, Settle(r, s))
    BY <2>1, <2>3, SettleFields DEF Move
  <2>5. QED
    BY <2>1, <2>2, <2>3, <2>4, SettleFields
<1>3. ASSUME NEW x \in Kobo, BuyerCounter(n, x) PROVE \E s \in Haggled : Move(r, s) /\ Put(n, s)
  <2>1. /\ r \in Haggled /\ r.status = "countered" /\ ~r.lapsed
        /\ r.moves < MaxBuyerOffers /\ r.offer < x /\ x < r.counter
    BY <1>0, <1>3 DEF BuyerCounter, Live, Lapsed, Open
  <2>3. PICK b \in {"accepted", "pending"} : Put(n, Comeback(r, x, b))
    BY <1>3 DEF BuyerCounter, Reception
  <2> DEFINE c == Comeback(r, x, b)
  <2> HIDE DEF r
  <2>4. /\ c \in Haggled /\ c.offer = x /\ c.lapsed = FALSE
        /\ \/ c.status = "accepted" /\ c.agreed = x
           \/ c.status = "pending" /\ c.agreed = 0
        /\ c.counter = r.counter /\ c.list = r.list /\ c.soldTo = r.soldTo
    BY <2>1, <2>3, ComebackFields
  <2>5. Put(n, c)
    BY <2>3
  <2> HIDE DEF c
  <2>6. Move(r, c)
    BY <2>1, <2>4 DEF Move
  <2>7. QED
    BY <2>4, <2>5, <2>6 DEF r
<1>4. CASE VendorAccept(n)
  <2>1. r \in Haggled /\ r.status = "pending" /\ ~r.lapsed
    BY <1>0, <1>4 DEF VendorAccept, Live, Lapsed, Open
  <2>2. r.offer \in Kobo
    BY <2>1 DEF Haggled
  <2>3. Move(r, Deal(r, r.offer))
    BY <2>1, <2>2, DealFields DEF Move
  <2>4. QED
    BY <1>4, <2>1, <2>2, <2>3, DealFields DEF VendorAccept
<1>5. ASSUME NEW y \in Kobo, VendorCounter(n, y) PROVE \E s \in Haggled : Move(r, s) /\ Put(n, s)
  <2> DEFINE c == [r EXCEPT !.counter = y, !.status = "countered", !.lapsed = FALSE]
  <2>1. r \in Haggled /\ r.status = "pending" /\ ~r.lapsed /\ r.offer < y /\ y < r.list
    BY <1>0, <1>5 DEF VendorCounter, Live, Lapsed, Open
  <2>2. Put(n, c)
    BY <1>5 DEF VendorCounter
  <2> HIDE DEF r
  <2>3. /\ c \in Haggled /\ c.counter = y /\ c.status = "countered" /\ c.lapsed = FALSE
        /\ c.offer = r.offer /\ c.agreed = r.agreed /\ c.list = r.list /\ c.soldTo = r.soldTo
    BY <2>1, AskFields
  <2> HIDE DEF c
  <2>4. Move(r, c)
    BY <2>1, <2>3 DEF Move
  <2>5. QED
    BY <2>2, <2>3, <2>4
<1>6. CASE DayPasses(n)
  <2>1. r \in Haggled
    BY <1>0, <1>6 DEF DayPasses
  <2>2. Move(r, [r EXCEPT !.today = FALSE])
    BY <2>1, TimeFields DEF Move
  <2>3. QED
    BY <1>6, <2>1, <2>2, TimeFields DEF DayPasses
<1>7. CASE WindowPasses(n)
  <2>1. r \in Haggled /\ r.status \in {"pending", "countered", "accepted"}
    BY <1>0, <1>7 DEF WindowPasses, Open, Created
  <2>2. Move(r, [r EXCEPT !.lapsed = TRUE])
    BY <2>1, TimeFields DEF Move
  <2>3. QED
    BY <1>7, <2>1, <2>2, TimeFields DEF WindowPasses
<1>8. QED
  BY <1>1, <1>2, <1>3, <1>4, <1>5, <1>6, <1>7 DEF Moves, BuyerMove, VendorMove

-----------------------------------------------------------------------------
(* Types. *)

LEMMA HaggledRow == Haggled \subseteq OfferRow
  BY DEF Haggled, OfferRow

LEMMA IdleType == Idle \in Task
  BY DEF Task

LEMMA ProductStepType ==
    ASSUME OffersTypeOK, CatalogueStep PROVE OffersTypeOK'
<1>1. ASSUME NEW p \in Product, NEW e \in Edit, UpdateProduct(p, e) PROVE OffersTypeOK'
  <2>1. PICK l : /\ products' = [products EXCEPT ![p] = l]
                 /\ l = [products[p] EXCEPT
                            !.price = e.price, !.negotiable = e.negotiable,
                            !.floor = IF ~e.negotiable THEN 0
                                      ELSE IF e.floor # 0 THEN e.floor ELSE products[p].floor]
    BY <1>1 DEF UpdateProduct
  <2>2. products[p] \in Listing
    BY DEF OffersTypeOK
  <2>3. e.price \in Kobo /\ e.negotiable \in BOOLEAN /\ e.floor \in Kobo \cup {0}
    BY ListingAssumption DEF ListingAssumption
  <2>4. PICK f \in Kobo \cup {0} :
            l = [products[p] EXCEPT !.price = e.price, !.negotiable = e.negotiable, !.floor = f]
    <3>1. CASE ~e.negotiable
      BY <2>1, <3>1
    <3>2. CASE e.negotiable /\ e.floor # 0
      BY <2>1, <2>3, <3>2
    <3>3. CASE e.negotiable /\ e.floor = 0
      BY <2>1, <2>2, <3>3 DEF Listing
    <3>4. QED
      BY <3>1, <3>2, <3>3
  <2>5. l \in Listing
    BY <2>2, <2>3, <2>4 DEF Listing
  <2>6. QED
    BY <1>1, <2>1, <2>5 DEF UpdateProduct, OffersTypeOK
<1>2. ASSUME NEW p \in Product, NEW b \in BOOLEAN, SetPublished(p, b) PROVE OffersTypeOK'
  <2>1. [products[p] EXCEPT !.published = b] \in Listing
    BY DEF OffersTypeOK, Listing
  <2>2. QED
    BY <1>2, <2>1 DEF SetPublished, OffersTypeOK
<1>3. QED
  BY <1>1, <1>2 DEF CatalogueStep

LEMMA MoveType ==
    ASSUME OffersTypeOK, NEW n \in Offer, NEW s \in Haggled, Put(n, s) PROVE OffersTypeOK'
  BY HaggledRow DEF Put, OffersTypeOK

\* The row an opened offer is inserted as.
NewRow(t) ==
    [status |-> IF t.instant THEN "accepted" ELSE "pending",
     buyer |-> t.buyer, product |-> t.product, list |-> t.list, offer |-> t.amount,
     counter |-> 0, agreed |-> IF t.instant THEN t.amount ELSE 0,
     moves |-> 1, lapsed |-> FALSE, today |-> TRUE, soldTo |-> {}]

LEMMA OpenFields ==
    ASSUME NEW t \in Task, t.op = "open"
    PROVE  /\ NewRow(t) \in Haggled
           /\ t.amount \in Kobo /\ t.list \in Kobo
           /\ NewRow(t).offer = t.amount /\ NewRow(t).list = t.list
           /\ NewRow(t).counter = 0 /\ NewRow(t).lapsed = FALSE /\ NewRow(t).soldTo = {}
           /\ \/ NewRow(t).status = "accepted" /\ NewRow(t).agreed = t.amount
              \/ NewRow(t).status = "pending" /\ NewRow(t).agreed = 0
<1>1. t \in [op: {"open"}, buyer: Buyer, product: Product, list: Kobo, amount: Kobo, instant: BOOLEAN]
  BY DEF Task, Idle
<1>2. 1 \in 1 .. MaxBuyerOffers
  BY OfferAssumption DEF OfferAssumption
<1>3. CASE t.instant = TRUE
  BY <1>1, <1>2, <1>3 DEF NewRow, Haggled, OfferStatus
<1>4. CASE t.instant = FALSE
  BY <1>1, <1>2, <1>4 DEF NewRow, Haggled, OfferStatus
<1>5. QED
  BY <1>1, <1>3, <1>4

LEMMA PlaceFields ==
    ASSUME NEW t \in Task, t.op = "place"
    PROVE  t.order \in Order /\ t.offer \in Offer /\ t.kobo \in Kobo
  BY DEF Task, Idle

LEMMA RequestType ==
    ASSUME OffersTypeOK, DealInv, NEW w \in Worker, CreateOffer(w) \/ PlaceOrder(w) \/ Fail(w)
    PROVE  OffersTypeOK'
<1>1. ASSUME NEW b \in Buyer, NEW p \in Product, NEW x \in Kobo, CreateOfferRead(w, b, p, x)
      PROVE  OffersTypeOK'
  <2>1. [op |-> "open", buyer |-> b, product |-> p, list |-> products[p].price,
         amount |-> x, instant |-> ClearsFloor(p, x)] \in Task
    BY DEF Task, OffersTypeOK, Listing, ClearsFloor
  <2>2. QED
    BY <1>1, <2>1 DEF CreateOfferRead, Start, OffersTypeOK, tables
<1>2. ASSUME NEW n \in Offer, CreateOfferInsert(w, n) PROVE OffersTypeOK'
  <2>1. NewRow(task[w]) \in OfferRow
    BY <1>2, OpenFields, HaggledRow DEF CreateOfferInsert, OffersTypeOK
  <2>2. offers' = [offers EXCEPT ![n] = NewRow(task[w])]
    BY <1>2 DEF CreateOfferInsert, NewRow
  <2>3. QED
    BY <1>2, <2>1, <2>2, IdleType DEF CreateOfferInsert, Finish, OffersTypeOK
<1>3. ASSUME NEW o \in Order, NEW n \in Offer, PriceDeal(w, o, n) PROVE OffersTypeOK'
  <2>1. offers[n].agreed \in Kobo
    <3>1. offers[n] \in Haggled
      BY <1>3, LiveRow DEF PriceDeal
    <3>2. offers[n].agreed # 0
      BY <1>3 DEF PriceDeal, DealInv, RowSound
    <3>3. QED
      BY <3>1, <3>2 DEF Haggled
  <2>2. QED
    BY <1>3, <2>1 DEF PriceDeal, Start, OffersTypeOK, Task, tables
<1>4. CASE InsertOrder(w)
  <2>1. task[w].order \in Order /\ task[w].offer \in Offer /\ task[w].kobo \in Kobo
    BY <1>4, PlaceFields DEF InsertOrder, OffersTypeOK
  <2>2. [status |-> "unpaid", offer |-> task[w].offer, kobo |-> task[w].kobo] \in DealRow
    BY <2>1 DEF DealRow
  <2>3. QED
    BY <1>4, <2>1, <2>2, IdleType DEF InsertOrder, Finish, OffersTypeOK
<1>5. CASE Fail(w)
  BY <1>5, IdleType DEF Fail, Finish, OffersTypeOK, tables
<1>6. QED
  BY <1>1, <1>2, <1>3, <1>4, <1>5 DEF CreateOffer, PlaceOrder

\* What the sweep and a payment make of one row.
LEMMA ExpiredRow ==
    ASSUME OffersTypeOK, NEW n \in Offer, Lapsed(n)
    PROVE  /\ offers[n] \in Haggled
           /\ offers[n].status \in {"pending", "countered", "accepted"} /\ offers[n].lapsed
           /\ Settle(offers[n], "expired") \in Haggled
           /\ Settle(offers[n], "expired").status = "expired"
           /\ Settle(offers[n], "expired").offer = offers[n].offer
           /\ Settle(offers[n], "expired").counter = offers[n].counter
           /\ Settle(offers[n], "expired").agreed = offers[n].agreed
           /\ Settle(offers[n], "expired").list = offers[n].list
           /\ Settle(offers[n], "expired").soldTo = offers[n].soldTo
<1>1. offers[n].status \in {"pending", "countered", "accepted"} /\ offers[n].lapsed
  BY DEF Lapsed, Open
<1>2. offers[n] \in Haggled
  BY <1>1, LiveRow DEF Created
<1>3. QED
  BY <1>1, <1>2, SettleFields DEF OfferStatus

LEMMA SweepType ==
    ASSUME OffersTypeOK, NEW P, ExpireOffers(P) PROVE OffersTypeOK'
<1>1. \A n \in Offer : Lapsed(n) => Settle(offers[n], "expired") \in OfferRow
  BY ExpiredRow, HaggledRow
<1>2. QED
  BY <1>1 DEF ExpireOffers, OffersTypeOK

LEMMA PaidType ==
    ASSUME OffersTypeOK, NEW o \in Order, ConfirmPaid(o) PROVE OffersTypeOK'
<1>1. deals[o] \in [status: {"unpaid", "paid"}, offer: Offer, kobo: Kobo]
  BY DEF ConfirmPaid, OffersTypeOK, DealRow, NoOrder
<1>2. [deals[o] EXCEPT !.status = "paid"] \in DealRow
  BY <1>1 DEF DealRow
<1>3. PICK n \in Offer : n = deals[o].offer
  BY <1>1
<1>4. Redeemed(o, n) \in OfferRow
  <2>1. CASE offers[n].status \in {"accepted", "expired"}
    <3>1. offers[n] \in Haggled
      BY <2>1, LiveRow DEF Created
    <3>2. QED
      BY <2>1, <3>1, SoldFields, HaggledRow DEF Redeemed
  <2>2. CASE offers[n].status \notin {"accepted", "expired"}
    BY <2>2 DEF Redeemed, OffersTypeOK
  <2>3. QED
    BY <2>1, <2>2
<1>5. QED
  BY <1>2, <1>3, <1>4 DEF ConfirmPaid, OffersTypeOK

LEMMA TypeStep ==
    ASSUME OffersTypeOK, DealInv, [OffersNext]_vars PROVE OffersTypeOK'
<1>1. ASSUME NEW n \in Offer, Moves(n) PROVE OffersTypeOK'
  BY <1>1, MoveShape, MoveType
<1>2. CASE UNCHANGED vars
  BY <1>2 DEF vars, OffersTypeOK
<1>3. QED
  BY <1>1, <1>2, ProductStepType, RequestType, SweepType, PaidType DEF OffersNext, Sweep, Moves

-----------------------------------------------------------------------------
(* The deal invariant. *)

Buyers(n) == {o \in Order : deals[o].status = "paid" /\ deals[o].offer = n}

LEMMA KoboNat == \A k \in Kobo : k \in Nat /\ k # 0
  BY OfferAssumption DEF OfferAssumption

LEMMA HaggledNat ==
    ASSUME NEW r \in Haggled
    PROVE  r.offer \in Nat /\ r.offer # 0 /\ r.counter \in Nat /\ r.agreed \in Nat /\ r.list \in Nat
<1>1. r.offer \in Kobo /\ r.counter \in Kobo \cup {0} /\ r.agreed \in Kobo \cup {0} /\ r.list \in Kobo
  BY DEF Haggled
<1>2. QED
  BY <1>1, KoboNat

\* A move keeps a row sound, and leaves a deal's status and price alone.
LEMMA MoveSound ==
    ASSUME NEW r, NEW s, Move(r, s), RowSound(r)
    PROVE  /\ RowSound(s)
           /\ r.status \in DealStatus => s.status = r.status /\ s.agreed = r.agreed
           /\ r.status = "redeemed" <=> s.status = "redeemed"
           /\ s.soldTo = r.soldTo /\ r.status # "none" /\ s.status # "none"
<1>0. r \in Haggled /\ s \in Haggled
  BY DEF Move
<1>1. /\ r.offer \in Nat /\ r.offer # 0 /\ r.counter \in Nat /\ r.agreed \in Nat /\ r.list \in Nat
      /\ s.offer \in Nat /\ s.offer # 0 /\ s.counter \in Nat /\ s.agreed \in Nat /\ s.list \in Nat
  BY <1>0, HaggledNat
<1>2. r.status \in OfferStatus /\ s.status \in OfferStatus
  BY <1>0 DEF Haggled
<1>3. s.list = r.list /\ s.soldTo = r.soldTo
  BY DEF Move
<1>4. \/ s.status = r.status /\ s.offer = r.offer /\ s.counter = r.counter /\ s.agreed = r.agreed
      \/ /\ r.status \in {"pending", "countered"} /\ s.status \in {"declined", "withdrawn"}
         /\ s.offer = r.offer /\ s.counter = r.counter /\ s.agreed = r.agreed
      \/ /\ r.status = "countered" /\ s.status = "accepted"
         /\ s.offer = r.offer /\ s.counter = r.counter /\ s.agreed = r.counter
      \/ /\ r.status = "pending" /\ s.status = "accepted"
         /\ s.offer = r.offer /\ s.counter = r.counter /\ s.agreed = r.offer
      \/ /\ r.status = "countered" /\ s.counter = r.counter /\ s.offer < r.counter
         /\ \/ s.status = "pending" /\ s.agreed = 0
            \/ s.status = "accepted" /\ s.agreed = s.offer
      \/ /\ r.status = "pending" /\ s.status = "countered"
         /\ s.offer = r.offer /\ r.offer < s.counter /\ s.counter < r.list /\ s.agreed = r.agreed
  BY DEF Move
<1>5. r.status # "none" /\ s.status # "none"
  BY <1>2 DEF OfferStatus
<1>6. /\ r.offer < r.list /\ r.counter < r.list /\ r.agreed < r.list
      /\ r.status = "countered" => r.offer < r.counter
      /\ r.status \in {"accepted", "redeemed"} => r.agreed # 0
      /\ r.status \in {"pending", "countered", "declined", "withdrawn"} => r.agreed = 0
  BY <1>5 DEF RowSound
<1>7. RowSound(s)
  BY <1>1, <1>3, <1>4, <1>6 DEF RowSound
<1>8. QED
  BY <1>3, <1>4, <1>5, <1>7 DEF DealStatus

LEMMA MoveInv ==
    ASSUME OffersTypeOK, DealInv, NEW n \in Offer, NEW s \in Haggled,
           Move(offers[n], s), Put(n, s)
    PROVE  DealInv'
<1>1. /\ RowSound(s)
      /\ offers[n].status \in DealStatus => s.status = offers[n].status /\ s.agreed = offers[n].agreed
      /\ offers[n].status = "redeemed" <=> s.status = "redeemed"
      /\ s.soldTo = offers[n].soldTo /\ offers[n].status # "none" /\ s.status # "none"
  BY MoveSound DEF DealInv
<1>2. /\ offers'[n] = s /\ \A m \in Offer \ {n} : offers'[m] = offers[m]
      /\ deals' = deals /\ task' = task
  BY DEF Put, OffersTypeOK
<1>3. \A k : \A m \in Offer : Agreed(m, k) => Agreed(m, k)'
  BY <1>1, <1>2 DEF Agreed
<1>4. \A o \in Order : deals[o] # NoOrder => deals[o].offer \in Offer
  BY DEF OffersTypeOK, DealRow
<1>5. \A w \in Worker : task[w].op = "place" => task[w].offer \in Offer
  BY PlaceFields DEF OffersTypeOK
<1>6. RedeemedWhenPaid'
  BY <1>1, <1>2 DEF DealInv, RedeemedWhenPaid, Created
<1>7. (\A m \in Offer : RowSound(offers[m]))'
  BY <1>1, <1>2 DEF DealInv
<1>8. (\A o \in Order : deals[o] # NoOrder => Agreed(deals[o].offer, deals[o].kobo))'
  BY <1>2, <1>3, <1>4 DEF DealInv
<1>9. QED
  BY <1>2, <1>3, <1>5, <1>6, <1>7, <1>8 DEF DealInv

\* A step that leaves offers and orders alone, and starts or ends a request.
LEMMA QuietInv ==
    ASSUME OffersTypeOK, DealInv, offers' = offers, deals' = deals,
           \A w \in Worker :
               \/ task'[w] = task[w] \/ task'[w] = Idle
               \/ task'[w].op = "place" /\ Agreed(task'[w].offer, task'[w].kobo)
               \/ task'[w].op = "open" /\ task'[w].amount < task'[w].list
    PROVE  DealInv'
<1>1. \A m, k : Agreed(m, k) => Agreed(m, k)'
  BY DEF Agreed
<1>2. RedeemedWhenPaid'
  BY DEF DealInv, RedeemedWhenPaid, Created
<1>3. \A w \in Worker : /\ task'[w].op = "place" => Agreed(task'[w].offer, task'[w].kobo)
                        /\ task'[w].op = "open" => task'[w].amount < task'[w].list
  BY DEF DealInv, Idle
<1>4. QED
  BY <1>1, <1>2, <1>3 DEF DealInv, Agreed

LEMMA RequestInv ==
    ASSUME OffersTypeOK, DealInv, NEW w \in Worker,
           \/ \E b \in Buyer, p \in Product, x \in Kobo : CreateOfferRead(w, b, p, x)
           \/ \E o \in Order, n \in Offer : PriceDeal(w, o, n)
           \/ Fail(w)
    PROVE  DealInv'
<1>1. ASSUME NEW b \in Buyer, NEW p \in Product, NEW x \in Kobo, CreateOfferRead(w, b, p, x)
      PROVE  DealInv'
  <2>1. offers' = offers /\ deals' = deals
    BY <1>1 DEF CreateOfferRead, tables
  <2>2. task'[w].op = "open" /\ task'[w].amount < task'[w].list
    BY <1>1 DEF CreateOfferRead, Start, OffersTypeOK
  <2>3. \A v \in Worker \ {w} : task'[v] = task[v]
    BY <1>1 DEF CreateOfferRead, Start, OffersTypeOK
  <2>4. QED
    BY <2>1, <2>2, <2>3, QuietInv
<1>2. ASSUME NEW o \in Order, NEW n \in Offer, PriceDeal(w, o, n) PROVE DealInv'
  <2>1. offers' = offers /\ deals' = deals
    BY <1>2 DEF PriceDeal, tables
  <2>2. task'[w].op = "place" /\ Agreed(task'[w].offer, task'[w].kobo)
    BY <1>2 DEF PriceDeal, Start, OffersTypeOK, Agreed, DealStatus
  <2>3. \A v \in Worker \ {w} : task'[v] = task[v]
    BY <1>2 DEF PriceDeal, Start, OffersTypeOK
  <2>4. QED
    BY <2>1, <2>2, <2>3, QuietInv
<1>3. CASE Fail(w)
  <2>1. offers' = offers /\ deals' = deals
    BY <1>3 DEF Fail, tables
  <2>2. \A v \in Worker : task'[v] = task[v] \/ task'[v] = Idle
    BY <1>3 DEF Fail, Finish, OffersTypeOK
  <2>3. QED
    BY <2>1, <2>2, QuietInv
<1>4. QED
  BY <1>1, <1>2, <1>3

LEMMA OpenInv ==
    ASSUME OffersTypeOK, DealInv, NEW w \in Worker, NEW n \in Offer, CreateOfferInsert(w, n)
    PROVE  DealInv'
<1>1. PICK r \in Haggled :
          /\ offers' = [offers EXCEPT ![n] = r]
          /\ RowSound(r) /\ r.status \in {"accepted", "pending"} /\ r.soldTo = {}
  <2>1. task[w] \in Task /\ task[w].op = "open" /\ task[w].amount < task[w].list
    BY DEF CreateOfferInsert, DealInv, OffersTypeOK
  <2>2. /\ NewRow(task[w]) \in Haggled
        /\ task[w].amount \in Kobo /\ task[w].list \in Kobo
        /\ NewRow(task[w]).offer = task[w].amount /\ NewRow(task[w]).list = task[w].list
        /\ NewRow(task[w]).counter = 0 /\ NewRow(task[w]).soldTo = {}
        /\ \/ NewRow(task[w]).status = "accepted" /\ NewRow(task[w]).agreed = task[w].amount
           \/ NewRow(task[w]).status = "pending" /\ NewRow(task[w]).agreed = 0
    BY <2>1, OpenFields
  <2>3. task[w].amount \in Nat /\ task[w].amount # 0 /\ task[w].list \in Nat
    BY <2>2, KoboNat
  <2>4. RowSound(NewRow(task[w]))
    BY <2>1, <2>2, <2>3 DEF RowSound
  <2>5. offers' = [offers EXCEPT ![n] = NewRow(task[w])]
    BY DEF CreateOfferInsert, NewRow
  <2>6. QED
    BY <2>2, <2>4, <2>5
<1>2. offers[n].status = "none"
  BY DEF CreateOfferInsert, Created
<1>3. /\ offers'[n] = r /\ \A m \in Offer \ {n} : offers'[m] = offers[m]
      /\ deals' = deals
      /\ \A v \in Worker : task'[v] = task[v] \/ task'[v] = Idle
  BY <1>1 DEF CreateOfferInsert, Finish, OffersTypeOK
<1>4. \A k : \A m \in Offer : Agreed(m, k) => Agreed(m, k)'
  BY <1>2, <1>3 DEF Agreed, DealStatus
<1>5. \A o \in Order : deals[o] # NoOrder =>
          deals[o].offer \in Offer /\ Agreed(deals[o].offer, deals[o].kobo)
  BY DEF OffersTypeOK, DealRow, DealInv
<1>6. \A o \in Order : deals[o].status = "paid" => deals[o].offer # n
  BY <1>2, <1>5 DEF Agreed, DealStatus, NoOrder
<1>7. RedeemedWhenPaid'
  BY <1>1, <1>2, <1>3, <1>6 DEF DealInv, RedeemedWhenPaid, Created
<1>8. (\A m \in Offer : RowSound(offers[m]))'
  BY <1>1, <1>3 DEF DealInv
<1>9. (\A o \in Order : deals[o] # NoOrder => Agreed(deals[o].offer, deals[o].kobo))'
  BY <1>3, <1>4, <1>5
<1>10. \A v \in Worker : task[v].op = "place" => task[v].offer \in Offer
  BY PlaceFields DEF OffersTypeOK
<1>11. (\A v \in Worker : /\ task[v].op = "place" => Agreed(task[v].offer, task[v].kobo)
                          /\ task[v].op = "open" => task[v].amount < task[v].list)'
  BY <1>3, <1>4, <1>10 DEF DealInv, Idle
<1>12. QED
  BY <1>7, <1>8, <1>9, <1>11 DEF DealInv

LEMMA PlaceInv ==
    ASSUME OffersTypeOK, DealInv, NEW w \in Worker, InsertOrder(w) PROVE DealInv'
<1>1. PICK o \in Order, n \in Offer, k \in Kobo :
          /\ o = task[w].order /\ n = task[w].offer /\ k = task[w].kobo
          /\ Agreed(n, k)
  BY PlaceFields DEF InsertOrder, OffersTypeOK, DealInv
<1>2. /\ deals[o] = NoOrder
      /\ deals'[o] = [status |-> "unpaid", offer |-> n, kobo |-> k]
      /\ \A p \in Order \ {o} : deals'[p] = deals[p]
      /\ offers' = offers
      /\ \A v \in Worker : task'[v] = task[v] \/ task'[v] = Idle
  BY <1>1 DEF InsertOrder, Finish, OffersTypeOK
<1>3. RedeemedWhenPaid'
  BY <1>2 DEF DealInv, RedeemedWhenPaid, Created, NoOrder
<1>4. (\A p \in Order : deals[p] # NoOrder => Agreed(deals[p].offer, deals[p].kobo))'
  BY <1>1, <1>2 DEF DealInv, Agreed
<1>5. (\A v \in Worker : /\ task[v].op = "place" => Agreed(task[v].offer, task[v].kobo)
                         /\ task[v].op = "open" => task[v].amount < task[v].list)'
  BY <1>2 DEF DealInv, Idle, Agreed
<1>6. QED
  BY <1>2, <1>3, <1>4, <1>5 DEF DealInv

\* The step a payment takes: the deal it was bought at is redeemed, if it was not yet.
LEMMA PaidShape ==
    ASSUME OffersTypeOK, DealInv, NEW o \in Order, ConfirmPaid(o)
    PROVE  \E n \in Offer, s \in Haggled :
               /\ n = deals[o].offer /\ offers[n] \in Haggled
               /\ offers' = [offers EXCEPT ![n] = s]
               /\ s.offer = offers[n].offer /\ s.counter = offers[n].counter
               /\ s.agreed = offers[n].agreed /\ s.list = offers[n].list
               /\ s.status = "redeemed"
               /\ \/ offers[n].status \in {"accepted", "expired"} /\ s.soldTo = {o}
                  \/ s = offers[n]
               /\ offers[n].agreed # 0
<1>1. deals[o] \in [status: {"unpaid", "paid"}, offer: Offer, kobo: Kobo]
  BY DEF ConfirmPaid, OffersTypeOK, DealRow, NoOrder
<1>2. PICK n \in Offer : n = deals[o].offer
  BY <1>1
<1>3. Agreed(n, deals[o].kobo)
  BY <1>1, <1>2 DEF DealInv, ConfirmPaid, NoOrder
<1>4. offers[n] \in Haggled
  BY <1>3, LiveRow DEF Agreed, DealStatus, Created
<1>5. offers[n].agreed # 0
  BY <1>1, <1>3, KoboNat DEF Agreed
<1>6. offers' = [offers EXCEPT ![n] = Redeemed(o, n)]
  BY <1>2 DEF ConfirmPaid
<1>7. CASE offers[n].status = "redeemed"
  <2>1. Redeemed(o, n) = offers[n]
    BY <1>7 DEF Redeemed
  <2>2. QED
    BY <1>2, <1>4, <1>5, <1>6, <1>7, <2>1
<1>8. CASE offers[n].status \in {"accepted", "expired"}
  <2>1. Redeemed(o, n) = Sold(offers[n], o)
    BY <1>8 DEF Redeemed
  <2>2. PICK s \in Haggled :
            /\ s = Sold(offers[n], o)
            /\ s.status = "redeemed" /\ s.soldTo = {o}
            /\ s.offer = offers[n].offer /\ s.counter = offers[n].counter
            /\ s.agreed = offers[n].agreed /\ s.list = offers[n].list
    BY <1>4, SoldFields
  <2>3. QED
    BY <1>2, <1>4, <1>5, <1>6, <1>8, <2>1, <2>2
<1>9. QED
  BY <1>3, <1>7, <1>8 DEF Agreed, DealStatus

LEMMA PaidInv ==
    ASSUME OffersTypeOK, DealInv, NEW o \in Order, ConfirmPaid(o) PROVE DealInv'
<1>1. PICK n \in Offer, s \in Haggled :
          /\ n = deals[o].offer
          /\ offers' = [offers EXCEPT ![n] = s]
          /\ s.offer = offers[n].offer /\ s.counter = offers[n].counter
          /\ s.agreed = offers[n].agreed /\ s.list = offers[n].list
          /\ s.status = "redeemed"
          /\ \/ offers[n].status \in {"accepted", "expired"} /\ s.soldTo = {o}
             \/ s = offers[n]
          /\ offers[n].agreed # 0
  BY PaidShape
<1>2. /\ offers'[n] = s /\ \A m \in Offer \ {n} : offers'[m] = offers[m]
      /\ task' = task
  BY <1>1 DEF ConfirmPaid, OffersTypeOK
<1>3. deals[o] \in [status: {"unpaid", "paid"}, offer: Offer, kobo: Kobo]
  BY DEF ConfirmPaid, OffersTypeOK, DealRow, NoOrder
<1>4. /\ deals[o].status = "unpaid"
      /\ deals'[o].status = "paid" /\ deals'[o].offer = n /\ deals'[o].kobo = deals[o].kobo
      /\ \A p \in Order \ {o} : deals'[p] = deals[p]
  BY <1>1, <1>3 DEF ConfirmPaid, OffersTypeOK
<1>5. \A k : \A m \in Offer : Agreed(m, k) => Agreed(m, k)'
  BY <1>1, <1>2 DEF Agreed, DealStatus
<1>6. RowSound(s)
  <2>1. offers[n].status # "none"
    BY <1>1
  <2>2. QED
    BY <1>1, <2>1 DEF DealInv, RowSound
<1>7. \A m \in Offer : RowSound(offers'[m])
  BY <1>2, <1>6 DEF DealInv
<1>8. RedeemedWhenPaid'
  <2>1. o \in {p \in Order : deals'[p].status = "paid" /\ deals'[p].offer = n}
    BY <1>4
  <2>2. \A m \in Offer \ {n} :
            {p \in Order : deals'[p].status = "paid" /\ deals'[p].offer = m}
                = {p \in Order : deals[p].status = "paid" /\ deals[p].offer = m}
    BY <1>1, <1>4
  <2>3. {p \in Order : deals[p].status = "paid" /\ deals[p].offer = n}
            \subseteq {p \in Order : deals'[p].status = "paid" /\ deals'[p].offer = n}
    BY <1>4
  <2>4. \A m \in Offer \ {n} : Created(m)' =>
            LET buyers == {p \in Order : deals'[p].status = "paid" /\ deals'[p].offer = m}
            IN  /\ offers'[m].status = "redeemed" <=> buyers # {}
                /\ offers'[m].soldTo \subseteq buyers
                /\ offers'[m].status = "redeemed" => offers'[m].soldTo # {}
    BY <1>2, <2>2 DEF DealInv, RedeemedWhenPaid, Created
  <2>5. s.soldTo # {} /\ s.soldTo \subseteq {p \in Order : deals'[p].status = "paid" /\ deals'[p].offer = n}
    <3>1. CASE s.soldTo = {o}
      BY <2>1, <3>1
    <3>2. CASE s = offers[n]
      BY <1>1, <2>3, <3>2 DEF DealInv, RedeemedWhenPaid, Created
    <3>3. QED
      BY <1>1, <3>1, <3>2
  <2>6. QED
    BY <1>1, <1>2, <2>1, <2>4, <2>5 DEF RedeemedWhenPaid, Created
<1>9. (\A p \in Order : deals[p] # NoOrder => Agreed(deals[p].offer, deals[p].kobo))'
  <2>1. \A p \in Order : deals[p] # NoOrder =>
            deals[p].offer \in Offer /\ Agreed(deals[p].offer, deals[p].kobo)
    BY DEF OffersTypeOK, DealRow, DealInv
  <2>2. deals[o] # NoOrder
    BY <1>4 DEF NoOrder
  <2>3. QED
    BY <1>1, <1>4, <1>5, <2>1, <2>2
<1>10. \A v \in Worker : task[v].op = "place" => task[v].offer \in Offer
  BY PlaceFields DEF OffersTypeOK
<1>11. QED
  BY <1>2, <1>5, <1>7, <1>8, <1>9, <1>10 DEF DealInv

\* What the sweep does to a row, if anything.
LEMMA SweepShape ==
    ASSUME OffersTypeOK, NEW P, ExpireOffers(P), NEW n \in Offer
    PROVE  \/ offers'[n] = offers[n]
           \/ /\ offers[n] \in Haggled /\ offers'[n] \in Haggled
              /\ offers[n].status \in {"pending", "countered", "accepted"} /\ offers[n].lapsed
              /\ offers'[n].status = "expired"
              /\ offers'[n].offer = offers[n].offer /\ offers'[n].counter = offers[n].counter
              /\ offers'[n].agreed = offers[n].agreed /\ offers'[n].list = offers[n].list
              /\ offers'[n].soldTo = offers[n].soldTo
<1>1. CASE Lapsed(n) /\ offers[n].product \in P
  <2>1. offers'[n] = Settle(offers[n], "expired")
    BY <1>1 DEF ExpireOffers
  <2>2. QED
    BY <1>1, <2>1, ExpiredRow
<1>2. CASE ~(Lapsed(n) /\ offers[n].product \in P)
  BY <1>2 DEF ExpireOffers
<1>3. QED
  BY <1>1, <1>2

LEMMA SweepInv ==
    ASSUME OffersTypeOK, DealInv, NEW P, ExpireOffers(P) PROVE DealInv'
<1>1. deals' = deals /\ task' = task
  BY DEF ExpireOffers
<1>2. \A k : \A m \in Offer : Agreed(m, k) => Agreed(m, k)'
  BY SweepShape DEF Agreed, DealStatus
<1>3. \A m \in Offer : RowSound(offers'[m])
  BY SweepShape DEF DealInv, RowSound
<1>4. RedeemedWhenPaid'
  BY <1>1, SweepShape DEF DealInv, RedeemedWhenPaid, Created
<1>5. \A o \in Order : deals[o] # NoOrder => deals[o].offer \in Offer
  BY DEF OffersTypeOK, DealRow
<1>6. \A w \in Worker : task[w].op = "place" => task[w].offer \in Offer
  BY PlaceFields DEF OffersTypeOK
<1>7. (\A o \in Order : deals[o] # NoOrder => Agreed(deals[o].offer, deals[o].kobo))'
  BY <1>1, <1>2, <1>5 DEF DealInv
<1>8. QED
  BY <1>1, <1>2, <1>3, <1>4, <1>6, <1>7 DEF DealInv

LEMMA InvStep ==
    ASSUME OffersTypeOK, DealInv, [OffersNext]_vars PROVE DealInv'
<1>1. ASSUME NEW n \in Offer, Moves(n) PROVE DealInv'
  BY <1>1, MoveShape, MoveInv
<1>2. CASE CatalogueStep \/ UNCHANGED vars
  <2>1. offers' = offers /\ deals' = deals /\ task' = task
    BY <1>2 DEF CatalogueStep, UpdateProduct, SetPublished, vars
  <2>2. QED
    BY <2>1, QuietInv
<1>3. ASSUME NEW w \in Worker, CreateOffer(w) \/ PlaceOrder(w) \/ Fail(w) PROVE DealInv'
  BY <1>3, RequestInv, OpenInv, PlaceInv DEF CreateOffer, PlaceOrder
<1>4. QED
  BY <1>1, <1>2, <1>3, SweepInv, PaidInv DEF OffersNext, Sweep, Moves

LEMMA InitSound == Init => OffersTypeOK /\ DealInv
<1>1. NoOffer \in OfferRow /\ NoOrder \in DealRow /\ Idle \in Task
  BY DEF OfferRow, DealRow, Task
<1>2. QED
  BY <1>1, ListingAssumption
     DEF Init, OffersTypeOK, DealInv, RowSound, RedeemedWhenPaid, Created, NoOffer, NoOrder, Idle,
         ListingAssumption

\* The tables of products, offers and orders and the memory of every request keep
\* their types, and the deal invariant holds, for any number of negotiations.
THEOREM DealsSound == OffersSpec => [](OffersTypeOK /\ DealInv)
<1>1. Init => OffersTypeOK /\ DealInv
  BY InitSound
<1>2. OffersTypeOK /\ DealInv /\ [OffersNext]_vars => (OffersTypeOK /\ DealInv)'
  BY TypeStep, InvStep
<1>3. QED
  BY <1>1, <1>2, PTL DEF OffersSpec

\* A deal is redeemed exactly when an order bought at it is paid.
THEOREM DealsRedeemedWhenPaid == OffersSpec => []RedeemedWhenPaid
<1>1. OffersTypeOK /\ DealInv => RedeemedWhenPaid
  BY DEF DealInv
<1>2. QED
  BY <1>1, DealsSound, PTL

\* An order carries the price that was agreed, whatever happens to the offer since.
THEOREM OrdersPricedAsAgreed == OffersSpec => []PricedAsAgreed
<1>1. OffersTypeOK /\ DealInv => PricedAsAgreed
  BY DEF DealInv, Agreed, PricedAsAgreed
<1>2. QED
  BY <1>1, DealsSound, PTL

\* No price is agreed at or above the list price.
THEOREM BargainsBelowList == OffersSpec => []BargainBelowList
<1>1. OffersTypeOK /\ DealInv => BargainBelowList
  BY DEF DealInv, RowSound, BargainBelowList, Created
<1>2. QED
  BY <1>1, DealsSound, PTL

-----------------------------------------------------------------------------
(* The refinement. *)

\* What the other side sees of a row.
Image(r) == <<TurnOf(r), BidOf(r), AskOf(r), PriceOf(r)>>

\* Replacing one row replaces its image.
LEMMA MapOne ==
    ASSUME OffersTypeOK, NEW n \in Offer, NEW s, offers' = [offers EXCEPT ![n] = s]
    PROVE  /\ Turns' = [Turns EXCEPT ![n] = TurnOf(s)]
           /\ Bids' = [Bids EXCEPT ![n] = BidOf(s)]
           /\ Asks' = [Asks EXCEPT ![n] = AskOf(s)]
           /\ Prices' = [Prices EXCEPT ![n] = PriceOf(s)]
<1>1. \A m \in Offer : offers'[m] = IF m = n THEN s ELSE offers[m]
  BY DEF OffersTypeOK
<1>2. \A m \in Offer :
        /\ TurnOf(offers'[m]) = IF m = n THEN TurnOf(s) ELSE TurnOf(offers[m])
        /\ BidOf(offers'[m]) = IF m = n THEN BidOf(s) ELSE BidOf(offers[m])
        /\ AskOf(offers'[m]) = IF m = n THEN AskOf(s) ELSE AskOf(offers[m])
        /\ PriceOf(offers'[m]) = IF m = n THEN PriceOf(s) ELSE PriceOf(offers[m])
  BY <1>1
<1>3. Turns' = [Turns EXCEPT ![n] = TurnOf(s)]
  BY <1>2 DEF Turns
<1>4. Bids' = [Bids EXCEPT ![n] = BidOf(s)]
  BY <1>2 DEF Bids
<1>5. Asks' = [Asks EXCEPT ![n] = AskOf(s)]
  BY <1>2 DEF Asks
<1>6. Prices' = [Prices EXCEPT ![n] = PriceOf(s)]
  BY <1>2 DEF Prices
<1>7. QED
  BY <1>3, <1>4, <1>5, <1>6

LEMMA SameImage ==
    ASSUME \A m \in Offer : Image(offers'[m]) = Image(offers[m])
    PROVE  UNCHANGED HaggleMap!haggle
<1>1. \A m \in Offer :
        /\ TurnOf(offers'[m]) = TurnOf(offers[m]) /\ BidOf(offers'[m]) = BidOf(offers[m])
        /\ AskOf(offers'[m]) = AskOf(offers[m]) /\ PriceOf(offers'[m]) = PriceOf(offers[m])
  BY DEF Image
<1>2. Turns' = Turns /\ Bids' = Bids
  BY <1>1 DEF Turns, Bids
<1>3. Asks' = Asks /\ Prices' = Prices
  BY <1>1 DEF Asks, Prices
<1>4. QED
  BY <1>2, <1>3 DEF HaggleMap!haggle

\* A row that stands in the way of nothing: the images at n.
LEMMA ImageAt ==
    ASSUME NEW n \in Offer
    PROVE  /\ Turns[n] = TurnOf(offers[n]) /\ Bids[n] = BidOf(offers[n])
           /\ Asks[n] = AskOf(offers[n]) /\ Prices[n] = PriceOf(offers[n])
  BY DEF Turns, Bids, Asks, Prices

\* Replacing a component by itself changes nothing.
LEMMA SameAt ==
    ASSUME NEW n \in Offer
    PROVE  /\ [Turns EXCEPT ![n] = Turns[n]] = Turns /\ [Bids EXCEPT ![n] = Bids[n]] = Bids
           /\ [Asks EXCEPT ![n] = Asks[n]] = Asks /\ [Prices EXCEPT ![n] = Prices[n]] = Prices
  BY DEF Turns, Bids, Asks, Prices

\* A move is a turn of the negotiation, or nothing the other side would see.
LEMMA MoveRefines ==
    ASSUME OffersTypeOK, DealInv, NEW n \in Offer, NEW s \in Haggled,
           Move(offers[n], s), offers' = [offers EXCEPT ![n] = s]
    PROVE  [HaggleMap!Next]_HaggleMap!haggle
<1>1. PICK r \in Haggled : r = offers[n] /\ Move(r, s) /\ RowSound(r)
  BY DEF Move, DealInv
<1>2. r.status \in OfferStatus /\ s.status \in OfferStatus /\ r.status # "none" /\ s.status # "none"
  BY DEF Haggled, OfferStatus
<1>3. /\ BidOf(r) = r.offer /\ AskOf(r) = r.counter /\ PriceOf(r) = r.agreed
      /\ BidOf(s) = s.offer /\ AskOf(s) = s.counter /\ PriceOf(s) = s.agreed
  BY <1>2 DEF BidOf, AskOf, PriceOf
<1>a. /\ Turns[n] = TurnOf(r) /\ Bids[n] = r.offer /\ Asks[n] = r.counter /\ Prices[n] = r.agreed
      /\ Turns' = [Turns EXCEPT ![n] = TurnOf(s)] /\ Bids' = [Bids EXCEPT ![n] = s.offer]
      /\ Asks' = [Asks EXCEPT ![n] = s.counter] /\ Prices' = [Prices EXCEPT ![n] = s.agreed]
  <2>1. /\ Turns[n] = TurnOf(r) /\ Bids[n] = BidOf(r) /\ Asks[n] = AskOf(r) /\ Prices[n] = PriceOf(r)
    BY <1>1, ImageAt
  <2>2. /\ Turns' = [Turns EXCEPT ![n] = TurnOf(s)] /\ Bids' = [Bids EXCEPT ![n] = BidOf(s)]
        /\ Asks' = [Asks EXCEPT ![n] = AskOf(s)] /\ Prices' = [Prices EXCEPT ![n] = PriceOf(s)]
    BY MapOne
  <2>3. QED
    BY <1>3, <2>1, <2>2
<1>b. /\ s.offer = r.offer => Bids' = Bids
      /\ s.counter = r.counter => Asks' = Asks
      /\ s.agreed = r.agreed => Prices' = Prices
      /\ TurnOf(s) = TurnOf(r) => Turns' = Turns
  BY <1>a, SameAt
<1>c. s.offer \in Kobo /\ s.counter \in Kobo \cup {0} /\ r.offer \in Nat
  BY KoboNat DEF Haggled
<1>4. CASE TurnOf(s) = TurnOf(r) /\ s.offer = r.offer /\ s.counter = r.counter /\ s.agreed = r.agreed
  BY <1>4, <1>b DEF HaggleMap!haggle
<1>5. CASE /\ TurnOf(r) \in {"vendor", "buyer"} /\ TurnOf(s) = "over"
           /\ s.offer = r.offer /\ s.counter = r.counter /\ s.agreed = r.agreed
  <2>1. HaggleMap!WalkAway(n)
    BY <1>5, <1>a, <1>b DEF HaggleMap!WalkAway
  <2>2. QED
    BY <2>1 DEF HaggleMap!Next
<1>6. CASE /\ TurnOf(r) = "deal" /\ TurnOf(s) = "late"
           /\ s.offer = r.offer /\ s.counter = r.counter /\ s.agreed = r.agreed
  <2>1. HaggleMap!TimeOut(n)
    BY <1>6, <1>a, <1>b DEF HaggleMap!TimeOut
  <2>2. QED
    BY <2>1 DEF HaggleMap!Next
<1>7. CASE /\ TurnOf(r) \in {"vendor", "buyer"} /\ TurnOf(s) = "deal"
           /\ s.offer = r.offer /\ s.counter = r.counter
           /\ s.agreed = IF TurnOf(r) = "vendor" THEN r.offer ELSE r.counter
  <2>1. HaggleMap!Agree(n)
    BY <1>7, <1>a, <1>b DEF HaggleMap!Agree
  <2>2. QED
    BY <2>1 DEF HaggleMap!Next
<1>8. CASE /\ TurnOf(r) = "vendor" /\ TurnOf(s) = "buyer"
           /\ s.offer = r.offer /\ s.agreed = r.agreed /\ r.offer < s.counter
  <2>1. s.counter \in Kobo
    BY <1>8, <1>c
  <2>2. HaggleMap!Ask(n, s.counter)
    BY <1>8, <1>a, <1>b DEF HaggleMap!Ask
  <2>3. QED
    BY <2>1, <2>2 DEF HaggleMap!Next
<1>9. CASE /\ TurnOf(r) = "buyer" /\ r.offer < s.offer /\ s.offer < r.counter /\ s.counter = r.counter
           /\ \/ TurnOf(s) = "vendor" /\ s.agreed = r.agreed
              \/ TurnOf(s) = "deal" /\ s.agreed = s.offer
  <2>1. HaggleMap!Bid(n, s.offer)
    BY <1>9, <1>a, <1>b DEF HaggleMap!Bid
  <2>2. QED
    BY <1>c, <2>1 DEF HaggleMap!Next
<1>10. QED
  <2>1. r.lapsed \in BOOLEAN /\ s.lapsed \in BOOLEAN
    BY DEF Haggled
  <2>2. r.status \in {"pending", "countered"} => r.agreed = 0
    BY <1>1 DEF RowSound
  <2>3. r.status = "accepted" => r.agreed # 0
    BY <1>1 DEF RowSound
  <2>4. CASE s.status = r.status /\ s.offer = r.offer /\ s.counter = r.counter /\ s.agreed = r.agreed
    <3>1. CASE s.lapsed = r.lapsed
      <4>1. TurnOf(s) = TurnOf(r)
        BY <2>4, <3>1 DEF TurnOf
      <4>2. QED
        BY <1>4, <2>4, <4>1
    <3>2. CASE r.lapsed = FALSE /\ s.lapsed = TRUE /\ r.status \in {"pending", "countered"}
      BY <1>5, <2>2, <2>4, <3>2 DEF TurnOf
    <3>3. CASE r.lapsed = FALSE /\ s.lapsed = TRUE /\ r.status = "accepted"
      BY <1>6, <2>3, <2>4, <3>3 DEF TurnOf
    <3>4. s.lapsed = r.lapsed \/ (s.lapsed = TRUE /\ r.status \in {"pending", "countered", "accepted"})
      BY <1>1, <2>4 DEF Move
    <3>5. QED
      BY <2>1, <3>1, <3>2, <3>3, <3>4
  <2>5. CASE /\ r.status \in {"pending", "countered"} /\ s.status \in {"declined", "withdrawn"} /\ ~r.lapsed
             /\ s.offer = r.offer /\ s.counter = r.counter /\ s.agreed = r.agreed
    BY <1>5, <2>5 DEF TurnOf
  <2>6. CASE /\ r.status = "countered" /\ s.status = "accepted" /\ ~r.lapsed /\ ~s.lapsed
             /\ s.offer = r.offer /\ s.counter = r.counter /\ s.agreed = r.counter
    BY <1>7, <2>6 DEF TurnOf
  <2>7. CASE /\ r.status = "pending" /\ s.status = "accepted" /\ ~r.lapsed /\ ~s.lapsed
             /\ s.offer = r.offer /\ s.counter = r.counter /\ s.agreed = r.offer
    BY <1>7, <2>7 DEF TurnOf
  <2>8. CASE /\ r.status = "countered" /\ s.status = "pending" /\ ~r.lapsed /\ ~s.lapsed
             /\ s.counter = r.counter /\ r.offer < s.offer /\ s.offer < r.counter /\ s.agreed = 0
    BY <1>9, <2>2, <2>8 DEF TurnOf
  <2>9. CASE /\ r.status = "countered" /\ s.status = "accepted" /\ ~r.lapsed /\ ~s.lapsed
             /\ s.counter = r.counter /\ r.offer < s.offer /\ s.offer < r.counter /\ s.agreed = s.offer
    BY <1>9, <2>9 DEF TurnOf
  <2>10. CASE /\ r.status = "pending" /\ s.status = "countered" /\ ~r.lapsed /\ ~s.lapsed
              /\ s.offer = r.offer /\ r.offer < s.counter /\ s.agreed = r.agreed
    BY <1>8, <2>10 DEF TurnOf
  <2>11. QED
    BY <1>1, <2>4, <2>5, <2>6, <2>7, <2>8, <2>9, <2>10 DEF Move

\* Opening an offer is the buyer's first bid.
LEMMA OpenRefines ==
    ASSUME OffersTypeOK, DealInv, NEW w \in Worker, NEW n \in Offer, CreateOfferInsert(w, n)
    PROVE  HaggleMap!Next
<1> DEFINE s == NewRow(task[w])
<1>1. task[w] \in Task /\ task[w].op = "open"
  BY DEF CreateOfferInsert, OffersTypeOK
<1>2. /\ s.offer \in Kobo /\ s.counter = 0 /\ s.lapsed = FALSE
      /\ \/ s.status = "accepted" /\ s.agreed = s.offer
         \/ s.status = "pending" /\ s.agreed = 0
  BY <1>1, OpenFields
<1>3. offers' = [offers EXCEPT ![n] = s]
  BY DEF CreateOfferInsert, NewRow
<1> HIDE DEF s
<1>4. offers[n].status = "none"
  BY DEF CreateOfferInsert, Created
<1>5. Turns[n] = "none" /\ Asks[n] = 0 /\ Prices[n] = 0
  BY <1>4, ImageAt DEF TurnOf, AskOf, PriceOf
<1>6. BidOf(s) = s.offer /\ AskOf(s) = 0 /\ PriceOf(s) = s.agreed
  BY <1>2 DEF BidOf, AskOf, PriceOf
<1>7. /\ Turns' = [Turns EXCEPT ![n] = TurnOf(s)] /\ Bids' = [Bids EXCEPT ![n] = s.offer]
      /\ Asks' = Asks /\ Prices' = [Prices EXCEPT ![n] = s.agreed]
  <2>1. /\ Turns' = [Turns EXCEPT ![n] = TurnOf(s)] /\ Bids' = [Bids EXCEPT ![n] = BidOf(s)]
        /\ Asks' = [Asks EXCEPT ![n] = AskOf(s)] /\ Prices' = [Prices EXCEPT ![n] = PriceOf(s)]
    BY <1>3, MapOne
  <2>2. [Asks EXCEPT ![n] = 0] = Asks
    BY <1>5, SameAt
  <2>3. QED
    BY <1>6, <2>1, <2>2
<1>8. CASE s.status = "accepted" /\ s.agreed = s.offer
  <2>1. TurnOf(s) = "deal"
    BY <1>2, <1>8 DEF TurnOf
  <2>2. HaggleMap!Bid(n, s.offer)
    BY <1>5, <1>7, <1>8, <2>1 DEF HaggleMap!Bid
  <2>3. QED
    BY <1>2, <2>2 DEF HaggleMap!Next
<1>9. CASE s.status = "pending" /\ s.agreed = 0
  <2>1. TurnOf(s) = "vendor"
    BY <1>2, <1>9 DEF TurnOf
  <2>2. Prices' = Prices
    BY <1>5, <1>7, <1>9, SameAt
  <2>3. HaggleMap!Bid(n, s.offer)
    BY <1>5, <1>7, <2>1, <2>2 DEF HaggleMap!Bid
  <2>4. QED
    BY <1>2, <2>3 DEF HaggleMap!Next
<1>10. QED
  BY <1>2, <1>8, <1>9

\* A payment sells the deal, late or not, unless it is sold already.
LEMMA PaidRefines ==
    ASSUME OffersTypeOK, DealInv, NEW o \in Order, ConfirmPaid(o)
    PROVE  [HaggleMap!Next]_HaggleMap!haggle
<1>1. PICK n \in Offer, s \in Haggled :
          /\ offers[n] \in Haggled /\ offers' = [offers EXCEPT ![n] = s]
          /\ s.offer = offers[n].offer /\ s.counter = offers[n].counter
          /\ s.agreed = offers[n].agreed /\ s.status = "redeemed"
          /\ offers[n].status \in {"accepted", "expired"} \/ s = offers[n]
          /\ offers[n].agreed # 0
  BY PaidShape
<1>2. offers[n].status # "none" /\ s.status # "none"
  BY <1>1 DEF Haggled, OfferStatus
<1>3. BidOf(s) = BidOf(offers[n]) /\ AskOf(s) = AskOf(offers[n]) /\ PriceOf(s) = PriceOf(offers[n])
  BY <1>1, <1>2 DEF BidOf, AskOf, PriceOf
<1>4. TurnOf(s) = "redeemed"
  BY <1>1 DEF TurnOf
<1>5. offers' = [offers EXCEPT ![n] = s]
  BY <1>1
<1>6. /\ Turns' = [Turns EXCEPT ![n] = "redeemed"]
      /\ Bids' = Bids /\ Asks' = Asks /\ Prices' = Prices
  <2>1. /\ Turns' = [Turns EXCEPT ![n] = TurnOf(s)] /\ Bids' = [Bids EXCEPT ![n] = BidOf(s)]
        /\ Asks' = [Asks EXCEPT ![n] = AskOf(s)] /\ Prices' = [Prices EXCEPT ![n] = PriceOf(s)]
    BY <1>5, MapOne
  <2>2. BidOf(s) = Bids[n] /\ AskOf(s) = Asks[n] /\ PriceOf(s) = Prices[n]
    BY <1>3, ImageAt
  <2>3. QED
    BY <1>4, <2>1, <2>2, SameAt
<1>7. CASE s = offers[n]
  <2>1. Turns' = Turns
    BY <1>4, <1>6, <1>7, ImageAt, SameAt
  <2>2. QED
    BY <1>6, <2>1 DEF HaggleMap!haggle
<1>8. CASE offers[n].status \in {"accepted", "expired"}
  <2>1. Turns[n] \in {"deal", "late"}
    BY <1>1, <1>8, ImageAt DEF TurnOf
  <2>2. HaggleMap!Redeem(n)
    BY <1>6, <2>1 DEF HaggleMap!Redeem
  <2>3. QED
    BY <2>2 DEF HaggleMap!Next
<1>9. QED
  BY <1>1, <1>7, <1>8

\* The other side cannot see the sweep.
LEMMA SweepRefines ==
    ASSUME OffersTypeOK, DealInv, NEW P, ExpireOffers(P)
    PROVE  UNCHANGED HaggleMap!haggle
<1>1. ASSUME NEW n \in Offer PROVE Image(offers'[n]) = Image(offers[n])
  <2>1. CASE offers'[n] = offers[n]
    BY <2>1
  <2>2. CASE /\ offers[n].status \in {"pending", "countered", "accepted"} /\ offers[n].lapsed
             /\ offers'[n].status = "expired"
             /\ offers'[n].offer = offers[n].offer /\ offers'[n].counter = offers[n].counter
             /\ offers'[n].agreed = offers[n].agreed
    <3>1. RowSound(offers[n])
      BY DEF DealInv
    <3>2. offers[n].status = "accepted" <=> offers[n].agreed # 0
      BY <2>2, <3>1 DEF RowSound
    <3>3. TurnOf(offers'[n]) = TurnOf(offers[n])
      BY <2>2, <3>2 DEF TurnOf
    <3>4. QED
      BY <2>2, <3>3 DEF Image, BidOf, AskOf, PriceOf
  <2>3. QED
    BY <2>1, <2>2, SweepShape
<1>2. QED
  BY <1>1, SameImage

LEMMA OffersRefineStep ==
    ASSUME OffersTypeOK, DealInv, [OffersNext]_vars
    PROVE  [HaggleMap!Next]_HaggleMap!haggle
<1>1. ASSUME NEW n \in Offer, Moves(n) PROVE [HaggleMap!Next]_HaggleMap!haggle
  <2>1. PICK s \in Haggled : Move(offers[n], s) /\ offers' = [offers EXCEPT ![n] = s]
    BY <1>1, MoveShape DEF Put
  <2>2. QED
    BY <2>1, MoveRefines
<1>2. ASSUME offers' = offers PROVE UNCHANGED HaggleMap!haggle
  BY <1>2, SameImage
<1>3. CASE CatalogueStep \/ UNCHANGED vars
  <2>1. offers' = offers
    BY <1>3 DEF CatalogueStep, UpdateProduct, SetPublished, vars
  <2>2. QED
    BY <1>2, <2>1
<1>4. ASSUME NEW w \in Worker, CreateOffer(w) \/ PlaceOrder(w) \/ Fail(w)
      PROVE  [HaggleMap!Next]_HaggleMap!haggle
  <2>1. CASE \E n \in Offer : CreateOfferInsert(w, n)
    BY <2>1, OpenRefines
  <2>2. CASE \/ \E b \in Buyer, p \in Product, x \in Kobo : CreateOfferRead(w, b, p, x)
             \/ PlaceOrder(w) \/ Fail(w)
    <3>1. offers' = offers
      BY <2>2 DEF CreateOfferRead, PlaceOrder, PriceDeal, InsertOrder, Fail, tables
    <3>2. QED
      BY <1>2, <3>1
  <2>3. QED
    BY <1>4, <2>1, <2>2 DEF CreateOffer
<1>5. QED
  BY <1>1, <1>3, <1>4, SweepRefines, PaidRefines DEF OffersNext, Sweep, Moves

LEMMA OffersRefineInit == Init => HaggleMap!Init
<1>1. TurnOf(NoOffer) = "none" /\ BidOf(NoOffer) = 0 /\ AskOf(NoOffer) = 0 /\ PriceOf(NoOffer) = 0
  BY DEF NoOffer, TurnOf, BidOf, AskOf, PriceOf
<1>2. QED
  BY <1>1 DEF Init, HaggleMap!Init, Turns, Bids, Asks, Prices

\* However requests, edits of the product, expiry and payments interleave, a table of
\* offers is a set of negotiations that take turns, keep the price struck and are marked
\* redeemed once (offers.go, redeemOffersTx).  How many orders are paid at one deal it does
\* not say: two may be, and the second leaves the offer as it is.
THEOREM OffersImplementHaggle == OffersSpec => ImplementsHaggle
<1>1. Init => HaggleMap!Init
  BY OffersRefineInit
<1>2. OffersTypeOK /\ DealInv /\ [OffersNext]_vars => [HaggleMap!Next]_HaggleMap!haggle
  BY OffersRefineStep
<1>3. QED
  BY <1>1, <1>2, DealsSound, PTL DEF OffersSpec, ImplementsHaggle, HaggleMap!Spec
=============================================================================
