-------------------------------- MODULE Offers --------------------------------
(***************************************************************************)
(* Price offers: a buyer haggling over a negotiable product, up to the     *)
(* order that is bought at the agreed price.  A move on an offer is one    *)
(* transaction under SELECT ... FOR UPDATE.  Opening an offer and placing  *)
(* an order at a deal's price read first and write later, while the vendor *)
(* edits the product, the window passes, the expiry sweep runs and other   *)
(* orders are paid.                                                        *)
(***************************************************************************)
EXTENDS Integers, FiniteSets

CONSTANTS
    Offer,          \* negotiations
    Buyer,          \* buyers, by e-mail
    Product,
    Order,          \* orders of one line bought at a deal's price
    Worker,
    Kobo,           \* amounts either side may name
    FirstListing,   \* the product as it is when haggling begins
    Edit,           \* the edits its vendor may send: price, negotiable, floor (0 for none)
    MaxBuyerOffers,
    DailyOffers     \* dailyOffersPerProduct

ASSUME OfferAssumption ==
    /\ Kobo \subseteq Nat \ {0}
    /\ MaxBuyerOffers \in Nat \ {0}
    /\ DailyOffers \in Nat \ {0}

VARIABLES
    products,       \* products[p]: the columns an offer depends on
    offers,         \* offers[n]: the price_offers row
    deals,          \* deals[o]: the order bought at a deal's price
    task            \* task[w]: what a request in flight has read

tables == <<products, offers, deals>>
vars == <<products, offers, deals, task>>

-----------------------------------------------------------------------------

\* floor is min_price_kobo, 0 for NULL.
Listing == [price: Kobo, negotiable: BOOLEAN, published: BOOLEAN, floor: Kobo \cup {0}]

OfferStatus == {"pending", "countered", "accepted", "declined", "expired", "redeemed", "withdrawn"}

NoOffer == [status |-> "none"]

\* counter, agreed: 0 for NULL.  lapsed: expires_at has passed.  today: created
\* less than 24 hours ago.  soldTo: redeemed_order_id, at most one order.
OfferRow ==
    {NoOffer} \cup
    [status: OfferStatus, buyer: Buyer, product: Product, list: Kobo, offer: Kobo,
     counter: Kobo \cup {0}, agreed: Kobo \cup {0}, moves: 1 .. MaxBuyerOffers,
     lapsed: BOOLEAN, today: BOOLEAN, soldTo: SUBSET Order]

NoOrder == [status |-> "none"]

DealRow == {NoOrder} \cup [status: {"unpaid", "paid"}, offer: Offer, kobo: Kobo]

Idle == [op |-> "idle"]

Task ==
    {Idle}
    \cup [op: {"open"}, buyer: Buyer, product: Product, list: Kobo, amount: Kobo, instant: BOOLEAN]
    \cup [op: {"place"}, order: Order, offer: Offer, kobo: Kobo]

OffersTypeOK ==
    /\ products \in [Product -> Listing]
    /\ offers \in [Offer -> OfferRow]
    /\ deals \in [Order -> DealRow]
    /\ task \in [Worker -> Task]

ASSUME ListingAssumption ==
    /\ FirstListing \in [Product -> Listing]
    /\ Edit \subseteq [price: Kobo, negotiable: BOOLEAN, floor: Kobo \cup {0}]

Init ==
    /\ products = FirstListing
    /\ offers = [n \in Offer |-> NoOffer]
    /\ deals = [o \in Order |-> NoOrder]
    /\ task = [w \in Worker |-> Idle]

-----------------------------------------------------------------------------

Created(n) == offers[n].status # "none"

Open(n) == offers[n].status \in {"pending", "countered"}

\* Mutant: a deal is held for ever.
LapsedOpen(n) == Open(n) /\ offers[n].lapsed

\* An offer past its window is treated as expired before the sweep marks it.
Lapsed(n) == (Open(n) \/ offers[n].status = "accepted") /\ offers[n].lapsed

Live(n) == Created(n) /\ ~Lapsed(n)

ClearsFloor(p, amount) == products[p].floor # 0 /\ amount >= products[p].floor

Start(w, t) == task[w] = Idle /\ task' = [task EXCEPT ![w] = t]

Finish(w) == task' = [task EXCEPT ![w] = Idle]

\* One move of an offer: a row replaced in one transaction.
Put(n, row) == offers' = [offers EXCEPT ![n] = row] /\ UNCHANGED <<products, deals, task>>

-----------------------------------------------------------------------------
(* The vendor's product, edited through the catalogue service. *)

\* products_negotiable_floor: a NULL floor passes, as NULL passes any SQL CHECK.
FloorFits(l) ==
    \/ ~l.negotiable /\ l.floor = 0
    \/ l.negotiable /\ (l.floor = 0 \/ l.floor < l.price)

\* A request that names no floor keeps the one there is, unless haggling stops.
UpdateProduct(p, e) ==
    LET l == [products[p] EXCEPT
                  !.price = e.price, !.negotiable = e.negotiable,
                  !.floor = IF ~e.negotiable THEN 0 ELSE IF e.floor # 0 THEN e.floor ELSE @]
    IN  /\ FloorFits(l)
        /\ products' = [products EXCEPT ![p] = l]
        /\ UNCHANGED <<offers, deals, task>>

SetPublished(p, b) ==
    /\ products' = [products EXCEPT ![p].published = b]
    /\ UNCHANGED <<offers, deals, task>>

-----------------------------------------------------------------------------
(* Opening. *)

Today(b, p) ==
    {n \in Offer : Created(n) /\ offers[n].buyer = b /\ offers[n].product = p /\ offers[n].today}

\* CreateOffer up to its transaction.  An offer under half the price is not sent.
CreateOfferRead(w, b, p, amount) ==
    /\ products[p].published /\ products[p].negotiable
    /\ amount < products[p].price
    /\ 2 * amount >= products[p].price
    /\ Cardinality(Today(b, p)) < DailyOffers
    /\ Start(w, [op |-> "open", buyer |-> b, product |-> p, list |-> products[p].price,
                 amount |-> amount, instant |-> ClearsFloor(p, amount)])
    /\ UNCHANGED tables

\* uniq_price_offers_open: one open negotiation per buyer and product.
Taken(t) ==
    \E m \in Offer : Open(m) /\ offers[m].buyer = t.buyer /\ offers[m].product = t.product

CreateOfferInsert(w, n) ==
    /\ task[w].op = "open"
    /\ ~Created(n)
    /\ LET t == task[w]
       IN  /\ t.instant \/ ~Taken(t)
           /\ offers' = [offers EXCEPT ![n] =
                  [status |-> IF t.instant THEN "accepted" ELSE "pending",
                   buyer |-> t.buyer, product |-> t.product, list |-> t.list, offer |-> t.amount,
                   counter |-> 0, agreed |-> IF t.instant THEN t.amount ELSE 0,
                   moves |-> 1, lapsed |-> FALSE, today |-> TRUE, soldTo |-> {}]]
    /\ Finish(w)
    /\ UNCHANGED <<products, deals>>

-----------------------------------------------------------------------------
(* Moves. *)

Settle(row, status) == [row EXCEPT !.status = status]

\* settleOffer: a deal gets a window of its own.
Deal(row, agreed) == [row EXCEPT !.status = "accepted", !.agreed = agreed, !.lapsed = FALSE]

BuyerAccept(n) ==
    /\ Live(n) /\ offers[n].status = "countered"
    /\ Put(n, Deal(offers[n], offers[n].counter))

BuyerDecline(n) ==
    /\ Live(n) /\ offers[n].status = "countered"
    /\ Put(n, Settle(offers[n], "declined"))

BuyerWithdraw(n) ==
    /\ Live(n) /\ Open(n)
    /\ Put(n, Settle(offers[n], "withdrawn"))

\* A deal on the spot at the floor or above it, the vendor's turn below.
Reception(p, amount) == IF ClearsFloor(p, amount) THEN "accepted" ELSE "pending"

Comeback(row, amount, status) ==
    [row EXCEPT !.offer = amount, !.moves = @ + 1, !.lapsed = FALSE, !.status = status,
                !.agreed = IF status = "accepted" THEN amount ELSE 0]

\* Mutants: the comebacks are not counted; the buyer may come back once it is a deal.
BuyerCounterUncounted(n, amount) ==
    LET row == offers[n]
    IN  /\ Live(n) /\ row.status = "countered"
        /\ row.offer < amount /\ amount < row.counter
        /\ Put(n, Comeback(row, amount, Reception(row.product, amount)))

BuyerCounterAfterDeal(n, amount) ==
    LET row == offers[n]
    IN  /\ Live(n) /\ row.status \in {"countered", "accepted"}
        /\ row.moves < MaxBuyerOffers
        /\ row.offer < amount /\ amount < row.counter
        /\ Put(n, Comeback(row, amount, Reception(row.product, amount)))

\* A comeback is answered by the floor as it is now.
BuyerCounter(n, amount) ==
    LET row == offers[n]
    IN  /\ Live(n) /\ row.status = "countered"
        /\ row.moves < MaxBuyerOffers
        /\ row.offer < amount /\ amount < row.counter
        /\ Put(n, Comeback(row, amount, Reception(row.product, amount)))

\* Mutant: the vendor takes the buyer's offer after countering it.
VendorAcceptOpen(n) ==
    /\ Live(n) /\ Open(n)
    /\ Put(n, Deal(offers[n], offers[n].offer))

VendorAccept(n) ==
    /\ Live(n) /\ offers[n].status = "pending"
    /\ Put(n, Deal(offers[n], offers[n].offer))

\* Mutant: the counter may be the list price.
VendorCounterAtList(n, amount) ==
    /\ Live(n) /\ offers[n].status = "pending"
    /\ offers[n].offer < amount /\ amount <= offers[n].list
    /\ Put(n, [offers[n] EXCEPT !.counter = amount, !.status = "countered", !.lapsed = FALSE])

VendorCounter(n, amount) ==
    /\ Live(n) /\ offers[n].status = "pending"
    /\ offers[n].offer < amount /\ amount < offers[n].list
    /\ Put(n, [offers[n] EXCEPT !.counter = amount, !.status = "countered", !.lapsed = FALSE])

VendorDecline(n) ==
    /\ Live(n) /\ Open(n)
    /\ Put(n, Settle(offers[n], "declined"))

-----------------------------------------------------------------------------
(* Time. *)

\* offerWindow is 48 hours, so the first window outlasts the day of creation;
\* the window of a closed offer is never asked for.
DayPasses(n) ==
    /\ Created(n) /\ offers[n].today
    /\ Put(n, [offers[n] EXCEPT !.today = FALSE])

WindowPasses(n) ==
    /\ Open(n) \/ offers[n].status = "accepted"
    /\ ~offers[n].today /\ ~offers[n].lapsed
    /\ Put(n, [offers[n] EXCEPT !.lapsed = TRUE])

\* One UPDATE, of every store's offers or of one store's when its inbox is read.
ExpireOffers(P) ==
    /\ \E n \in Offer : Lapsed(n) /\ offers[n].product \in P
    /\ offers' = [n \in Offer |-> IF Lapsed(n) /\ offers[n].product \in P
                                  THEN Settle(offers[n], "expired") ELSE offers[n]]
    /\ UNCHANGED <<products, deals, task>>

-----------------------------------------------------------------------------
(* Buying at the agreed price. *)

\* priceItems, for a line that names the deal; a line at any other price is refused.
PriceDeal(w, o, n) ==
    /\ deals[o] = NoOrder
    /\ Created(n) /\ products[offers[n].product].published
    /\ offers[n].status = "accepted" /\ ~offers[n].lapsed
    /\ Start(w, [op |-> "place", order |-> o, offer |-> n, kobo |-> offers[n].agreed])
    /\ UNCHANGED tables

InsertOrder(w) ==
    /\ task[w].op = "place"
    /\ deals[task[w].order] = NoOrder
    /\ deals' = [deals EXCEPT ![task[w].order] =
           [status |-> "unpaid", offer |-> task[w].offer, kobo |-> task[w].kobo]]
    /\ Finish(w)
    /\ UNCHANGED <<products, offers>>

Sold(row, o) == [row EXCEPT !.status = "redeemed", !.soldTo = {o}]

\* Mutant: a deal that has expired since stays expired.
RedeemedInTime(o, n) ==
    IF offers[n].status = "accepted"
    THEN Sold(offers[n], o)
    ELSE offers[n]

\* redeemOffersTx, in the transaction that marks the order paid: the deal was good
\* when the order was placed, so one that expired since is redeemed too.
Redeemed(o, n) ==
    IF offers[n].status \in {"accepted", "expired"}
    THEN Sold(offers[n], o)
    ELSE offers[n]

ConfirmPaid(o) ==
    /\ deals[o].status = "unpaid"
    /\ deals' = [deals EXCEPT ![o].status = "paid"]
    /\ offers' = [offers EXCEPT ![deals[o].offer] = Redeemed(o, deals[o].offer)]
    /\ UNCHANGED <<products, task>>

\* The request fails, or its INSERT finds the key taken.
Fail(w) ==
    /\ task[w] # Idle
    /\ Finish(w)
    /\ UNCHANGED tables

-----------------------------------------------------------------------------

CatalogueStep ==
    \E p \in Product :
        \/ \E e \in Edit : UpdateProduct(p, e)
        \/ \E b \in BOOLEAN : SetPublished(p, b)

CreateOffer(w) ==
    \/ \E b \in Buyer, p \in Product, x \in Kobo : CreateOfferRead(w, b, p, x)
    \/ \E n \in Offer : CreateOfferInsert(w, n)

BuyerMove(n) ==
    \/ BuyerAccept(n) \/ BuyerDecline(n) \/ BuyerWithdraw(n)
    \/ \E x \in Kobo : BuyerCounter(n, x)

VendorMove(n) ==
    \/ VendorAccept(n) \/ VendorDecline(n)
    \/ \E x \in Kobo : VendorCounter(n, x)

Sweep == \E P \in {Product} \cup {{p} : p \in Product} : ExpireOffers(P)

PlaceOrder(w) == (\E o \in Order, n \in Offer : PriceDeal(w, o, n)) \/ InsertOrder(w)

OffersNext ==
    \/ CatalogueStep
    \/ \E n \in Offer : BuyerMove(n) \/ VendorMove(n) \/ DayPasses(n) \/ WindowPasses(n)
    \/ Sweep
    \/ \E o \in Order : ConfirmPaid(o)
    \/ \E w \in Worker : CreateOffer(w) \/ PlaceOrder(w) \/ Fail(w)

OffersSpec == Init /\ [][OffersNext]_vars

\* Time passes and the expiry loop ticks; neither side nor the payment has to come.
OffersFairness ==
    /\ \A n \in Offer : WF_vars(DayPasses(n)) /\ WF_vars(WindowPasses(n))
    /\ WF_vars(ExpireOffers(Product))

OffersLiveSpec == OffersSpec /\ OffersFairness

-----------------------------------------------------------------------------
(* Properties. *)

\* An order bought at a deal's price was placed at the price that was agreed, and
\* the deal still says so: no move after the agreement touches agreed_kobo, however
\* late the order is inserted (priceItems, settleOffer).
PricedAsAgreed ==
    \A o \in Order : deals[o] # NoOrder => deals[o].kobo = offers[deals[o].offer].agreed

\* A deal is redeemed exactly when an order bought at it is paid, and names a paid
\* order of its own, although it may expire, or be bought by a second order, between
\* the order and its payment (redeemOffersTx).
RedeemedWhenPaid ==
    \A n \in Offer : Created(n) =>
        LET buyers == {o \in Order : deals[o].status = "paid" /\ deals[o].offer = n}
        IN  /\ offers[n].status = "redeemed" <=> buyers # {}
            /\ offers[n].soldTo \subseteq buyers
            /\ offers[n].status = "redeemed" => offers[n].soldTo # {}

\* A price can be agreed only below the list price the buyer saw, whoever names it and
\* whatever the product costs by then (CreateOffer, buyerMove, RespondAsVendor).
BargainBelowList ==
    \A n \in Offer : Created(n) =>
        /\ offers[n].offer < offers[n].list
        /\ offers[n].counter < offers[n].list
        /\ offers[n].agreed < offers[n].list
        /\ offers[n].status = "countered" => offers[n].offer < offers[n].counter

\* No negotiation and no unpaid deal stays open for ever: every reply renews the
\* window, but replies are bounded and the window passes (StartOfferExpiryLoop).
NegotiationEnds ==
    \A n \in Offer :
        (offers[n].status \in {"pending", "countered", "accepted"})
            ~> (offers[n].status \in {"declined", "withdrawn", "expired", "redeemed"})

-----------------------------------------------------------------------------
(* What the proofs lean on. *)

DealStatus == {"accepted", "expired", "redeemed"}

\* The columns of a row agree with how far the bargain has come.
RowSound(r) ==
    r.status # "none" =>
        /\ r.offer < r.list /\ r.counter < r.list /\ r.agreed < r.list
        /\ r.status = "countered" => r.offer < r.counter
        /\ r.status \in {"accepted", "redeemed"} => r.agreed # 0
        /\ r.status \in {"pending", "countered", "declined", "withdrawn"} => r.agreed = 0

\* The price an order carries, or is about to, is one the deal still names.
Agreed(n, kobo) == offers[n].status \in DealStatus /\ offers[n].agreed = kobo

\* The invariant the proofs carry: every row is sound, every order at a deal's price
\* holds a deal that still names that price, and a deal is redeemed by payment alone
\* (redeemOffersTx, priceItems and the moves of buyerMove and RespondAsVendor).
DealInv ==
    /\ \A n \in Offer : RowSound(offers[n])
    /\ \A o \in Order : deals[o] # NoOrder => Agreed(deals[o].offer, deals[o].kobo)
    /\ \A w \in Worker :
        /\ task[w].op = "place" => Agreed(task[w].offer, task[w].kobo)
        /\ task[w].op = "open" => task[w].amount < task[w].list
    /\ RedeemedWhenPaid

-----------------------------------------------------------------------------
(* The refinement. *)

\* An offer past its window reads as expired whether or not the sweep has come.
TurnOf(r) ==
    IF r.status = "none" THEN "none"
    ELSE IF r.status = "redeemed" THEN "redeemed"
    ELSE IF r.status = "accepted" /\ ~r.lapsed THEN "deal"
    ELSE IF r.status \in {"accepted", "expired"} /\ r.agreed # 0 THEN "late"
    ELSE IF r.status = "pending" /\ ~r.lapsed THEN "vendor"
    ELSE IF r.status = "countered" /\ ~r.lapsed THEN "buyer"
    ELSE "over"

BidOf(r) == IF r.status = "none" THEN 0 ELSE r.offer
AskOf(r) == IF r.status = "none" THEN 0 ELSE r.counter
PriceOf(r) == IF r.status = "none" THEN 0 ELSE r.agreed

Turns == [n \in Offer |-> TurnOf(offers[n])]
Bids == [n \in Offer |-> BidOf(offers[n])]
Asks == [n \in Offer |-> AskOf(offers[n])]
Prices == [n \in Offer |-> PriceOf(offers[n])]

HaggleMap == INSTANCE Haggle WITH turn <- Turns, bid <- Bids, ask <- Asks, price <- Prices

\* Under stale reads, edits of the product, expiry and payment in any order, a
\* negotiation is one the two sides would recognise, and "the outcome never depends on
\* when the sweep last ran" (offerRow.lapsed): the sweep is a stutter.
ImplementsHaggle == HaggleMap!Spec
=============================================================================
