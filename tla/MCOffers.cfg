SPECIFICATION OffersLiveSpec
CONSTANTS
    n1 = n1
    b1 = b1
    p1 = p1
    o1 = o1
    o2 = o2
    w1 = w1
    w2 = w2
    Offer = {n1}
    Buyer = {b1}
    Product = {p1}
    Order = {o1, o2}
    Worker = {w1, w2}
    Kobo <- MCKobo
    FirstListing <- MCListing
    Edit <- MCEdit
    MaxBuyerOffers = 2
    DailyOffers = 1
INVARIANTS
    OffersTypeOK
    PricedAsAgreed
    RedeemedWhenPaid
    BargainBelowList
PROPERTIES
    ImplementsHaggle
    NegotiationEnds
