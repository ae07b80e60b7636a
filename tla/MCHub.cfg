SPECIFICATION HubSpec
CONSTANTS
    o1 = o1
    o2 = o2
    r1 = r1
    s1 = s1
    s2 = s2
    w1 = w1
    w2 = w2
    Order <- PairOrder
    Ref <- MCRef
    Store <- MCStore
    RefOf <- PairRefOf
    StoreOf <- PairStoreOf
    Pickup <- NoPickup
    ItemsKobo <- PairItemsKobo
    FeeKobo <- PairFeeKobo
    Worker <- TwoWorkers
    Basket <- PairBasket
CHECK_DEADLOCK FALSE
SYMMETRY MCSymmetry
INVARIANTS
    BasketShipsThroughHub
    RefundRecordedOnlyIfIssued
