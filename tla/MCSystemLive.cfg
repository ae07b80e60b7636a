SPECIFICATION PaidLiveSpec
CONSTANTS
    o1 = o1
    o2 = o2
    r1 = r1
    s1 = s1
    s2 = s2
    w1 = w1
    w2 = w2
    Order <- LoneOrder
    Ref <- MCRef
    Store <- MCStore
    RefOf <- LoneRefOf
    StoreOf <- LoneStoreOf
    Pickup <- NoPickup
    ItemsKobo <- LoneItemsKobo
    FeeKobo <- LoneFeeKobo
    Worker <- TwoWorkers
    Basket <- LoneBasket
CHECK_DEADLOCK FALSE
PROPERTIES
    OverdueReleased
    DeliveredPaysOut
