SPECIFICATION NoticesSpec
CONSTANTS
    o1 = o1
    o2 = o2
    o3 = o3
    o4 = o4
    r1 = r1
    s1 = s1
    s2 = s2
    w1 = w1
    w2 = w2
    Order <- RetryOrder
    Ref <- MCRef
    Store <- MCStore
    RefOf <- RetryRefOf
    StoreOf <- RetryStoreOf
    Pickup <- MCPickup
    ItemsKobo <- RetryItemsKobo
    FeeKobo <- RetryFeeKobo
    Worker <- MCWorker
    Basket <- RetryBasket
CHECK_DEADLOCK FALSE
INVARIANTS
    ReceiptOnlyForPaid
