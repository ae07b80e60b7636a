SPECIFICATION NoticesLiveSpec
CONSTANTS
    o1 = o1
    o2 = o2
    o3 = o3
    o4 = o4
    r1 = r1
    s1 = s1
    s2 = s2
    w1 = w1
    w2 = w2
    Order <- MCOrder
    Ref <- MCRef
    Store <- MCStore
    RefOf <- MCRefOf
    StoreOf <- MCStoreOf
    Pickup <- MCPickup
    ItemsKobo <- MCItemsKobo
    FeeKobo <- MCFeeKobo
    Worker <- MCWorker
    Basket <- MCBasket
CHECK_DEADLOCK FALSE
INVARIANTS
    CreditsAsCharged
    PaidAreTold
PROPERTIES
    ChargeConfirms
    ImplementsSettlement
