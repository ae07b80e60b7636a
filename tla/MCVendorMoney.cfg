SPECIFICATION MoneySpec
CONSTANTS
    v1 = v1
    d1 = d1
    o1 = o1
    p1 = p1
    p2 = p2
    sweeper = sweeper
    trigger = trigger
    t1 = t1
    t2 = t2
    NoVendor = NoVendor
    NoNumber = NoNumber
    Vendor = {v1}
    Store = {v1}
    Serial = {1, 2}
    Worker = {sweeper, trigger}
    Sweeper = sweeper
    Order = {o1}
    Deposit = {d1}
    Payout = {p1, p2}
    Teller = {t1, t2}
    Kobo = {1}
INVARIANTS
    MoneyTypeOK
    DepositsReachVendor
    Solvent
PROPERTIES
    ProvisionedInTheEnd
CHECK_DEADLOCK FALSE
