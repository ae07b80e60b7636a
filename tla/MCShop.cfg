SPECIFICATION ShopSpec
CONSTANTS
    Request = {r1, r2}
    MaxBurst = 4
    Free = "free"
    Plan <- MCPlan
    Limit <- MCLimit
    Setting = {template}
    MaxRows = 4
    Address = {a1, a2}
    Bank = {b1, b2}
    NoAddress = NoAddress
    Reader = {x1, x2}
    MaxAgain = 2
    Product <- MCProduct
    List <- MCList
    Shop = {s1, s2, s3}
    Query <- MCQuery
    Traits <- MCTraits
    Limits = {0, 1}
    MaxLimit = 3
    DefaultLimit = 2
    MaxPer = 2
    DefaultPer = 1
    FirstEntries = 3
    MaxEntries = 4
    MaxChange = 1
    Option = {o1, o2, o3}
    OnSale = {o1, o2}
    Price = {0, 1}
    MaxPosition = 2
    KnownGateways = {"paystack", "manual"}
    Paystack = "paystack"
    Field = {"full_name", "terms"}
    Value = {"v1", "v2"}
    Null = "null"
    Required = {"full_name", "terms"}
    Terms = "terms"
    Process = {"x", "y"}
    Deployments <- MCDeployments
    File <- MCFile
    FilesOf <- MCFilesOf
    NeededBy <- MCNeededBy
    Repeatable <- MCRepeatable
    Earlier <- MCEarlier
    MaxPings = 2
    MaxStops = 1
INVARIANTS
    ShopTypeOK
    PlanLimitsHold
    AttemptsLimited
    OneIsMarked
    MailedOnce
    ListsStand
    SchemaStands
    SettingsStand
    PatchKept
PROPERTIES
    StepsGoForward
    StoreIsFound
    PlatformComesUp
CHECK_DEADLOCK FALSE
