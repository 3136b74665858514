SPECIFICATION SystemSpec
CONSTANTS
    u1 = u1  u2 = u2
    k1 = k1
    r1 = r1  r2 = r2
    a1 = a1
    d1 = d1  d2 = d2
    t1 = t1
    c1 = c1
    p1 = p1
    Orders = {r1, r2}
    Products = {1, 2, 3}
    Items <- NothingPlaced
    InitialStock <- TwoOfEach
    InitialCarts <- ApartCarts
    MethodOf <- FirstByCard
    Users = {u1, u2}
    UserOf <- EachTheirOwn
    Keys = {k1}
    KeyOf <- OneKey
    Campaigns = {p1}
    PromoOf <- AllUsePromo
    UsageLimit <- LimitOne
    Cancels = {a1}
    CancelOf <- CancelFirst
    Transactions = {t1}
    OrderOf <- PayFirst
    Echoes = {{}, {t1}}
    Restocked = {}
    Deliveries = {d1, d2}
    TxnOf <- OneTransaction
    Crons = {c1}
    AdminStatuses = {"SHIPPED", "CANCELLED"}
    ExpiringKeys = {t1}
    Ageing = {r1}
    Failing = {d1, c1}
    Faults = {"gateway"}
    Expiring = {}
    Removable = {}
    MaxProductId = 3
    CartQuantities <- OnePiece
    MaxStock = 2
    NoPromo = NoPromo
    NoTx = NoTx
    NoOrder = NoOrder
    NoRef = NoRef
    IntentionId = IntentionId
    Absent = Absent
    Processing = Processing
    NoReply = NoReply
    Conflict = Conflict
    Rejected = Rejected
    RedisError = RedisError
    NoRow = NoRow
INVARIANTS TypeOK NoStockLost AppliedOncePerKey CallbackFindsOrder CampaignsStayCapped
PROPERTIES CleanupKeepsPaid CancelEndsPending
CHECK_DEADLOCK FALSE
